--------------------------- MODULE StartupProofs ----------------------------
(***************************************************************************)
(* Proofs about what main prepares before an image is loaded: what it      *)
(* knows of memory, the manager that hands memory out (src/src/mem.c) and  *)
(* the configuration (src/src/config.c).                                   *)
(*                                                                         *)
(* PhysMem, for every memory map, every size of the list and every         *)
(* request: under DisjointMap the free list never offers a byte twice, no  *)
(* caller's memory is handed out again, and every pointer that is returned *)
(* designates memory the machine has.                                      *)
(*                                                                         *)
(* Startup, for every machine: BIOSes that lack calls or fail in the       *)
(* middle of the map, maps that are longer than the heap has room for, and *)
(* maps that never end.                                                    *)
(*                                                                         *)
(* Config, for every file whose numbers strtoul reads right: what is       *)
(* accepted is what the lines mean.  After n lines the configuration is    *)
(* what these n lines mean, which one more line keeps.                     *)
(***************************************************************************)
EXTENDS PhysMem, Startup, FiniteSetTheorems, TLAPS

----------------------------------------------------------------------------
(* PhysMem *)

(* The inductive strengthening of the safety properties. *)

\* A list of nonempty regions at or above 1 MB, no two overlapping.
Solid(list) ==
    /\ list \in Seq(Region)
    /\ \A i \in DOMAIN list : list[i].size > 0 /\ list[i].addr >= MB
    /\ \A i, j \in DOMAIN list : i # j => Disjoint(list[i], list[j])

Avoids(list, s) == \A i \in DOMAIN list : Disjoint(list[i], s)

Within(list, S) == \A i \in DOMAIN list : Bytes(list[i]) \subseteq S

Inside(r, s) == s.addr <= r.addr /\ End(r) <= End(s)

Listing(list, r) == \E i \in DOMAIN list : Inside(r, list[i])

\* While PhysInit runs nothing is held, the entries it has read are free and
\* the ones it has yet to read are clear of the list.
InitPhase ==
    phase # "run" =>
        /\ live = {}
        /\ \A i \in Listed : i < next => Listing(PhysMem, AddedByMap(i))
        /\ \A i \in Listed : i >= next => Avoids(PhysMem, AddedByMap(i))
        /\ Listed = {} => PhysMem = << >>
        /\ phase = "simple" => HasSimple /\ next > Len(MemoryMap)

HeldRegions ==
    \A r \in live : r.size > 0 /\ Avoids(PhysMem, r) /\ Bytes(r) \subseteq RAM

\* Everything at once: the list is solid and made of real memory, and what is
\* held is clear of it and of everything else held.
IInv ==
    /\ TypeOK
    /\ Solid(PhysMem)
    /\ Within(PhysMem, RAM)
    /\ HeldRegions
    /\ \A r, s \in live : r # s => Disjoint(r, s)
    /\ InitPhase

----------------------------------------------------------------------------
(* Joining two regions that do not overlap *)

\* When a region that touches a disjoint one joins it, the result is exactly
\* their union (Join in AddToPhysList).
LEMMA JoinIsUnion ==
    ASSUME NEW c \in Region, NEW n \in Region,
           c.size > 0, n.size > 0, Disjoint(c, n), Joins(c, n)
    PROVE  /\ Join(c, n) \in Region
           /\ \/ /\ End(c) = n.addr
                 /\ Join(c, n) = [addr |-> c.addr, size |-> c.size + n.size]
              \/ /\ End(n) = c.addr
                 /\ Join(c, n) = [addr |-> n.addr, size |-> c.size + n.size]
<1> USE DEF Region, End
<1>1. CASE End(c) <= n.addr
  <2>1. StartInside(c, n) /\ End(c) = n.addr
    BY <1>1 DEF Joins, StartInside, EndInside, Holds
  <2>2. Join(c, n) = [c EXCEPT !.size = c.size + n.size]
    BY <2>1 DEF Join, Max2
  <2> QED BY <2>1, <2>2
<1>2. CASE End(n) <= c.addr
  <2>1. ~StartInside(c, n) /\ EndInside(c, n) /\ End(n) = c.addr
    BY <1>2 DEF Joins, StartInside, EndInside, Holds
  <2>2. Join(c, n) = [addr |-> n.addr, size |-> c.size + n.size]
    BY <2>1 DEF Join, Min2
  <2> QED BY <2>1, <2>2
<1> QED BY <1>1, <1>2 DEF Disjoint

\* The part of a region that AddToPhysList keeps is a nonempty region at or
\* above 1 MB.
LEMMA ClampType ==
    ASSUME NEW start \in Nat, NEW length \in Nat \ {0}, start + length > MB
    PROVE  /\ Clamp(start, length) \in Region
           /\ Clamp(start, length).size > 0
           /\ Clamp(start, length).addr >= MB
<1>1. MB \in Nat
  BY ParamAssumption
<1>2. /\ Max2(start, MB) \in Nat
      /\ Max2(start, MB) >= MB
      /\ start + length > Max2(start, MB)
  BY <1>1 DEF Max2
<1> QED BY <1>1, <1>2 DEF Clamp, Region

----------------------------------------------------------------------------
(* AddToPhysList *)

\* What a call of AddToPhysList guarantees about the list it leaves.
AddPost(list, new, list2, ok) ==
    /\ Solid(list2)
    /\ \A s \in Region :
          s.size > 0 /\ Avoids(list, s) /\ Disjoint(new, s) => Avoids(list2, s)
    /\ \A S : Within(list, S) /\ Bytes(new) \subseteq S => Within(list2, S)
    /\ \A r \in Region : Listing(list, r) => Listing(list2, r)
    /\ ok => Listing(list2, new)

\* A new node at the head of the list keeps the list solid.
LEMMA PushPost ==
    ASSUME NEW list, Solid(list), NEW new \in Region, new.size > 0, new.addr >= MB,
           Avoids(list, new)
    PROVE  AddPost(list, new, <<new>> \o list, TRUE)
<1> DEFINE l2 == <<new>> \o list
<1>1. /\ list \in Seq(Region)
      /\ l2 \in Seq(Region)
      /\ Len(l2) = Len(list) + 1
      /\ l2[1] = new
      /\ \A i \in 2 .. Len(list) + 1 : l2[i] = list[i - 1]
      /\ \A i \in 1 .. Len(list) : l2[i + 1] = list[i]
  BY DEF Solid
<1>2. DOMAIN l2 = 1 .. Len(list) + 1 /\ DOMAIN list = 1 .. Len(list)
  BY <1>1
<1>3. \A i \in DOMAIN l2 : i = 1 \/ (i - 1 \in DOMAIN list /\ l2[i] = list[i - 1])
  BY <1>1, <1>2
<1> HIDE DEF l2
<1>4. Solid(l2)
  <2>1. \A i \in DOMAIN l2 : l2[i].size > 0 /\ l2[i].addr >= MB
    BY <1>1, <1>3 DEF Solid
  <2>2. ASSUME NEW i \in DOMAIN l2, NEW j \in DOMAIN l2, i # j
        PROVE  Disjoint(l2[i], l2[j])
    <3>1. CASE i = 1
      <4>1. j - 1 \in DOMAIN list /\ l2[j] = list[j - 1] /\ l2[i] = new
        BY <3>1, <2>2, <1>1, <1>3
      <4> QED BY <4>1 DEF Avoids, Disjoint
    <3>2. CASE j = 1
      <4>1. i - 1 \in DOMAIN list /\ l2[i] = list[i - 1] /\ l2[j] = new
        BY <3>2, <2>2, <1>1, <1>3
      <4> QED BY <4>1 DEF Avoids
    <3>3. CASE i # 1 /\ j # 1
      <4>1. /\ i - 1 \in DOMAIN list /\ l2[i] = list[i - 1]
            /\ j - 1 \in DOMAIN list /\ l2[j] = list[j - 1]
            /\ i - 1 # j - 1
        BY <3>3, <2>2, <1>2, <1>3
      <4> QED BY <4>1 DEF Solid
    <3> QED BY <3>1, <3>2, <3>3
  <2> QED BY <1>1, <2>1, <2>2 DEF Solid
<1>5. \A s \in Region : Avoids(list, s) /\ Disjoint(new, s) => Avoids(l2, s)
  BY <1>1, <1>3 DEF Avoids
<1>6. \A S : Within(list, S) /\ Bytes(new) \subseteq S => Within(l2, S)
  BY <1>1, <1>3 DEF Within
<1>7. \A r \in Region : Listing(list, r) => Listing(l2, r)
  BY <1>1, <1>2 DEF Listing
<1>8. Listing(l2, new)
  <2>1. new.addr \in Nat /\ new.size \in Nat
    BY DEF Region
  <2>2. Inside(new, new)
    BY <2>1 DEF Inside, End
  <2>3. 1 \in DOMAIN l2 /\ l2[1] = new
    BY <1>1, <1>2
  <2> QED BY <2>2, <2>3 DEF Listing
<1> QED BY <1>4, <1>5, <1>6, <1>7, <1>8 DEF AddPost, l2

\* Joining a listed region keeps the list solid.
LEMMA JoinPost ==
    ASSUME NEW list, Solid(list), NEW new \in Region, new.size > 0, new.addr >= MB,
           Avoids(list, new), NEW i \in DOMAIN list, Joins(list[i], new)
    PROVE  AddPost(list, new, [list EXCEPT ![i] = Join(list[i], new)], TRUE)
<1> DEFINE J == Join(list[i], new)
           l2 == [list EXCEPT ![i] = J]
<1>1. list \in Seq(Region) /\ list[i] \in Region /\ list[i].size > 0 /\ list[i].addr >= MB
  BY DEF Solid
<1>2. /\ J \in Region
      /\ \/ /\ End(list[i]) = new.addr
            /\ J = [addr |-> list[i].addr, size |-> list[i].size + new.size]
         \/ /\ End(new) = list[i].addr
            /\ J = [addr |-> new.addr, size |-> list[i].size + new.size]
  BY <1>1, JoinIsUnion DEF Avoids
<1>a. /\ list[i].addr \in Nat /\ list[i].size \in Nat
      /\ new.addr \in Nat /\ new.size \in Nat
      /\ J.addr \in Nat /\ J.size \in Nat
  BY <1>1, <1>2 DEF Region
<1>b. /\ J.size = list[i].size + new.size
      /\ \/ list[i].addr + list[i].size = new.addr /\ J.addr = list[i].addr
         \/ new.addr + new.size = list[i].addr /\ J.addr = new.addr
  BY <1>2 DEF End
<1>3. /\ l2 \in Seq(Region)
      /\ DOMAIN l2 = DOMAIN list
      /\ l2[i] = J
      /\ \A k \in DOMAIN list : k # i => l2[k] = list[k]
      /\ \A k \in DOMAIN list : list[k] \in Region
  BY <1>1, <1>2
<1>4. J.size > 0 /\ J.addr >= MB
  BY <1>1, <1>2 DEF Region
<1>5. \A s \in Region : s.size > 0 /\ Disjoint(list[i], s) /\ Disjoint(new, s) => Disjoint(J, s)
  <2> SUFFICES ASSUME NEW s \in Region, s.size > 0, Disjoint(list[i], s), Disjoint(new, s)
               PROVE  Disjoint(J, s)
    OBVIOUS
  <2>1. s.addr \in Nat /\ s.size \in Nat
    BY DEF Region
  <2>2. list[i].size > 0 /\ new.size > 0
    BY <1>1
  <2> HIDE DEF J
  <2>3. CASE list[i].addr + list[i].size = new.addr /\ J.addr = list[i].addr
    BY <1>a, <1>b, <2>1, <2>2, <2>3 DEF End, Disjoint
  <2>4. CASE new.addr + new.size = list[i].addr /\ J.addr = new.addr
    BY <1>a, <1>b, <2>1, <2>2, <2>4 DEF End, Disjoint
  <2> QED BY <1>b, <2>3, <2>4
<1>6. Inside(list[i], J) /\ Inside(new, J)
  <2> HIDE DEF J
  <2> QED BY <1>a, <1>b DEF End, Inside
<1>7. \A S : Bytes(list[i]) \subseteq S /\ Bytes(new) \subseteq S => Bytes(J) \subseteq S
  <2>1. \A x \in Bytes(J) : x \in Bytes(list[i]) \/ x \in Bytes(new)
    <3> HIDE DEF J
    <3> QED BY <1>a, <1>b DEF End, Bytes
  <2> QED BY <2>1
<1> HIDE DEF J, l2
<1>8. Solid(l2)
  <2>1. \A k \in DOMAIN l2 : l2[k].size > 0 /\ l2[k].addr >= MB
    BY <1>3, <1>4 DEF Solid
  <2>2. ASSUME NEW k \in DOMAIN list, k # i  PROVE Disjoint(J, list[k]) /\ Disjoint(list[k], J)
    <3>1. Disjoint(list[i], list[k]) /\ Disjoint(new, list[k]) /\ list[k].size > 0
      BY <2>2, <1>3 DEF Solid, Avoids, Disjoint
    <3> QED BY <3>1, <1>3, <1>5 DEF Disjoint
  <2>3. ASSUME NEW k \in DOMAIN l2, NEW m \in DOMAIN l2, k # m
        PROVE  Disjoint(l2[k], l2[m])
    BY <2>2, <2>3, <1>3 DEF Solid
  <2> QED BY <1>3, <2>1, <2>3 DEF Solid
<1>9. \A s \in Region :
         s.size > 0 /\ Avoids(list, s) /\ Disjoint(new, s) => Avoids(l2, s)
  BY <1>3, <1>5 DEF Avoids
<1>10. \A S : Within(list, S) /\ Bytes(new) \subseteq S => Within(l2, S)
  BY <1>3, <1>7 DEF Within
<1>11. \A r \in Region : Listing(list, r) => Listing(l2, r)
  <2> SUFFICES ASSUME NEW r \in Region, NEW k \in DOMAIN list, Inside(r, list[k])
               PROVE  Listing(l2, r)
    BY DEF Listing
  <2>1. Inside(r, l2[k])
    <3>1. CASE k = i
      <4>1. r.addr \in Nat /\ r.size \in Nat
        BY DEF Region
      <4>2. l2[k] = J /\ Inside(r, list[i]) /\ Inside(list[i], J)
        BY <3>1, <1>3, <1>6
      <4> HIDE DEF J
      <4>3. Inside(r, J)
        BY <4>1, <4>2, <1>a DEF Inside, End
      <4> QED BY <4>2, <4>3
    <3>2. CASE k # i
      BY <3>2, <1>3
    <3> QED BY <3>1, <3>2
  <2> QED BY <2>1, <1>3 DEF Listing
<1>12. Listing(l2, new)
  BY <1>3, <1>6 DEF Listing
<1> QED BY <1>8, <1>9, <1>10, <1>11, <1>12 DEF AddPost, l2, J

\* Adding a nonempty region that is clear of the list keeps the list solid.
LEMMA AddDisjoint ==
    ASSUME NEW list, Solid(list), NEW start \in Nat, NEW length \in Nat \ {0},
           start + length > MB, Avoids(list, Clamp(start, length)),
           NEW list2, NEW ok \in BOOLEAN,
           AddToPhysList(list, start, length, list2, ok)
    PROVE  AddPost(list, Clamp(start, length), list2, ok)
<1> DEFINE new == Clamp(start, length)
<1>1. new \in Region /\ new.size > 0 /\ new.addr >= MB
  BY ClampType
<1>0. ~(start + length <= MB)
  BY ParamAssumption
<1>2. CASE \E i \in DOMAIN list : /\ FirstJoin(list, new, i)
                                  /\ list2 = [list EXCEPT ![i] = Join(list[i], new)]
                                  /\ ok = TRUE
  <2>1. PICK i \in DOMAIN list : /\ Joins(list[i], new)
                                 /\ list2 = [list EXCEPT ![i] = Join(list[i], new)]
                                 /\ ok = TRUE
    BY <1>2 DEF FirstJoin
  <2> HIDE DEF new
  <2>2. Avoids(list, new)
    BY DEF new
  <2>3. AddPost(list, new, list2, ok)
    BY <1>1, <2>1, <2>2, JoinPost
  <2> QED BY <2>3 DEF new
<1>3. CASE list2 = <<new>> \o list /\ ok = TRUE
  <2> HIDE DEF new
  <2>2. Avoids(list, new)
    BY DEF new
  <2>3. AddPost(list, new, list2, ok)
    BY <1>1, <1>3, <2>2, PushPost
  <2> QED BY <2>3 DEF new
<1>4. CASE list2 = list /\ ok = FALSE
  BY <1>4 DEF AddPost
<1> QED BY <1>0, <1>2, <1>3, <1>4 DEF AddToPhysList

\* Adding again the beginning of a larger region at 1 MB changes nothing.
LEMMA AddRepeated ==
    ASSUME NEW list, Solid(list), NEW length \in Nat \ {0},
           NEW k \in DOMAIN list, list[k].addr = MB, MB + length < End(list[k]),
           NEW list2, NEW ok \in BOOLEAN,
           AddToPhysList(list, MB, length, list2, ok)
    PROVE  list2 = list
<1> DEFINE new == Clamp(MB, length)
<1>0. MB \in Nat /\ ~(MB + length <= MB)
  BY ParamAssumption
<1>1. new.addr = MB /\ new.size = length
  BY <1>0 DEF Clamp, Max2
<1>2. list \in Seq(Region) /\ \A i \in DOMAIN list : list[i].addr \in Nat /\ list[i].size \in Nat
  <2>1. list \in Seq(Region) /\ \A i \in DOMAIN list : list[i] \in Region
    BY DEF Solid
  <2> QED BY <2>1 DEF Region
<1>3. Joins(list[k], new)
  BY <1>0, <1>1, <1>2 DEF Joins, StartInside, End
<1>4. Join(list[k], new) = list[k]
  <2>1. StartInside(list[k], new)
    BY <1>0, <1>1, <1>2 DEF StartInside, End
  <2>2. Max2(list[k].size, End(new) - list[k].addr) = list[k].size
    BY <1>0, <1>1, <1>2 DEF Max2, End
  <2>3. list[k] \in Region
    BY <1>2
  <2>4. [list[k] EXCEPT !.size = list[k].size] = list[k]
    BY <2>3 DEF Region
  <2> QED BY <2>1, <2>2, <2>4 DEF Join
<1>5. ASSUME NEW i \in DOMAIN list, Joins(list[i], new)  PROVE i = k
  <2> SUFFICES ASSUME i # k PROVE FALSE
    OBVIOUS
  <2>1. Disjoint(list[i], list[k]) /\ list[i].size > 0 /\ list[i].addr >= MB
    BY DEF Solid
  <2>2. list[i].addr >= End(list[k])
    BY <2>1, <1>0, <1>2 DEF Disjoint, End
  <2> HIDE DEF new
  <2> QED BY <2>1, <2>2, <1>0, <1>1, <1>2, <1>5 DEF Joins, StartInside, EndInside, Holds, End
<1>6. CASE \E i \in DOMAIN list : /\ FirstJoin(list, new, i)
                                  /\ list2 = [list EXCEPT ![i] = Join(list[i], new)]
  <2>1. list2 = [list EXCEPT ![k] = list[k]]
    BY <1>4, <1>5, <1>6 DEF FirstJoin
  <2> QED BY <2>1, <1>2
<1>7. CASE \A i \in DOMAIN list : ~Joins(list[i], new)
  BY <1>3, <1>7
<1> QED BY <1>0, <1>6, <1>7 DEF AddToPhysList

----------------------------------------------------------------------------
(* Carving an allocation out of a region *)

CarvePost(list, taken, list2) ==
    /\ Solid(list2)
    /\ Avoids(list2, taken)
    /\ \A s \in Region : s.size > 0 /\ Avoids(list, s) => Avoids(list2, s)
    /\ \A S : Within(list, S) => Within(list2, S)

\* Replacing region i of a solid list by a nonempty part of it that is clear of
\* the memory taken from it.
LEMMA ShrinkPost ==
    ASSUME NEW list, Solid(list), NEW i \in DOMAIN list, NEW p \in Region, p.size > 0,
           Inside(p, list[i]), NEW taken \in Region, Inside(taken, list[i]),
           Disjoint(p, taken), taken.size > 0
    PROVE  CarvePost(list, taken, [list EXCEPT ![i] = p])
<1> DEFINE l2 == [list EXCEPT ![i] = p]
<1>1. /\ list \in Seq(Region) /\ list[i] \in Region /\ list[i].addr >= MB
      /\ MB \in Nat
  BY ParamAssumption DEF Solid
<1>2. /\ l2 \in Seq(Region) /\ DOMAIN l2 = DOMAIN list /\ l2[i] = p
      /\ \A k \in DOMAIN list : k # i => l2[k] = list[k]
      /\ \A k \in DOMAIN list : list[k] \in Region
  BY <1>1
<1>3. /\ p.addr \in Nat /\ p.size \in Nat /\ list[i].addr \in Nat /\ list[i].size \in Nat
      /\ taken.addr \in Nat /\ taken.size \in Nat
  BY <1>1 DEF Region
<1> HIDE DEF l2
<1>4. ASSUME NEW s \in Region, Disjoint(list[i], s) PROVE Disjoint(p, s) /\ Disjoint(taken, s)
  <2>1. s.addr \in Nat /\ s.size \in Nat
    BY DEF Region
  <2> QED BY <2>1, <1>3, <1>4 DEF Inside, Disjoint, End
<1>5. \A S : Bytes(list[i]) \subseteq S => Bytes(p) \subseteq S
  <2>1. Bytes(p) \subseteq Bytes(list[i])
    BY <1>3 DEF Bytes, Inside, End
  <2> QED BY <2>1
<1>6. p.addr >= MB
  BY <1>1, <1>3 DEF Inside
<1>7. ASSUME NEW k \in DOMAIN list, k # i
      PROVE  /\ Disjoint(p, list[k]) /\ Disjoint(list[k], p)
             /\ Disjoint(list[k], taken)
  <2>1. Disjoint(list[i], list[k])
    BY <1>7 DEF Solid
  <2> QED BY <2>1, <1>2, <1>4, <1>7 DEF Disjoint
<1>8. Solid(l2)
  <2>1. \A k \in DOMAIN l2 : l2[k].size > 0 /\ l2[k].addr >= MB
    BY <1>2, <1>6 DEF Solid
  <2>2. ASSUME NEW k \in DOMAIN l2, NEW m \in DOMAIN l2, k # m
        PROVE  Disjoint(l2[k], l2[m])
    BY <2>2, <1>2, <1>7 DEF Solid
  <2> QED BY <1>2, <2>1, <2>2 DEF Solid
<1>9. Avoids(l2, taken)
  BY <1>2, <1>7 DEF Avoids
<1>10. \A s \in Region : Avoids(list, s) => Avoids(l2, s)
  BY <1>2, <1>4 DEF Avoids
<1>11. \A S : Within(list, S) => Within(l2, S)
  BY <1>2, <1>5 DEF Within
<1> QED BY <1>8, <1>9, <1>10, <1>11 DEF CarvePost, l2

\* Unlinking a region that is consumed whole.
LEMMA UnlinkPost ==
    ASSUME NEW list, Solid(list), NEW i \in DOMAIN list
    PROVE  CarvePost(list, list[i], Unlink(list, i))
<1> DEFINE l2 == Unlink(list, i)
           old(k) == IF k < i THEN k ELSE k + 1
<1>1. list \in Seq(Region) /\ DOMAIN list = 1 .. Len(list) /\ Len(list) \in Nat
  BY DEF Solid
<1>2. \A k \in 1 .. Len(list) - 1 : old(k) \in DOMAIN list /\ old(k) # i /\ l2[k] = list[old(k)]
  BY <1>1 DEF Unlink
<1>3. l2 \in Seq(Region) /\ DOMAIN l2 = 1 .. Len(list) - 1
  <2>1. \A k \in 1 .. Len(list) - 1 : l2[k] \in Region
    BY <1>1, <1>2
  <2>2. l2 = [k \in 1 .. Len(list) - 1 |-> l2[k]]
    BY DEF Unlink
  <2>3. Len(list) - 1 \in Nat
    BY <1>1
  <2> HIDE DEF l2
  <2> QED BY <2>1, <2>2, <2>3
<1>4. \A k, m \in 1 .. Len(list) - 1 : k # m => old(k) # old(m)
  BY <1>1
<1> HIDE DEF l2, old
<1>5. Solid(l2)
  BY <1>2, <1>3, <1>4 DEF Solid
<1>6. Avoids(l2, list[i])
  BY <1>2, <1>3 DEF Solid, Avoids
<1>7. \A s \in Region : Avoids(list, s) => Avoids(l2, s)
  BY <1>2, <1>3 DEF Avoids
<1>8. \A S : Within(list, S) => Within(l2, S)
  BY <1>2, <1>3 DEF Within
<1> QED BY <1>5, <1>6, <1>7, <1>8 DEF CarvePost, l2

\* Taking memory out of a region of a solid list leaves a solid list that no
\* longer offers what was taken, whether or not a new node can be allocated.
LEMMA CarveLemma ==
    ASSUME NEW list, Solid(list), NEW i \in DOMAIN list,
           NEW start \in Nat, NEW size \in Nat \ {0}, Fits(list[i], start, size),
           NEW list2, Carve(list, i, start, size, list2)
    PROVE  CarvePost(list, [addr |-> start, size |-> size], list2)
<1> DEFINE taken  == [addr |-> start, size |-> size]
           before == start - list[i].addr
           after  == End(list[i]) - (start + size)
           first  == [addr |-> list[i].addr, size |-> before]
           last   == [addr |-> start + size, size |-> after]
           cut    == [list EXCEPT ![i] = first]
<1> SUFFICES CarvePost(list, taken, list2)
  OBVIOUS
<1>1. list[i] \in Region /\ list[i].size > 0 /\ list[i].addr >= MB /\ MB \in Nat
  BY ParamAssumption DEF Solid
<1>2. list[i].addr \in Nat /\ list[i].size \in Nat
  BY <1>1 DEF Region
<1>3. /\ before \in Nat /\ after \in Nat
      /\ list[i].addr <= start
      /\ start + size + after = list[i].addr + list[i].size
      /\ before + list[i].addr = start
  BY <1>2 DEF Fits, End
<1>4. taken \in Region /\ taken.addr = start /\ taken.size = size /\ taken.size > 0 /\ Inside(taken, list[i])
  BY <1>2, <1>3 DEF Region, Inside, End
<1>5. first \in Region /\ first.addr = list[i].addr /\ first.size = before
  BY <1>2, <1>3 DEF Region
<1>6. last \in Region /\ last.addr = start + size /\ last.size = after
  BY <1>2, <1>3 DEF Region
<1>7. cut = [list EXCEPT ![i] = first]
  OBVIOUS
<1> HIDE DEF taken, before, after, first, last, cut
<1>8. ASSUME before # 0 PROVE CarvePost(list, taken, cut) /\ Avoids(cut, last)
  <2>1. Inside(first, list[i]) /\ Disjoint(first, taken) /\ first.size > 0
    BY <1>2, <1>3, <1>4, <1>5, <1>8 DEF Inside, Disjoint, End
  <2>2. CarvePost(list, taken, cut)
    BY <1>4, <1>5, <1>7, <2>1, ShrinkPost
  <2>3. ASSUME after # 0 PROVE Avoids(cut, last)
    <3>1. Inside(last, list[i]) /\ Disjoint(first, last) /\ last.size > 0
      BY <1>2, <1>3, <1>5, <1>6, <2>3 DEF Inside, Disjoint, End
    <3>2. CarvePost(list, last, cut)
      BY <1>5, <1>6, <1>7, <2>1, <3>1, ShrinkPost
    <3> QED BY <3>2 DEF CarvePost
  <2>4. ASSUME after = 0 PROVE Avoids(cut, last)
    <3>1. cut \in Seq(Region) /\ DOMAIN cut = DOMAIN list /\ cut[i] = first
          /\ \A k \in DOMAIN list : k # i => cut[k] = list[k]
      BY <1>7, <1>5 DEF Solid
    <3>2. Disjoint(first, last)
      BY <1>2, <1>3, <1>5, <1>6 DEF Disjoint, End
    <3>3. ASSUME NEW k \in DOMAIN list, k # i PROVE Disjoint(list[k], last)
      <4>1. Disjoint(list[k], list[i]) /\ list[k] \in Region
        BY <3>3 DEF Solid
      <4>2. list[k].addr \in Nat /\ list[k].size \in Nat
        BY <4>1 DEF Region
      <4> QED BY <4>1, <4>2, <1>2, <1>3, <1>6, <2>4 DEF Disjoint, End
    <3> QED BY <3>1, <3>2, <3>3 DEF Avoids
  <2> QED BY <2>2, <2>3, <2>4
<1>9. CASE before # 0 /\ after # 0 /\ \E ok \in BOOLEAN :
              AddToPhysList(cut, start + size, after, list2, ok)
  <2>1. PICK ok \in BOOLEAN : AddToPhysList(cut, start + size, after, list2, ok)
    BY <1>9
  <2>2. Clamp(start + size, after) = last
    <3>1. Max2(start + size, MB) = start + size
      BY <1>1, <1>2, <1>3 DEF Max2
    <3> QED BY <3>1, <1>3 DEF Clamp, last
  <2>3. start + size + after > MB /\ start + size \in Nat /\ after \in Nat \ {0}
    BY <1>1, <1>2, <1>3, <1>9
  <2>4. Solid(cut) /\ Avoids(cut, last)
    BY <1>8, <1>9 DEF CarvePost
  <2>5. AddPost(cut, last, list2, ok)
    BY <2>1, <2>2, <2>3, <2>4, AddDisjoint
  <2>6. Avoids(list2, taken)
    <3>1. Disjoint(last, taken)
      BY <1>3, <1>4, <1>6 DEF Disjoint, End
    <3> QED BY <3>1, <1>4, <1>8, <1>9, <2>5 DEF AddPost, CarvePost
  <2>7. ASSUME NEW s \in Region, s.size > 0, Avoids(list, s) PROVE Avoids(list2, s)
    <3>1. Avoids(cut, s)
      BY <2>7, <1>8, <1>9 DEF CarvePost
    <3>2. Disjoint(last, s)
      <4>1. Disjoint(list[i], s) /\ s.addr \in Nat /\ s.size \in Nat
        BY <2>7 DEF Avoids, Region
      <4> QED BY <4>1, <1>2, <1>3, <1>6 DEF Disjoint, End
    <3> QED BY <2>5, <2>7, <3>1, <3>2 DEF AddPost
  <2>8. ASSUME NEW S, Within(list, S) PROVE Within(list2, S)
    <3>1. Within(cut, S)
      BY <2>8, <1>8, <1>9 DEF CarvePost
    <3>2. Bytes(last) \subseteq Bytes(list[i])
      BY <1>2, <1>3, <1>6 DEF Bytes, End
    <3>3. Bytes(list[i]) \subseteq S
      BY <2>8 DEF Within
    <3> QED BY <3>1, <3>2, <3>3, <2>5 DEF AddPost
  <2> QED BY <2>5, <2>6, <2>7, <2>8 DEF AddPost, CarvePost
<1>10. CASE before # 0 /\ list2 = cut
  BY <1>8, <1>10
<1>11. CASE before = 0 /\ after # 0 /\ list2 = [list EXCEPT ![i] = last]
  <2>1. Inside(last, list[i]) /\ Disjoint(last, taken) /\ last.size > 0
    BY <1>2, <1>3, <1>4, <1>6, <1>11 DEF Inside, Disjoint, End
  <2> QED BY <2>1, <1>4, <1>6, <1>11, ShrinkPost
<1>12. CASE before = 0 /\ after = 0 /\ list2 = Unlink(list, i)
  <2>1. taken = list[i]
    <3>1. start = list[i].addr /\ size = list[i].size
      BY <1>2, <1>3, <1>12
    <3> QED BY <3>1, <1>1 DEF taken, Region
  <2> QED BY <2>1, <1>12, UnlinkPost
<1> QED BY <1>9, <1>10, <1>11, <1>12 DEF Carve, before, after, cut, first, last

----------------------------------------------------------------------------
(* The memory the machine has *)

\* The types of the map entries that PhysInit uses.
LEMMA MapTypes ==
    ASSUME NEW i \in DOMAIN MemoryMap
    PROVE  /\ MemoryMap[i].addr \in Nat
           /\ MemoryMap[i].size \in Nat
           /\ MemoryMap[i].type \in Nat
           /\ i \in Nat \ {0} /\ i <= Len(MemoryMap) /\ Len(MemoryMap) \in Nat
<1> DEFINE E == [addr : Nat, size : Nat, type : Nat]
<1>1. MemoryMap \in Seq(E)
  BY ParamAssumption
<1> HIDE DEF E
<1>2. MemoryMap[i] \in E /\ Len(MemoryMap) \in Nat /\ i \in 1 .. Len(MemoryMap)
  BY <1>1
<1> QED BY <1>2 DEF E

\* What PhysInit adds for a map entry is memory of the machine.
LEMMA ListedInRAM ==
    ASSUME NEW i \in Listed
    PROVE  Bytes(AddedByMap(i)) \subseteq RAM
<1>1. /\ i \in DOMAIN MemoryMap /\ MemoryMap[i].type = 1
      /\ MemoryMap[i].addr \in Nat /\ MemoryMap[i].size \in Nat /\ MB \in Nat
  BY MapTypes, ParamAssumption DEF Listed
<1>2. ASSUME NEW x \in Bytes(AddedByMap(i))
      PROVE  x \in MemoryMap[i].addr .. End(MemoryMap[i]) - 1 /\ x >= MB
  BY <1>1 DEF Bytes, AddedByMap, Clamp, End, Max2
<1> QED BY <1>1, <1>2 DEF RAM

\* MemUpper bytes from 1 MB on are less than MemUpper kilobytes.
LEMMA SimpleInRAM ==
    ASSUME HasSimple
    PROVE  Bytes(Clamp(MB, MemUpper)) \subseteq RAM
<1>1. MB \in Nat /\ MemUpper \in Nat /\ KB \in Nat /\ KB >= 1
  BY ParamAssumption
<1>2. MemUpper * KB >= MemUpper /\ MemUpper * KB \in Nat
  <2>1. MemUpper * KB = MemUpper + MemUpper * (KB - 1)
    BY <1>1
  <2>2. KB - 1 \in Nat /\ MemUpper * (KB - 1) \in Nat
    BY <1>1
  <2> QED BY <1>1, <2>1, <2>2
<1>3. Bytes(Clamp(MB, MemUpper)) = MB .. MB + MemUpper - 1
  BY <1>1 DEF Bytes, Clamp, End, Max2
<1>4. MB .. MB + MemUpper - 1 \subseteq MB .. MB + MemUpper * KB - 1
  BY <1>1, <1>2
<1> QED BY <1>3, <1>4 DEF RAM

----------------------------------------------------------------------------
(* Requests *)

\* A rounded size is at least the size asked for, and zero only for zero.
LEMMA RoundUpFacts ==
    ASSUME NEW n \in Nat
    PROVE  RoundUp(n) \in Nat /\ RoundUp(n) >= n /\ (RoundUp(n) # 0 => n > 0)
BY DEF RoundUp

\* The start address of a request fits a ULONG: the alignment mask clears
\* everything above it.
LEMMA StartIsULong ==
    ASSUME NEW cur \in Region, NEW s \in Starts, NEW al \in Aligns
    PROVE  StartFor(cur, s, al) \in 0 .. Wrap - 1
<1>1. Wrap \in Nat \ {0} /\ s \in 0 .. Wrap - 1 /\ al \in Nat
  BY ParamAssumption
<1>2. ASSUME NEW a \in Nat \ {0} PROVE AlignUp(cur.addr, a) \in 0 .. Wrap - 1
  <2>1. cur.addr \in Nat
    BY DEF Region
  <2>2. (cur.addr + a - 1) \div a \in Int
    BY <2>1
  <2>3. a * ((cur.addr + a - 1) \div a) \in Int
    BY <2>2
  <2> QED BY <1>1, <2>3 DEF AlignUp
<1> QED BY <1>1, <1>2 DEF StartFor

----------------------------------------------------------------------------
(* The invariant *)

\* The empty list satisfies the invariant.
LEMMA InitIInv == Init => IInv
BY ParamAssumption
   DEF Init, IInv, TypeOK, Solid, Within, HeldRegions, InitPhase, Avoids, Listing, Listed

\* One call PhysInit makes for a map entry keeps the invariant.
LEMMA InitMapEntryIInv ==
    ASSUME DisjointMap, IInv, InitMapEntry
    PROVE  IInv'
<1> DEFINE e == MemoryMap[next]
<1>1. /\ phase = "map" /\ next \in DOMAIN MemoryMap /\ live = {} /\ live' = {}
      /\ e.addr \in Nat /\ e.size \in Nat /\ next \in Nat \ {0} /\ MB \in Nat
      /\ Len(MemoryMap) \in Nat
  <2>1. phase = "map" /\ next <= Len(MemoryMap) /\ next \in Nat \ {0} /\ live = {} /\ live' = {}
    BY DEF IInv, TypeOK, InitPhase, InitMapEntry
  <2>2. next \in DOMAIN MemoryMap /\ MB \in Nat
    BY <2>1, ParamAssumption
  <2> QED BY <2>1, <2>2, MapTypes
<1>2. HeldRegions' /\ \A r, s \in live' : r # s => Disjoint(r, s)
  BY <1>1 DEF HeldRegions
<1>3. CASE e.type # 1 \/ e.addr + e.size <= MB
  <2>1. PhysMem' = PhysMem /\ phase' = phase /\ next' = next + 1
    BY <1>1, <1>3 DEF InitMapEntry, AddToPhysList
  <2>2. next \notin Listed
    BY <1>1, <1>3 DEF Listed
  <2>3. \A i \in Listed : (i < next + 1 <=> i < next) /\ (i >= next + 1 <=> i >= next)
    BY <1>1, <2>2, MapTypes DEF Listed
  <2>4. InitPhase'
    BY <1>1, <2>1, <2>3 DEF IInv, InitPhase
  <2>5. TypeOK'
    BY <1>1, <2>1 DEF IInv, TypeOK
  <2> QED BY <2>1, <2>4, <2>5, <1>2 DEF IInv
<1>4. CASE e.type = 1 /\ e.addr + e.size > MB
  <2> DEFINE new == Clamp(e.addr, e.size)
  <2>1. next \in Listed /\ AddedByMap(next) = new
    BY <1>1, <1>4 DEF Listed, AddedByMap
  <2>2. PICK ok \in BOOLEAN :
           /\ AddToPhysList(PhysMem, e.addr, e.size, PhysMem', ok)
           /\ IF ok THEN next' = next + 1 /\ phase' = phase
                    ELSE next' = next /\ phase' = "run"
    BY <1>4 DEF InitMapEntry
  <2>3. e.size \in Nat \ {0}
    BY <1>1, <2>1 DEF DisjointMap
  <2>4. Avoids(PhysMem, new) /\ Solid(PhysMem) /\ Within(PhysMem, RAM)
    BY <1>1, <2>1 DEF IInv, InitPhase
  <2>5. AddPost(PhysMem, new, PhysMem', ok)
    BY <1>1, <1>4, <2>2, <2>3, <2>4, AddDisjoint
  <2>6. Bytes(new) \subseteq RAM
    BY <2>1, ListedInRAM
  <2>7. Solid(PhysMem') /\ Within(PhysMem', RAM)
    BY <2>4, <2>5, <2>6 DEF AddPost
  <2>8. TypeOK'
    BY <1>1, <2>2, <2>7 DEF IInv, TypeOK, Solid
  <2>9. ASSUME NEW i \in Listed
        PROVE  AddedByMap(i) \in Region /\ AddedByMap(i).size > 0
    <3>1. /\ MemoryMap[i].addr \in Nat /\ MemoryMap[i].size \in Nat \ {0}
          /\ MemoryMap[i].addr + MemoryMap[i].size > MB
      BY <2>9, MapTypes DEF Listed, DisjointMap
    <3> QED BY <3>1, ClampType DEF AddedByMap
  <2>10. CASE ok
    <3>1. next' = next + 1 /\ phase' = "map"
      BY <1>1, <2>2, <2>10
    <3>2. ASSUME NEW i \in Listed, i < next + 1 PROVE Listing(PhysMem', AddedByMap(i))
      <4>1. CASE i = next
        BY <4>1, <2>1, <2>5, <2>10 DEF AddPost
      <4>2. CASE i < next
        BY <4>2, <2>5, <2>9, <1>1 DEF AddPost, IInv, InitPhase
      <4> QED BY <3>2, <4>1, <4>2, <1>1, MapTypes DEF Listed
    <3>3. ASSUME NEW i \in Listed, i >= next + 1 PROVE Avoids(PhysMem', AddedByMap(i))
      <4>1. i # next /\ i >= next
        BY <3>3, <1>1, MapTypes DEF Listed
      <4>2. Avoids(PhysMem, AddedByMap(i)) /\ Disjoint(new, AddedByMap(i))
        BY <4>1, <1>1, <2>1 DEF IInv, InitPhase, DisjointMap
      <4> QED BY <4>2, <2>5, <2>9 DEF AddPost
    <3>4. InitPhase'
      BY <1>1, <2>1, <3>1, <3>2, <3>3 DEF InitPhase
    <3> QED BY <1>2, <2>7, <2>8, <3>4 DEF IInv
  <2>11. CASE ~ok
    <3>1. InitPhase'
      BY <2>2, <2>11 DEF InitPhase
    <3> QED BY <1>2, <2>7, <2>8, <3>1 DEF IInv
  <2> QED BY <2>10, <2>11
<1> QED BY <1>1, <1>3, <1>4

\* Adding the simple memory size keeps the invariant.
LEMMA InitSimpleIInv ==
    ASSUME DisjointMap, IInv, InitSimple
    PROVE  IInv'
<1>1. /\ phase = "simple" /\ live = {} /\ live' = {} /\ phase' = "run" /\ next' = next
      /\ HasSimple /\ next > Len(MemoryMap) /\ next \in Nat
      /\ Solid(PhysMem) /\ Within(PhysMem, RAM)
  BY DEF IInv, TypeOK, InitPhase, InitSimple
<1>2. PICK ok \in BOOLEAN : AddToPhysList(PhysMem, MB, MemUpper, PhysMem', ok)
  BY DEF InitSimple
<1>3. MB \in Nat /\ MemUpper \in Nat
  BY ParamAssumption
<1>4. Solid(PhysMem') /\ Within(PhysMem', RAM)
  <2>1. CASE MemUpper = 0
    BY <2>1, <1>1, <1>2, <1>3 DEF AddToPhysList
  <2>2. CASE MemUpper # 0 /\ Listed = {}
    <3>1. PhysMem = << >> /\ Avoids(PhysMem, Clamp(MB, MemUpper))
      BY <2>2, <1>1 DEF IInv, InitPhase, Avoids
    <3>2. AddPost(PhysMem, Clamp(MB, MemUpper), PhysMem', ok)
      BY <3>1, <2>2, <1>1, <1>2, <1>3, AddDisjoint
    <3> QED BY <3>2, <1>1, SimpleInRAM DEF AddPost
  <2>3. CASE MemUpper # 0 /\ Listed # {}
    <3>1. PICK i \in Listed : AddedByMap(i).addr = MB /\ MemUpper < AddedByMap(i).size
      BY <2>3, <1>1 DEF DisjointMap
    <3>2. i < next /\ AddedByMap(i).size \in Nat
      BY <1>1, MapTypes, ClampType DEF Listed, AddedByMap, DisjointMap, Region
    <3>3. PICK k \in DOMAIN PhysMem : Inside(AddedByMap(i), PhysMem[k])
      BY <1>1, <3>2 DEF IInv, InitPhase, Listing
    <3>4. PhysMem[k].addr \in Nat /\ PhysMem[k].size \in Nat /\ PhysMem[k].addr >= MB
      <4>1. PhysMem[k] \in Region /\ PhysMem[k].addr >= MB
        BY <1>1 DEF Solid
      <4> QED BY <4>1 DEF Region
    <3>5. PhysMem[k].addr = MB /\ MB + MemUpper < End(PhysMem[k])
      BY <1>3, <3>1, <3>2, <3>3, <3>4 DEF Inside, End
    <3>6. PhysMem' = PhysMem
      BY <1>1, <1>2, <1>3, <2>3, <3>5, AddRepeated
    <3> QED BY <1>1, <3>6
  <2> QED BY <2>1, <2>2, <2>3
<1>5. TypeOK' /\ InitPhase'
  BY <1>1, <1>4 DEF IInv, TypeOK, InitPhase, Solid
<1> QED BY <1>1, <1>4, <1>5 DEF IInv, HeldRegions

\* PhysAlloc keeps the invariant.
LEMMA PhysAllocIInv ==
    ASSUME IInv, NEW s \in Starts, NEW n \in Sizes, NEW al \in Aligns, PhysAlloc(s, n, al)
    PROVE  IInv'
<1> DEFINE size == RoundUp(n)
<1>1. /\ phase = "run" /\ phase' = "run" /\ next' = next
      /\ Solid(PhysMem) /\ Within(PhysMem, RAM)
  BY DEF IInv, PhysAlloc
<1>2. PICK i \in DOMAIN PhysMem :
         /\ Fits(PhysMem[i], StartFor(PhysMem[i], s, al), size)
         /\ Carve(PhysMem, i, StartFor(PhysMem[i], s, al), size, PhysMem')
         /\ live' = IF StartFor(PhysMem[i], s, al) % Wrap = 0 THEN live
                    ELSE live \cup {[addr |-> StartFor(PhysMem[i], s, al) % Wrap, size |-> n]}
  BY DEF PhysAlloc, FirstFit
<1> DEFINE start == StartFor(PhysMem[i], s, al)
           taken == [addr |-> start, size |-> size]
           held  == [addr |-> start, size |-> n]
<1>3. PhysMem[i] \in Region
  BY <1>1 DEF Solid
<1>4. start \in 0 .. Wrap - 1 /\ Wrap \in Nat \ {0}
  BY <1>3, StartIsULong, ParamAssumption
<1>5. n \in Nat /\ size \in Nat \ {0} /\ size >= n /\ n > 0
  <2>1. n \in Nat /\ RoundUp(n) # 0
    BY ParamAssumption DEF PhysAlloc
  <2> QED BY <2>1, RoundUpFacts
<1>6. start % Wrap = start
  BY <1>4
<1> HIDE DEF start, size
<1>7. CarvePost(PhysMem, taken, PhysMem')
  <2>1. start \in Nat
    BY <1>4
  <2> QED BY <2>1, <1>1, <1>2, <1>5, CarveLemma DEF start, size
<1>8. Solid(PhysMem') /\ Within(PhysMem', RAM)
  BY <1>1, <1>7 DEF CarvePost
<1>9. live' \subseteq live \cup {held}
  BY <1>2, <1>6 DEF start
<1>10. /\ held \in Region /\ held.addr = start /\ held.size = n /\ held.size > 0
       /\ held \in [addr : 0 .. Wrap - 1, size : Nat]
       /\ taken \in Region /\ taken.addr = start /\ taken.size = size
       /\ start \in Nat
  BY <1>4, <1>5 DEF Region
<1>11. Avoids(PhysMem', held)
  <2> SUFFICES ASSUME NEW k \in DOMAIN PhysMem' PROVE Disjoint(PhysMem'[k], held)
    BY DEF Avoids
  <2>1. PhysMem'[k] \in Region /\ PhysMem'[k].size > 0 /\ Disjoint(PhysMem'[k], taken)
    BY <1>7 DEF CarvePost, Solid, Avoids
  <2>2. PhysMem'[k].addr \in Nat /\ PhysMem'[k].size \in Nat
    BY <2>1 DEF Region
  <2> HIDE DEF taken, held
  <2> QED BY <2>1, <2>2, <1>5, <1>10 DEF Disjoint, End
<1>12. Inside(held, PhysMem[i]) /\ Bytes(held) \subseteq Bytes(PhysMem[i])
  <2>1. PhysMem[i].addr \in Nat /\ PhysMem[i].size \in Nat
    BY <1>3 DEF Region
  <2>2. PhysMem[i].addr <= start /\ start + size <= PhysMem[i].addr + PhysMem[i].size
    BY <1>2 DEF Fits, End, start
  <2> HIDE DEF held
  <2> QED BY <2>1, <2>2, <1>5, <1>10 DEF Inside, Bytes, End
<1>13. Bytes(held) \subseteq RAM
  BY <1>1, <1>12 DEF Within
<1>14. ASSUME NEW r \in live
       PROVE  /\ r \in Region /\ r.size > 0 /\ Avoids(PhysMem', r) /\ Bytes(r) \subseteq RAM
              /\ Disjoint(r, held) /\ Disjoint(held, r)
  <2>1. r \in Region /\ r.size > 0 /\ Avoids(PhysMem, r) /\ Bytes(r) \subseteq RAM
    BY <1>14 DEF IInv, TypeOK, HeldRegions, Region
  <2>2. Avoids(PhysMem', r)
    BY <1>7, <2>1 DEF CarvePost
  <2>3. Disjoint(PhysMem[i], r)
    BY <2>1 DEF Avoids
  <2>4. r.addr \in Nat /\ r.size \in Nat /\ PhysMem[i].addr \in Nat /\ PhysMem[i].size \in Nat
    BY <2>1, <1>3 DEF Region
  <2> HIDE DEF held
  <2>5. Disjoint(r, held) /\ Disjoint(held, r)
    BY <2>3, <2>4, <1>10, <1>12 DEF Disjoint, Inside, End
  <2> QED BY <2>1, <2>2, <2>5
<1> HIDE DEF held
<1>15. HeldRegions'
  BY <1>9, <1>10, <1>11, <1>13, <1>14 DEF HeldRegions
<1>16. ASSUME NEW r \in live', NEW t \in live', r # t PROVE Disjoint(r, t)
  BY <1>9, <1>14, <1>16 DEF IInv
<1>17. TypeOK'
  BY <1>1, <1>8, <1>9, <1>10 DEF IInv, TypeOK, Solid
<1> QED BY <1>1, <1>8, <1>15, <1>16, <1>17 DEF IInv, InitPhase

\* PhysFree keeps the invariant.
LEMMA PhysFreeIInv ==
    ASSUME IInv, NEW r \in live, PhysFree(r)
    PROVE  IInv'
<1>1. PICK ok \in BOOLEAN : AddToPhysList(PhysMem, r.addr, r.size, PhysMem', ok)
  BY DEF PhysFree
<1>2. /\ live' = live \ {r} /\ phase' = phase /\ next' = next
      /\ Solid(PhysMem) /\ Within(PhysMem, RAM)
  BY DEF IInv, PhysFree
<1>3. /\ r \in Region /\ r.addr \in Nat /\ r.size \in Nat \ {0}
      /\ Avoids(PhysMem, r) /\ Bytes(r) \subseteq RAM
  BY DEF IInv, TypeOK, HeldRegions, Region
<1>4. r.addr >= MB /\ MB \in Nat
  <2>1. r.addr \in RAM
    BY <1>3 DEF Bytes, End
  <2> QED BY <2>1, ParamAssumption DEF RAM
<1>5. Clamp(r.addr, r.size) = r
  <2>1. Max2(r.addr, MB) = r.addr
    BY <1>3, <1>4 DEF Max2
  <2>2. r = [addr |-> r.addr, size |-> r.size]
    BY <1>3 DEF Region
  <2> QED BY <2>1, <2>2, <1>3 DEF Clamp
<1>6. AddPost(PhysMem, r, PhysMem', ok)
  <2>1. r.addr + r.size > MB
    BY <1>3, <1>4
  <2> QED BY <2>1, <1>1, <1>2, <1>3, <1>5, AddDisjoint
<1>7. Solid(PhysMem') /\ Within(PhysMem', RAM)
  BY <1>2, <1>3, <1>6 DEF AddPost
<1>8. ASSUME NEW t \in live' PROVE t.size > 0 /\ Avoids(PhysMem', t) /\ Bytes(t) \subseteq RAM
  <2>1. t \in live /\ t # r
    BY <1>2, <1>8
  <2>2. /\ t \in Region /\ t.size > 0 /\ Avoids(PhysMem, t) /\ Bytes(t) \subseteq RAM
        /\ Disjoint(r, t)
    BY <2>1 DEF IInv, TypeOK, HeldRegions, Region
  <2> QED BY <2>2, <1>6 DEF AddPost
<1>9. HeldRegions'
  BY <1>8 DEF HeldRegions
<1>10. phase = "run"
  BY DEF IInv, InitPhase
<1>11. TypeOK' /\ InitPhase'
  BY <1>2, <1>7, <1>10 DEF IInv, TypeOK, InitPhase, Solid
<1> QED BY <1>2, <1>7, <1>9, <1>11 DEF IInv

\* Every step keeps the invariant.
LEMMA NextIInv ==
    ASSUME DisjointMap, IInv, [Next]_vars
    PROVE  IInv'
<1>1. CASE InitMapEntry
  BY <1>1, InitMapEntryIInv
<1>2. CASE InitMapDone
  <2>1. /\ phase = "map" /\ next > Len(MemoryMap) /\ PhysMem' = PhysMem
        /\ next' = next /\ live' = live
        /\ phase' = IF HasSimple THEN "simple" ELSE "run"
    BY <1>2 DEF InitMapDone
  <2>2. TypeOK' /\ InitPhase'
    BY <2>1 DEF IInv, TypeOK, InitPhase
  <2> QED BY <2>1, <2>2 DEF IInv, HeldRegions
<1>3. CASE InitSimple
  BY <1>3, InitSimpleIInv
<1>4. CASE \E s \in Starts, n \in Sizes, a \in Aligns : PhysAlloc(s, n, a)
  BY <1>4, PhysAllocIInv
<1>5. CASE \E r \in live : PhysFree(r)
  BY <1>5, PhysFreeIInv
<1>6. CASE UNCHANGED vars
  BY <1>6 DEF vars, IInv, TypeOK, HeldRegions, InitPhase
<1> QED BY <1>1, <1>2, <1>3, <1>4, <1>5, <1>6 DEF Next

\* For every BIOS memory map that reports each byte once, whatever is allocated
\* and freed and whenever malloc fails, the invariant holds in every state.
LEMMA AlwaysIInv ==
    ASSUME DisjointMap
    PROVE  Spec => []IInv
<1>1. IInv /\ [Next]_vars => IInv'
  BY NextIInv
<1> QED BY InitIInv, <1>1, PTL DEF Spec

\* For every such map PhysMem stays a list of regions, and what callers hold is
\* addressed by ULONGs although the list is not (mem.c).
THEOREM TypeOKHolds == DisjointMap => (Spec => []TypeOK)
<1> SUFFICES ASSUME DisjointMap PROVE Spec => []TypeOK
  OBVIOUS
<1>1. IInv => TypeOK
  BY DEF IInv
<1>2. Spec => []IInv
  BY AlwaysIInv
<1> QED BY <1>1, <1>2, PTL

\* The free list never offers a byte twice, however regions are split, joined
\* and given back (mem.c, AddToPhysList and PhysAlloc).
THEOREM FreeListDisjointHolds == DisjointMap => (Spec => []FreeListDisjoint)
<1> SUFFICES ASSUME DisjointMap PROVE Spec => []FreeListDisjoint
  OBVIOUS
<1>1. IInv => FreeListDisjoint
  BY DEF IInv, Solid, FreeListDisjoint, Disjoint
<1>2. Spec => []IInv
  BY AlwaysIInv
<1> QED BY <1>1, <1>2, PTL

\* No caller's memory is free or held by another caller (mem.c).
THEOREM NoDoubleAllocationHolds == DisjointMap => (Spec => []NoDoubleAllocation)
<1> SUFFICES ASSUME DisjointMap PROVE Spec => []NoDoubleAllocation
  OBVIOUS
<1>1. IInv => NoDoubleAllocation
  BY DEF IInv, NoDoubleAllocation, HeldRegions, Avoids, Disjoint
<1>2. Spec => []IInv
  BY AlwaysIInv
<1> QED BY <1>1, <1>2, PTL

\* Every pointer PhysAlloc returns, truncated to 32 bits as it is, designates
\* memory the machine has at or above 1 MB.
THEOREM OnlyUsableMemoryHolds == DisjointMap => (Spec => []OnlyUsableMemory)
<1> SUFFICES ASSUME DisjointMap PROVE Spec => []OnlyUsableMemory
  OBVIOUS
<1>1. IInv => OnlyUsableMemory
  BY DEF IInv, OnlyUsableMemory, HeldRegions
<1>2. Spec => []IInv
  BY AlwaysIInv
<1> QED BY <1>1, <1>2, PTL

----------------------------------------------------------------------------
(* What main knows about memory *)

\* The variables keep their types; the machine is the one that was started.
MemType ==
    /\ machine \in Machines
    /\ ebx \in Int
    /\ mbi \in [Flags : SUBSET {"simple", "map"}, MemLower : {0, machine.lower}, MemUpper : Nat,
                map : Seq(Entries), length : Nat]

\* A size that is reported is that of the machine, up to 64 kB.
SizeIsTrue ==
    /\ "simple" \in mbi.Flags => mbi.MemUpper <= machine.upper
    /\ "simple" \in mbi.Flags /\ machine.e801 # NoE801 => machine.upper - mbi.MemUpper < 64

\* While there is more to come the map holds the entries that were given so far; a
\* BIOS that never ends makes it longer than its own.
Growing ==
    /\ "map" \in mbi.Flags
    /\ Len(mbi.map) = ebx
    /\ ebx <= Len(machine.map) => \A i \in 1 .. ebx : mbi.map[i] = machine.map[i]

\* Then it is complete, or given up.
MapComplete ==
    IF "map" \in mbi.Flags THEN mbi.map = machine.map ELSE mbi.map = << >>

Progress ==
    CASE pc = "main" -> mbi = NoInfo
      [] pc \in {"heap", "begin"} -> "map" \notin mbi.Flags /\ mbi.length = 0
      [] pc = "map" -> mbi.length = 0 /\ (IF ebx = -1 THEN MapComplete ELSE ebx >= 0 /\ Growing)
      [] OTHER -> MapComplete /\ mbi.length = SizeOfEntry * Len(mbi.map)
                  /\ ("map" \notin mbi.Flags => mbi.length = 0)

MainInv == MemType /\ SizeIsTrue /\ Progress

\* What MachineAssumption says of the machine that was started.
LEMMA MachineIs ==
    ASSUME machine \in Machines
    PROVE  /\ machine.upper \in Nat
           /\ machine.int88 \in {Fail, IF machine.upper < Kilobytes15M
                                       THEN machine.upper ELSE Kilobytes15M}
           /\ \/ machine.e801 = NoE801
              \/ /\ machine.e801.ax \in 0 .. Kilobytes15M /\ machine.e801.bx \in Nat
                 /\ machine.e801.ax + 64 * machine.e801.bx = (machine.upper \div 64) * 64
                 /\ machine.e801.bx > 0 => machine.e801.ax = Kilobytes15M
           /\ machine.map \in Seq(Entries)
           /\ machine.end \in {"ebx", "carry", "never"}
           /\ machine.end = "never" => machine.map # << >>
BY MachineAssumption

\* The steps that leave alone what is known about memory.
LEMMA Untouched ==
    ASSUME MainInv, UNCHANGED memVars, pc \notin {"main", "heap", "begin", "map"},
           pc' \notin {"main", "heap", "begin", "map"}
    PROVE  MainInv'
BY DEF MainInv, MemType, SizeIsTrue, Progress, MapComplete, memVars

\* What the second call says is either the whole truth or, if the machine has less
\* than 16 MB, of no use.
LEMMA SecondCall ==
    ASSUME machine \in Machines, machine.e801 # NoE801
    PROVE  /\ machine.e801.ax = 15360 =>
                 /\ machine.e801.bx * 64 + 15360 \in Nat
                 /\ machine.e801.bx * 64 + 15360 <= machine.upper
                 /\ machine.upper - (machine.e801.bx * 64 + 15360) < 64
           /\ machine.upper >= 15360 => machine.e801.ax = 15360
<1> DEFINE up == machine.upper
           ax == machine.e801.ax
           bx == machine.e801.bx
<1>0. Kilobytes15M = 15360
  BY DEF Kilobytes15M
<1>1. /\ up \in Nat
      /\ ax \in 0 .. Kilobytes15M /\ bx \in Nat
      /\ ax + 64 * bx = (up \div 64) * 64
      /\ bx > 0 => ax = Kilobytes15M
  BY MachineIs, Zenon
<1> HIDE DEF up, ax, bx
<1> DEFINE q == up \div 64
<1>q. q \in Nat /\ q * 64 <= up /\ up < q * 64 + 64 /\ ax + 64 * bx = q * 64
  BY <1>1
<1> HIDE DEF q
<1>2. /\ ax + 64 * bx <= up /\ up - (ax + 64 * bx) < 64
      /\ up >= 15360 => ax + 64 * bx >= 15360
  <2>1. up >= 15360 => q * 64 >= 15360
    BY <1>1, <1>q
  <2> DEFINE sum == ax + 64 * bx
  <2>2. sum = q * 64 /\ q * 64 \in Int
    BY <1>q
  <2> HIDE DEF sum
  <2>3. sum <= up /\ up - sum < 64 /\ (up >= 15360 => sum >= 15360)
    BY <1>1, <1>q, <2>1, <2>2
  <2> QED BY <2>3 DEF sum
<1>3. /\ ax = 15360 => /\ bx * 64 + 15360 \in Nat /\ bx * 64 + 15360 <= up
                       /\ up - (bx * 64 + 15360) < 64
      /\ up >= 15360 => ax = 15360
  <2>1. ASSUME ax = 15360
        PROVE  bx * 64 + 15360 \in Nat /\ bx * 64 + 15360 = ax + 64 * bx
    BY <1>0, <1>1, <2>1
  <2>2. ASSUME up >= 15360 PROVE ax = 15360
    <3>1. CASE bx > 0
      BY <1>0, <1>1, <3>1
    <3>2. CASE bx = 0
      <4>1. ax + 64 * bx = ax /\ ax <= 15360 /\ ax \in Int
        BY <1>0, <1>1, <3>2
      <4> QED BY <1>2, <2>2, <4>1
    <3> QED BY <1>1, <3>1, <3>2
  <2> QED BY <1>2, <2>1, <2>2
<1> QED BY <1>3 DEF up, ax, bx

\* The two BIOS calls for the size: the second is made where the first may have
\* reached its limit, and what is found in neither is not reported.
LEMMA GetMemoryIInv ==
    ASSUME MainInv, GetMemory
    PROVE  MainInv'
<1> DEFINE Info(f, u) == [Flags |-> f, MemLower |-> machine.lower, MemUpper |-> u,
                          map |-> << >>, length |-> 0]
           Right(f, u) == /\ f \in SUBSET {"simple", "map"} /\ "map" \notin f
                          /\ u \in Nat
                          /\ "simple" \in f => u <= machine.upper
                          /\ "simple" \in f /\ machine.e801 # NoE801 => machine.upper - u < 64
           second == machine.e801.bx * 64 + 15360
<1>1. /\ machine \in Machines /\ ebx \in Int /\ mbi = NoInfo
      /\ machine' = machine /\ ebx' = ebx /\ pc' = "heap"
  BY DEF MainInv, MemType, Progress, GetMemory, Goes, GetConventionalMemoryMap
<1>2. machine.upper \in Nat
  BY <1>1, MachineIs
<1>3. mbi' = IF After88.MemUpper = 15360 \/ machine.int88 = Fail
             THEN AfterE801(After88) ELSE After88
  BY DEF GetMemory, GetConventionalMemoryMap, Kilobytes15M
<1>4. ASSUME NEW f, NEW u
      PROVE  AfterE801(Info(f, u)) = IF machine.e801.ax # 15360 THEN Info(f, u)
                                     ELSE Info(f \cup {"simple"}, second)
  <2> HIDE DEF second
  <2>1. ASSUME NEW g
        PROVE  [Info(f, u) EXCEPT !.MemUpper = second, !.Flags = g] = Info(g, second)
    <3>1. [Info(f, u) EXCEPT !.MemUpper = second] = Info(f, second)
      OBVIOUS
    <3>2. [Info(f, second) EXCEPT !.Flags = g] = Info(g, second)
      OBVIOUS
    <3> HIDE DEF Info
    <3>3. [Info(f, u) EXCEPT !.MemUpper = second, !.Flags = g]
            = [[Info(f, u) EXCEPT !.MemUpper = second] EXCEPT !.Flags = g]
      OBVIOUS
    <3> QED BY <3>1, <3>2, <3>3
  <2>2. Info(f, u).Flags = f
    OBVIOUS
  <2>3. Kilobytes15M = 15360
    BY DEF Kilobytes15M
  <2>4. CASE machine.e801.ax = Kilobytes15M
    <3> HIDE DEF Info
    <3>1. AfterE801(Info(f, u)) =
            [Info(f, u) EXCEPT !.MemUpper = second, !.Flags = Info(f, u).Flags \cup {"simple"}]
      BY <2>3, <2>4 DEF AfterE801, second
    <3>2. [Info(f, u) EXCEPT !.MemUpper = second, !.Flags = f \cup {"simple"}]
            = Info(f \cup {"simple"}, second)
      BY <2>1
    <3> QED BY <2>2, <2>3, <2>4, <3>1, <3>2
  <2>5. CASE machine.e801.ax # Kilobytes15M
    BY <2>5 DEF AfterE801, Kilobytes15M
  <2> QED BY <2>4, <2>5
<1>5. PICK f, u : mbi' = Info(f, u) /\ Right(f, u)
  <2> HIDE DEF Info
  <2>1. CASE machine.int88 = Fail
    <3>1. After88 = Info({}, 0)
      BY <1>1, <2>1 DEF After88, NoInfo, Info
    <3>2. CASE machine.e801.ax # 15360
      <4>1. mbi' = Info({}, 0) /\ Right({}, 0)
        BY <1>3, <1>4, <2>1, <3>1, <3>2
      <4> QED BY <4>1
    <3>3. CASE machine.e801.ax = 15360
      <4>1. machine.e801 # NoE801
        BY <3>3 DEF NoE801, Fail
      <4>2. second \in Nat /\ second <= machine.upper /\ machine.upper - second < 64
        BY <1>1, <3>3, <4>1, SecondCall
      <4>3. mbi' = Info({} \cup {"simple"}, second)
        BY <1>3, <1>4, <2>1, <3>1, <3>3
      <4> HIDE DEF second
      <4>4. Right({} \cup {"simple"}, second)
        BY <4>2
      <4> QED BY <4>3, <4>4
    <3> QED BY <3>2, <3>3
  <2>2. CASE machine.int88 # Fail
    <3>1. After88 = Info({"simple"}, machine.int88)
      BY <1>1, <2>2 DEF After88, NoInfo, Info
    <3>2. machine.int88 = IF machine.upper < 15360 THEN machine.upper ELSE 15360
      <4>1. machine.int88 \in {Fail, IF machine.upper < Kilobytes15M
                                     THEN machine.upper ELSE Kilobytes15M}
        BY <1>1, MachineIs, Zenon
      <4> QED BY <2>2, <4>1 DEF Kilobytes15M
    <3>3. After88.MemUpper = machine.int88
      BY <3>1 DEF Info
    <3>4. CASE machine.upper < 15360
      <4>1. machine.int88 = machine.upper /\ machine.upper # 15360
        BY <1>2, <3>2, <3>4
      <4>2. mbi' = Info({"simple"}, machine.upper)
        BY <1>3, <2>2, <3>1, <3>3, <4>1
      <4>3. Right({"simple"}, machine.upper)
        BY <1>2
      <4> QED BY <4>2, <4>3
    <3>5. CASE machine.upper >= 15360 /\ machine.e801 = NoE801
      <4>1. machine.int88 = 15360
        BY <1>2, <3>2, <3>5
      <4>2. machine.e801.ax # 15360
        BY <3>5 DEF NoE801, Fail
      <4>3. mbi' = Info({"simple"}, 15360)
        BY <1>3, <1>4, <2>2, <3>1, <3>3, <4>1, <4>2
      <4>4. Right({"simple"}, 15360)
        BY <1>2, <3>5
      <4> QED BY <4>3, <4>4
    <3>6. CASE machine.upper >= 15360 /\ machine.e801 # NoE801
      <4>1. machine.int88 = 15360
        BY <1>2, <3>2, <3>6
      <4>2. /\ machine.e801.ax = 15360
            /\ second \in Nat /\ second <= machine.upper /\ machine.upper - second < 64
        BY <1>1, <3>6, SecondCall
      <4>3. mbi' = Info({"simple"} \cup {"simple"}, second)
        BY <1>3, <1>4, <2>2, <3>1, <3>3, <4>1, <4>2
      <4> HIDE DEF second
      <4>4. Right({"simple"} \cup {"simple"}, second)
        BY <4>2
      <4> QED BY <4>3, <4>4
    <3> QED BY <1>2, <3>4, <3>5, <3>6
  <2> QED BY <2>1, <2>2
<1>6. << >> \in Seq(Entries)
  OBVIOUS
<1>7. MemType'
  BY <1>1, <1>5, <1>6 DEF MemType
<1>8. SizeIsTrue'
  BY <1>1, <1>5 DEF SizeIsTrue
<1>9. Progress'
  BY <1>1, <1>5 DEF Progress
<1> QED BY <1>7, <1>8, <1>9 DEF MainInv

----------------------------------------------------------------------------
(* The map *)

\* Emptying the map keeps the types.
LEMMA Emptied ==
    ASSUME MemType, NEW f \in SUBSET {"simple", "map"}, machine' = machine, ebx' \in Int,
           mbi' = [mbi EXCEPT !.Flags = f, !.map = << >>, !.length = 0]
    PROVE  MemType'
<1> DEFINE S == [Flags : SUBSET {"simple", "map"}, MemLower : {0, machine.lower},
                 MemUpper : Nat, map : Seq(Entries), length : Nat]
<1>1. mbi \in S
  BY DEF MemType
<1>2. [mbi EXCEPT !.Flags = f] \in S
  BY <1>1
<1>3. ASSUME NEW m \in S PROVE [m EXCEPT !.map = << >>] \in S
  <2>1. ASSUME NEW q \in Seq(Entries) PROVE [m EXCEPT !.map = q] \in S
    OBVIOUS
  <2>2. << >> \in Seq(Entries)
    OBVIOUS
  <2> QED BY <2>1, <2>2, Zenon
<1>4. ASSUME NEW m \in S PROVE [m EXCEPT !.length = 0] \in S
  OBVIOUS
<1>5. mbi' = [[[mbi EXCEPT !.Flags = f] EXCEPT !.map = << >>] EXCEPT !.length = 0]
  BY Zenon
<1> HIDE DEF S
<1>6. mbi' \in S
  BY <1>2, <1>3, <1>4, <1>5
<1> QED BY <1>6 DEF MemType, S

\* A call that cannot be answered, and a heap that is full, give the map up.
LEMMA GivenUp ==
    ASSUME MemType, SizeIsTrue, UNCHANGED machine, mbi' = MapFails, ebx' = -1, mbi.length = 0,
           pc' = "map"
    PROVE  MainInv'
<1>1. /\ mbi'.Flags = mbi.Flags \ {"map"} /\ mbi'.map = << >> /\ mbi'.length = 0
      /\ mbi'.MemUpper = mbi.MemUpper
  BY DEF MemType, MapFails
<1>2. MemType'
  <2> DEFINE f == mbi.Flags \ {"map"}
  <2>1. f \in SUBSET {"simple", "map"} /\ ebx' \in Int
    BY DEF MemType
  <2>2. mbi' = [mbi EXCEPT !.Flags = f, !.map = << >>, !.length = 0]
    BY DEF MapFails
  <2> HIDE DEF f
  <2> QED BY <2>1, <2>2, Emptied, Zenon
<1>3. SizeIsTrue'
  BY <1>1 DEF SizeIsTrue
<1>4. Progress'
  BY <1>1 DEF Progress, MapComplete
<1> QED BY <1>2, <1>3, <1>4 DEF MainInv

\* The next entry is that of the machine, unless the map has passed its end.
LEMMA GetMapEntryIInv ==
    ASSUME MainInv, GetMapEntry
    PROVE  MainInv'
<1>1. /\ pc = "map" /\ pc' = "map" /\ ebx >= 0 /\ machine' = machine
      /\ MemType /\ SizeIsTrue /\ mbi.length = 0 /\ Growing
  BY DEF GetMapEntry, Goes, MapEntry, MainInv, Progress
<1>2. CASE mbi' = MapFails /\ ebx' = -1
  BY <1>1, <1>2, GivenUp
<1>3. CASE /\ Answer.entry # NoEntry
           /\ mbi' = [mbi EXCEPT !.map = Append(@, Answer.entry)]
           /\ ebx' = Answer.ebx
  <2> DEFINE n == ebx + 1
             len == Len(machine.map)
             e == Answer.entry
  <2>1. /\ machine.map \in Seq(Entries) /\ len \in Nat
        /\ machine.end = "never" => len >= 1
    BY <1>1, MachineIs DEF MemType
  <2>2. n \in Nat /\ n >= 1 /\ ebx \in Nat
    BY <1>1 DEF MemType
  <2>3. /\ n <= len => e = machine.map[n]
        /\ n > len => machine.end = "never" /\ e = machine.map[1]
        /\ ebx' = IF n = len /\ machine.end = "ebx" THEN -1 ELSE n
    BY <1>3, <2>1, <2>2 DEF Answer
  <2>4. e \in Entries
    BY <2>1, <2>2, <2>3
  <2> HIDE DEF e
  <2>5. /\ mbi.map \in Seq(Entries) /\ Len(mbi.map) = ebx
        /\ mbi \in [Flags : SUBSET {"simple", "map"}, MemLower : {0, machine.lower},
                    MemUpper : Nat, map : Seq(Entries), length : Nat]
    BY <1>1 DEF MemType, Growing
  <2>6. mbi' = [mbi EXCEPT !.map = Append(mbi.map, e)]
    BY <1>3 DEF e
  <2>7. /\ mbi'.Flags = mbi.Flags /\ mbi'.MemUpper = mbi.MemUpper /\ mbi'.length = 0
        /\ mbi'.map = Append(mbi.map, e)
    BY <1>1, <2>5, <2>6
  <2>8. /\ Append(mbi.map, e) \in Seq(Entries) /\ Len(Append(mbi.map, e)) = n
        /\ \A i \in 1 .. ebx : Append(mbi.map, e)[i] = mbi.map[i]
        /\ Append(mbi.map, e)[n] = e
    BY <2>2, <2>4, <2>5
  <2>9. MemType'
    <3>1. ebx' \in Int
      BY <2>2, <2>3
    <3>2. mbi' \in [Flags : SUBSET {"simple", "map"}, MemLower : {0, machine.lower},
                    MemUpper : Nat, map : Seq(Entries), length : Nat]
      BY <2>5, <2>6, <2>8
    <3> QED BY <1>1, <3>1, <3>2 DEF MemType
  <2>10. SizeIsTrue'
    BY <1>1, <2>7 DEF SizeIsTrue
  <2>11. ASSUME n <= len
         PROVE  \A i \in 1 .. n : mbi'.map[i] = machine.map[i]
    <3> SUFFICES ASSUME NEW i \in 1 .. n PROVE mbi'.map[i] = machine.map[i]
      OBVIOUS
    <3>1. CASE i = n
      BY <2>3, <2>7, <2>8, <2>11, <3>1
    <3>2. CASE i # n
      <4>1. i \in 1 .. ebx /\ ebx <= len
        BY <2>1, <2>2, <2>11, <3>2
      <4>2. mbi.map[i] = machine.map[i]
        BY <1>1, <4>1 DEF Growing
      <4> QED BY <2>7, <2>8, <4>1, <4>2
    <3> QED BY <3>1, <3>2
  <2>12. "map" \in mbi'.Flags /\ Len(mbi'.map) = n /\ mbi'.map \in Seq(Entries)
    BY <1>1, <2>7, <2>8 DEF Growing
  <2>13. CASE n = len /\ machine.end = "ebx"
    <3>1. ebx' = -1
      BY <2>3, <2>13
    <3>2. mbi'.map = machine.map
      BY <2>1, <2>2, <2>11, <2>12, <2>13
    <3>3. Progress'
      BY <1>1, <2>7, <2>12, <3>1, <3>2 DEF Progress, MapComplete
    <3> QED BY <2>9, <2>10, <3>3 DEF MainInv
  <2>14. CASE ~(n = len /\ machine.end = "ebx")
    <3>1. ebx' = n
      BY <2>3, <2>14
    <3>2. Growing'
      BY <1>1, <2>11, <2>12, <3>1 DEF Growing
    <3>3. Progress'
      <4>1. n # -1 /\ n >= 0
        BY <2>2
      <4> QED BY <1>1, <2>7, <3>1, <3>2, <4>1 DEF Progress
    <3> QED BY <2>9, <2>10, <3>3 DEF MainInv
  <2> QED BY <2>13, <2>14
<1> QED BY <1>2, <1>3 DEF GetMapEntry, MapEntry

----------------------------------------------------------------------------
(* main *)

\* Every step keeps what is known about memory true.
LEMMA NextMain ==
    ASSUME MainInv, [MainNext]_mainVars
    PROVE  MainInv'
<1>1. CASE GetMemory
  BY <1>1, GetMemoryIInv
<1>2. CASE HeapInit
  BY <1>2 DEF HeapInit, Goes, MainInv, MemType, SizeIsTrue, Progress
<1>3. CASE AskForMap
  <2>1. /\ pc = "begin" /\ pc' = "map" /\ machine' = machine /\ ebx' = 0
        /\ mbi' = [mbi EXCEPT !.Flags = @ \cup {"map"}, !.map = << >>, !.length = 0]
    BY <1>3 DEF AskForMap, Goes, BeginMap
  <2>2. /\ mbi'.Flags = mbi.Flags \cup {"map"} /\ mbi'.map = << >> /\ mbi'.length = 0
        /\ mbi'.MemUpper = mbi.MemUpper
    BY <2>1 DEF MainInv, MemType
  <2>3. MemType'
    <3> DEFINE f == mbi.Flags \cup {"map"}
    <3>1. f \in SUBSET {"simple", "map"} /\ MemType /\ ebx' \in Int
      BY <2>1 DEF MainInv, MemType
    <3>2. mbi' = [mbi EXCEPT !.Flags = f, !.map = << >>, !.length = 0]
      BY <2>1
    <3> HIDE DEF f
    <3> QED BY <2>1, <3>1, <3>2, Emptied, Zenon
  <2>4. SizeIsTrue'
    BY <2>1, <2>2 DEF MainInv, SizeIsTrue
  <2>5. Growing'
    BY <2>1, <2>2 DEF Growing
  <2>6. Progress'
    BY <2>1, <2>2, <2>5 DEF Progress
  <2> QED BY <2>3, <2>4, <2>6 DEF MainInv
<1>4. CASE GetMapEntry
  BY <1>4, GetMapEntryIInv
<1>5. CASE GotMap
  <2>1. /\ pc = "map" /\ pc' \in {"wait", "open"} /\ machine' = machine /\ ebx = -1 /\ ebx' = ebx
        /\ mbi' = [mbi EXCEPT !.length = SizeOfEntry * Len(mbi.map)]
    BY <1>5 DEF GotMap, Goes, EndMap
  <2>2. /\ mbi'.Flags = mbi.Flags /\ mbi'.map = mbi.map /\ mbi'.MemUpper = mbi.MemUpper
        /\ mbi'.length = SizeOfEntry * Len(mbi.map)
    BY <2>1 DEF MainInv, MemType
  <2>3. mbi.map \in Seq(Entries) /\ SizeOfEntry * Len(mbi.map) \in Nat
    BY DEF MainInv, MemType, SizeOfEntry
  <2>4. MemType'
    BY <2>1, <2>3 DEF MainInv, MemType
  <2>5. SizeIsTrue'
    BY <2>1, <2>2 DEF MainInv, SizeIsTrue
  <2>6. MapComplete /\ MapComplete'
    BY <2>1, <2>2 DEF MainInv, Progress, MapComplete
  <2>7. mbi.map = << >> => SizeOfEntry * Len(mbi.map) = 0
    BY DEF SizeOfEntry
  <2>8. Progress'
    BY <2>1, <2>2, <2>6, <2>7 DEF Progress, MapComplete, SizeOfEntry
  <2> QED BY <2>4, <2>5, <2>8 DEF MainInv
<1>6. CASE \/ OpenConfig \/ NoConfig \/ ParseConfig \/ Parsed \/ OnlyImage \/ Menu
           \/ MenuReboot \/ LoadImage \/ KeyPressed \/ Ended
  <2>1. /\ pc \notin {"main", "heap", "begin", "map"} /\ pc' \notin {"main", "heap", "begin", "map"}
        /\ UNCHANGED memVars
    BY <1>6 DEF OpenConfig, NoConfig, ParseConfig, Parsed, OnlyImage, Menu, MenuReboot,
                LoadImage, KeyPressed, Ended, Goes, mainVars
  <2> QED BY <2>1, Untouched
<1>7. CASE UNCHANGED mainVars
  BY <1>7 DEF mainVars, memVars, MainInv, MemType, SizeIsTrue, Progress, Growing, MapComplete
<1> QED BY <1>1, <1>2, <1>3, <1>4, <1>5, <1>6, <1>7 DEF MainNext, Main

\* On every machine, whatever its BIOS answers and wherever it fails, and however
\* little memory there is for the map: from the time it is complete to the start of
\* the image the information about memory is true (mem.c 201-287, main.c 236-328).
THEOREM MemoryInfoIsTrueHolds == MainSpec => []MemoryInfoIsTrue
<1>1. MainInit => MainInv
  <2> SUFFICES ASSUME MainInit PROVE MainInv
    OBVIOUS
  <2>1. NoInfo \in [Flags : SUBSET {"simple", "map"}, MemLower : {0, machine.lower},
                    MemUpper : Nat, map : Seq(Entries), length : Nat]
    BY DEF NoInfo
  <2> QED BY <2>1 DEF MainInit, MemInit, MainInv, MemType, SizeIsTrue, Progress, NoInfo
<1>2. MainInv => MemoryInfoIsTrue
  BY DEF MainInv, SizeIsTrue, Progress, MapComplete, MemoryInfoIsTrue, InfoIsTrue
<1> QED BY <1>1, <1>2, NextMain, PTL DEF MainSpec

----------------------------------------------------------------------------
(* Config *)

NumbersRead == NumbersReadIn(ConfigFiles)

(* One line more: what the sets of lines, and what they say, become. *)

\* The one element of a set of one.
LEMMA TheOnly ==
    ASSUME NEW m
    PROVE  The({m}) = m
BY DEF The

\* The takes an element of its set, if there is one.
LEMMA TheIn ==
    ASSUME NEW S, S # {}
    PROVE  The(S) \in S
BY DEF The

\* A subset of the first n lines is finite, and so is its size known.
LEMMA LinesFinite ==
    ASSUME NEW n \in Nat, NEW K, K \subseteq 1 .. n
    PROVE  IsFiniteSet(K) /\ Cardinality(K) \in Nat
<1>1. IsFiniteSet(1 .. n)
  BY FS_Interval
<1>2. IsFiniteSet(K)
  BY <1>1, FS_Subset
<1> QED BY <1>2, FS_CardinalityType

\* One more line makes a set of earlier ones one larger.
LEMMA LinesAdd ==
    ASSUME NEW n \in Nat, NEW K, K \subseteq 1 .. n
    PROVE  Cardinality(K \cup {n + 1}) = Cardinality(K) + 1
<1>1. IsFiniteSet(K)
  BY LinesFinite
<1>2. ~(n + 1 \in K)
  OBVIOUS
<1> QED BY <1>1, <1>2, FS_AddElement

\* Before the first line there is no section.
LEMMA NoHeaders ==
    ASSUME NEW ls
    PROVE  Headers(ls, 0) = {} /\ SectionOf(ls, 0) = 0
<1>1. Headers(ls, 0) = {}
  BY DEF Headers
<1> QED BY <1>1, FS_EmptySet DEF SectionOf

\* The number of sections so far is a natural number.
LEMMA SectionType ==
    ASSUME NEW ls, NEW n \in Nat
    PROVE  SectionOf(ls, n) \in Nat
<1>1. Headers(ls, n) \subseteq 1 .. n
  BY DEF Headers
<1> QED BY <1>1, LinesFinite DEF SectionOf

\* A header begins the next section.
LEMMA SectionStep ==
    ASSUME NEW ls, NEW n \in Nat
    PROVE  SectionOf(ls, n + 1)
             = IF ls[n + 1].kind = "header" THEN SectionOf(ls, n) + 1 ELSE SectionOf(ls, n)
<1>1. Headers(ls, n) \subseteq 1 .. n
  BY DEF Headers
<1>2. 1 .. n + 1 = (1 .. n) \cup {n + 1}
  OBVIOUS
<1>3. CASE ls[n + 1].kind = "header"
  <2>1. Headers(ls, n + 1) = Headers(ls, n) \cup {n + 1}
    BY <1>2, <1>3 DEF Headers
  <2> QED BY <1>1, <1>3, <2>1, LinesAdd DEF SectionOf
<1>4. CASE ls[n + 1].kind # "header"
  <2>1. Headers(ls, n + 1) = Headers(ls, n)
    BY <1>2, <1>4 DEF Headers
  <2> QED BY <1>4, <2>1 DEF SectionOf
<1> QED BY <1>3, <1>4

\* A line lies in a section that has begun by then.
LEMMA SectionMono ==
    ASSUME NEW ls, NEW n \in Nat, NEW k \in 1 .. n
    PROVE  SectionOf(ls, k) <= SectionOf(ls, n)
<1>1. Headers(ls, n) \subseteq 1 .. n /\ Headers(ls, k) \subseteq Headers(ls, n)
  BY DEF Headers
<1>2. IsFiniteSet(Headers(ls, n))
  BY <1>1, LinesFinite
<1> QED BY <1>1, <1>2, FS_Subset DEF SectionOf

\* The lines that give a property are lines of the file.
LEMMA GivesWhere ==
    ASSUME NEW ls, NEW n, NEW s, NEW name
    PROVE  Gives(ls, n, s, name) \subseteq 1 .. n
BY DEF Gives

\* A section that has not begun says nothing.
LEMMA GivesNone ==
    ASSUME NEW ls, NEW n \in Nat, NEW name
    PROVE  Gives(ls, n, SectionOf(ls, n) + 1, name) = {}
<1> SUFFICES ASSUME NEW k \in 1 .. n, SectionOf(ls, k) = SectionOf(ls, n) + 1 PROVE FALSE
  BY DEF Gives
<1>1. SectionOf(ls, k) <= SectionOf(ls, n) /\ SectionOf(ls, n) \in Nat
  BY SectionMono, SectionType
<1> QED BY <1>1

\* A line later than all others of a set is the last.
LEMMA LastIs ==
    ASSUME NEW n \in Nat, NEW K, K \subseteq 1 .. n
    PROVE  K \cup {n + 1} # {} /\ LastLine(K \cup {n + 1}) = n + 1
<1> DEFINE m == n + 1
           T == K \cup {m}
<1>1. m \in T /\ \A j \in T : j <= m
  OBVIOUS
<1>2. \A k \in T : (\A j \in T : j <= k) => k = m
  BY <1>1
<1> HIDE DEF m, T
<1>3. LastLine(T) = m
  BY <1>1, <1>2 DEF LastLine
<1> QED BY <1>1, <1>3 DEF m, T

\* No lines, no words.
LEMMA NoWords ==
    ASSUME NEW ls
    PROVE  WordsOf(ls, {}) = << >>
BY FS_EmptySet DEF WordsOf

\* How many lines of S there are up to line k, and the jth of them.
Rank(S, k) == Cardinality({i \in S : i <= k})

At(S, j) == {k \in S : Rank(S, k) = j}

\* The words of some lines, by the place of each line among them.
LEMMA WordsAt ==
    ASSUME NEW ls, NEW S
    PROVE  WordsOf(ls, S) = [j \in 1 .. Cardinality(S) |-> ls[The(At(S, j))].value.word]
BY DEF WordsOf, At, Rank

\* The ranks of the lines of K do not change when a later line is added.
LEMMA RankKept ==
    ASSUME NEW n \in Nat, NEW K, K \subseteq 1 .. n, NEW k \in K
    PROVE  /\ Rank(K \cup {n + 1}, k) = Rank(K, k)
           /\ Rank(K, k) \in Nat /\ Rank(K, k) <= Cardinality(K)
<1> DEFINE P == {i \in K : i <= k}
<1>1. {i \in K \cup {n + 1} : i <= k} = P
  OBVIOUS
<1>2. P \subseteq 1 .. n /\ P \in SUBSET K
  OBVIOUS
<1>3. Rank(K \cup {n + 1}, k) = Cardinality(P) /\ Rank(K, k) = Cardinality(P)
  BY <1>1 DEF Rank
<1> HIDE DEF P
<1>4. IsFiniteSet(K) /\ Cardinality(P) \in Nat
  BY <1>2, LinesFinite
<1>5. Cardinality(P) <= Cardinality(K)
  BY <1>2, <1>4, FS_Subset
<1> QED BY <1>3, <1>4, <1>5

\* The last line comes after all the others.
LEMMA RankOfLast ==
    ASSUME NEW n \in Nat, NEW K, K \subseteq 1 .. n
    PROVE  Rank(K \cup {n + 1}, n + 1) = Cardinality(K) + 1
<1> DEFINE m == n + 1
           T == K \cup {m}
<1>1. \A i \in T : i <= m
  OBVIOUS
<1> HIDE DEF T, m
<1>2. {i \in T : i <= m} = T
  BY <1>1, Zenon
<1>3. Cardinality(T) = Cardinality(K) + 1
  BY LinesAdd DEF T, m
<1> QED BY <1>2, <1>3 DEF Rank, T, m

\* A line added at the end leaves the places of the others.
LEMMA AtStep ==
    ASSUME NEW n \in Nat, NEW K, K \subseteq 1 .. n
    PROVE  /\ \A j \in 1 .. Cardinality(K) : At(K \cup {n + 1}, j) = At(K, j)
           /\ At(K \cup {n + 1}, Cardinality(K) + 1) = {n + 1}
<1> DEFINE m == n + 1
           T == K \cup {m}
           c == Cardinality(K)
<1>1. c \in Nat
  BY LinesFinite
<1>2. \A k \in K : Rank(T, k) = Rank(K, k) /\ Rank(K, k) # c + 1
  <2> TAKE k \in K
  <2>1. Rank(T, k) = Rank(K, k) /\ Rank(K, k) \in Nat /\ Rank(K, k) <= c
    BY RankKept
  <2> QED BY <1>1, <2>1
<1>3. Rank(T, m) = c + 1
  BY RankOfLast
<1>4. \A k : k \in T <=> k \in K \/ k = m
  OBVIOUS
<1>5. \A j \in 1 .. c : j # c + 1
  BY <1>1
<1> HIDE DEF m, T, c
<1>6. ASSUME NEW j \in 1 .. c PROVE At(T, j) = At(K, j)
  BY <1>2, <1>3, <1>4, <1>5, Zenon DEF At
<1>7. At(T, c + 1) = {m}
  BY <1>2, <1>3, <1>4, Zenon DEF At
<1> QED BY <1>6, <1>7 DEF m, T, c

\* The word of one line more comes after the others.
LEMMA WordsStep ==
    ASSUME NEW ls, NEW n \in Nat, NEW K, K \subseteq 1 .. n
    PROVE  WordsOf(ls, K \cup {n + 1}) = Append(WordsOf(ls, K), ls[n + 1].value.word)
<1> DEFINE m == n + 1
           T == K \cup {m}
           c == Cardinality(K)
           f == WordsOf(ls, K)
           g == WordsOf(ls, T)
<1>1. c \in Nat /\ Cardinality(T) = c + 1
  BY LinesFinite, LinesAdd
<1>2. /\ \A j \in 1 .. c : The(At(T, j)) = The(At(K, j))
      /\ The(At(T, c + 1)) = m
  BY AtStep, TheOnly
<1>3. /\ f = [j \in 1 .. c |-> ls[The(At(K, j))].value.word]
      /\ g = [j \in 1 .. c + 1 |-> ls[The(At(T, j))].value.word]
  BY <1>1, WordsAt
<1> HIDE DEF m, T, c, f, g
<1>4. Append(f, ls[m].value.word)
        = [j \in 1 .. c + 1 |-> IF j = c + 1 THEN ls[m].value.word ELSE f[j]]
  <2> DEFINE w == ls[m].value.word
             D(j) == ls[The(At(K, j))].value.word
  <2>1. f = [j \in 1 .. c |-> D(j)]
    BY <1>3
  <2> HIDE DEF w, D
  <2> QED BY <1>1, <2>1
<1>5. ASSUME NEW j \in 1 .. c + 1
      PROVE  g[j] = IF j = c + 1 THEN ls[m].value.word ELSE f[j]
  <2>1. j = c + 1 \/ j \in 1 .. c
    BY <1>1
  <2>2. g[j] = ls[The(At(T, j))].value.word
    BY <1>3
  <2>3. j \in 1 .. c => f[j] = ls[The(At(K, j))].value.word
    BY <1>3
  <2>4. j \in 1 .. c => j # c + 1
    BY <1>1
  <2> QED BY <1>2, <2>1, <2>2, <2>3, <2>4, Zenon
<1>6. g = [j \in 1 .. c + 1 |-> IF j = c + 1 THEN ls[m].value.word ELSE f[j]]
  BY <1>3, <1>5, Zenon
<1> QED BY <1>4, <1>6 DEF m, T, f, g

(* The parts of an image, and of the configuration, after n lines. *)

NameAt(ls, n, s) == ls[The({k \in Headers(ls, n) : SectionOf(ls, k) = s})].name
CommandAt(ls, n, s) == LastOr(ls, Gives(ls, n, s, "Command"), None, WordOf)
TypedAt(ls, n, s) == {k \in Gives(ls, n, s, "Type") : ls[k].value.word \in Types}
TypeAt(ls, n, s) == LastOr(ls, TypedAt(ls, n, s), "Auto", WordOf)
AddressAt(ls, n, s) == LastOr(ls, Gives(ls, n, s, "Address"), 0, AddressOf)
DriveAt(ls, n, s) == LastOr(ls, Gives(ls, n, s, "Drive"), NoDrive, DriveOf)
ModulesAt(ls, n, s) == WordsOf(ls, Gives(ls, n, s, "Module"))
TimeoutAt(ls, n) == LastOr(ls, Gives(ls, n, 0, "Timeout"), 120, AutoNumeral)
DefaultAt(ls, n) == IF Defaults(ls, n) = {} THEN 0 ELSE SectionOf(ls, The(Defaults(ls, n)))

\* The image of section s, with the name that it got.
ImageAt(name, ls, n, s) ==
    [Name    |-> name,
     Command |-> CommandAt(ls, n, s),
     Type    |-> TypeAt(ls, n, s),
     Address |-> AddressAt(ls, n, s),
     Drive   |-> DriveAt(ls, n, s),
     Modules |-> ModulesAt(ls, n, s)]

\* An image by the definition of its parts.
LEMMA ImageOfIs ==
    ASSUME NEW ls, NEW n, NEW s
    PROVE  ImageOf(ls, n, s) = ImageAt(NameAt(ls, n, s), ls, n, s)
BY DEF ImageOf, ImageAt, NameAt, CommandAt, TypeAt, TypedAt, AddressAt, DriveAt, ModulesAt

Says(ls, k, s, name) ==
    ls[k].kind = "directive" /\ ls[k].name = name /\ SectionOf(ls, k) = s

\* A line that says nothing about a property gives it nowhere.
LEMMA GivesSame ==
    ASSUME NEW ls, NEW n \in Nat, NEW s, NEW name, ~Says(ls, n + 1, s, name)
    PROVE  Gives(ls, n + 1, s, name) = Gives(ls, n, s, name)
<1> DEFINE m == n + 1
           A == 1 .. n
           B == 1 .. m
<1>1. \A k : k \in B <=> k \in A \/ k = m
  OBVIOUS
<1>2. Gives(ls, n, s, name) = {k \in A : Says(ls, k, s, name)}
      /\ Gives(ls, m, s, name) = {k \in B : Says(ls, k, s, name)}
  BY DEF Gives, Says
<1> HIDE DEF m, A, B
<1>3. ~Says(ls, m, s, name)
  BY DEF m
<1>4. Gives(ls, m, s, name) = Gives(ls, n, s, name)
  BY <1>1, <1>2, <1>3, Zenon
<1> QED BY <1>4 DEF m

\* A line that gives a property is the last that does.
LEMMA GivesMore ==
    ASSUME NEW ls, NEW n \in Nat, NEW s, NEW name, Says(ls, n + 1, s, name)
    PROVE  /\ Gives(ls, n + 1, s, name) = Gives(ls, n, s, name) \cup {n + 1}
           /\ Gives(ls, n, s, name) \subseteq 1 .. n
           /\ LastLine(Gives(ls, n + 1, s, name)) = n + 1
           /\ Gives(ls, n + 1, s, name) # {}
<1> DEFINE m == n + 1
           A == 1 .. n
           B == 1 .. m
<1>1. \A k : k \in B <=> k \in A \/ k = m
  OBVIOUS
<1>2. Gives(ls, n, s, name) = {k \in A : Says(ls, k, s, name)}
      /\ Gives(ls, m, s, name) = {k \in B : Says(ls, k, s, name)}
  BY DEF Gives, Says
<1>3. Gives(ls, n, s, name) \subseteq A
  BY DEF Gives
<1> HIDE DEF m, A, B
<1>4. Says(ls, m, s, name)
  BY DEF m
<1>5. Gives(ls, m, s, name) = Gives(ls, n, s, name) \cup {m}
  BY <1>1, <1>2, <1>4, Zenon
<1> QED BY <1>3, <1>5, LastIs DEF m, A

\* Only a Type line with a known type changes the type.
LEMMA TypedSame ==
    ASSUME NEW ls, NEW n \in Nat, NEW s,
           ~(Says(ls, n + 1, s, "Type") /\ ls[n + 1].value.word \in Types)
    PROVE  TypeAt(ls, n + 1, s) = TypeAt(ls, n, s)
<1>1. TypedAt(ls, n + 1, s) = TypedAt(ls, n, s)
  <2>1. CASE ~Says(ls, n + 1, s, "Type")
    BY <2>1, GivesSame DEF TypedAt
  <2>2. CASE Says(ls, n + 1, s, "Type")
    <3>1. ~(ls[n + 1].value.word \in Types)
      BY <2>2
    <3>2. Gives(ls, n + 1, s, "Type") = Gives(ls, n, s, "Type") \cup {n + 1}
      BY <2>2, GivesMore
    <3> QED BY <3>1, <3>2 DEF TypedAt
  <2> QED BY <2>1, <2>2
<1> QED BY <1>1 DEF TypeAt

\* The last known type is the one that counts.
LEMMA TypedMore ==
    ASSUME NEW ls, NEW n \in Nat, NEW s,
           Says(ls, n + 1, s, "Type"), ls[n + 1].value.word \in Types
    PROVE  TypeAt(ls, n + 1, s) = ls[n + 1].value.word
<1>1. Gives(ls, n + 1, s, "Type") = Gives(ls, n, s, "Type") \cup {n + 1}
  BY GivesMore
<1>2. TypedAt(ls, n + 1, s) = TypedAt(ls, n, s) \cup {n + 1}
  BY <1>1 DEF TypedAt
<1>3. TypedAt(ls, n, s) \subseteq 1 .. n
  BY GivesWhere DEF TypedAt
<1>4. LastLine(TypedAt(ls, n + 1, s)) = n + 1 /\ TypedAt(ls, n + 1, s) # {}
  BY <1>2, <1>3, LastIs
<1> QED BY <1>4 DEF TypeAt, LastOr, WordOf

\* What a line does not mention stays as it is.
LEMMA PartsKept ==
    ASSUME NEW ls, NEW n \in Nat, NEW s
    PROVE  /\ ~Says(ls, n + 1, s, "Command") => CommandAt(ls, n + 1, s) = CommandAt(ls, n, s)
           /\ ~Says(ls, n + 1, s, "Address") => AddressAt(ls, n + 1, s) = AddressAt(ls, n, s)
           /\ ~Says(ls, n + 1, s, "Drive") => DriveAt(ls, n + 1, s) = DriveAt(ls, n, s)
           /\ ~Says(ls, n + 1, s, "Module") => ModulesAt(ls, n + 1, s) = ModulesAt(ls, n, s)
           /\ ~Says(ls, n + 1, s, "Type") => TypeAt(ls, n + 1, s) = TypeAt(ls, n, s)
<1>1. ~Says(ls, n + 1, s, "Command") => CommandAt(ls, n + 1, s) = CommandAt(ls, n, s)
  BY GivesSame DEF CommandAt
<1>2. ~Says(ls, n + 1, s, "Address") => AddressAt(ls, n + 1, s) = AddressAt(ls, n, s)
  BY GivesSame DEF AddressAt
<1>3. ~Says(ls, n + 1, s, "Drive") => DriveAt(ls, n + 1, s) = DriveAt(ls, n, s)
  BY GivesSame DEF DriveAt
<1>4. ~Says(ls, n + 1, s, "Module") => ModulesAt(ls, n + 1, s) = ModulesAt(ls, n, s)
  BY GivesSame DEF ModulesAt
<1>5. ~Says(ls, n + 1, s, "Type") => TypeAt(ls, n + 1, s) = TypeAt(ls, n, s)
  BY TypedSame
<1> QED BY <1>1, <1>2, <1>3, <1>4, <1>5

\* What it does mention is what it says, or comes after what was said before.
LEMMA PartsSaid ==
    ASSUME NEW ls, NEW n \in Nat, NEW s
    PROVE  LET v == ls[n + 1].value IN
           /\ Says(ls, n + 1, s, "Command") => CommandAt(ls, n + 1, s) = v.word
           /\ Says(ls, n + 1, s, "Address") => AddressAt(ls, n + 1, s) = AddressOf(v)
           /\ Says(ls, n + 1, s, "Drive") => DriveAt(ls, n + 1, s) = DriveOf(v)
           /\ Says(ls, n + 1, s, "Module") =>
                 ModulesAt(ls, n + 1, s) = Append(ModulesAt(ls, n, s), v.word)
<1> DEFINE v == ls[n + 1].value
<1>1. Says(ls, n + 1, s, "Command") => CommandAt(ls, n + 1, s) = v.word
  BY GivesMore DEF CommandAt, LastOr, WordOf
<1>2. Says(ls, n + 1, s, "Address") => AddressAt(ls, n + 1, s) = AddressOf(v)
  BY GivesMore DEF AddressAt, LastOr
<1>3. Says(ls, n + 1, s, "Drive") => DriveAt(ls, n + 1, s) = DriveOf(v)
  BY GivesMore DEF DriveAt, LastOr
<1>4. Says(ls, n + 1, s, "Module") =>
         ModulesAt(ls, n + 1, s) = Append(ModulesAt(ls, n, s), v.word)
  <2> SUFFICES ASSUME Says(ls, n + 1, s, "Module")
               PROVE  ModulesAt(ls, n + 1, s) = Append(ModulesAt(ls, n, s), v.word)
    OBVIOUS
  <2> DEFINE K == Gives(ls, n, s, "Module")
  <2>1. K \subseteq 1 .. n /\ Gives(ls, n + 1, s, "Module") = K \cup {n + 1}
    BY GivesMore
  <2> HIDE DEF K
  <2>2. WordsOf(ls, K \cup {n + 1}) = Append(WordsOf(ls, K), v.word)
    BY <2>1, WordsStep
  <2> QED BY <2>1, <2>2 DEF ModulesAt, K
<1> QED BY <1>1, <1>2, <1>3, <1>4

\* The last Timeout before the first section counts.
LEMMA TimeoutStep ==
    ASSUME NEW ls, NEW n \in Nat
    PROVE  TimeoutAt(ls, n + 1)
             = IF Says(ls, n + 1, 0, "Timeout") THEN AutoNumeral(ls[n + 1].value)
               ELSE TimeoutAt(ls, n)
<1>1. Says(ls, n + 1, 0, "Timeout") => TimeoutAt(ls, n + 1) = AutoNumeral(ls[n + 1].value)
  <2> DEFINE z == 0
             K == Gives(ls, n + 1, 0, "Timeout")
  <2>1. Says(ls, n + 1, 0, "Timeout") => LastLine(K) = n + 1 /\ K # {}
    <3> HIDE DEF z
    <3>1. Says(ls, n + 1, z, "Timeout") =>
            /\ LastLine(Gives(ls, n + 1, z, "Timeout")) = n + 1
            /\ Gives(ls, n + 1, z, "Timeout") # {}
      BY GivesMore
    <3> QED BY <3>1 DEF z
  <2>2. TimeoutAt(ls, n + 1) = IF K = {} THEN 120 ELSE AutoNumeral(ls[LastLine(K)].value)
    BY DEF TimeoutAt, LastOr
  <2> HIDE DEF K
  <2> QED BY <2>1, <2>2
<1>2. ~Says(ls, n + 1, 0, "Timeout") => TimeoutAt(ls, n + 1) = TimeoutAt(ls, n)
  BY GivesSame DEF TimeoutAt
<1> QED BY <1>1, <1>2

(* What is right about the first n lines, and what they mean. *)

LineRight(ls, k) ==
    /\ ls[k].kind # "other"
    /\ ls[k].kind = "directive" =>
          IF ls[k].name = "Timeout"
          THEN SectionOf(ls, k) = 0 /\ IsNumeral(ls[k].value)
          ELSE SectionOf(ls, k) # 0

Clean(ls, n) ==
    /\ \A k \in 1 .. n : LineRight(ls, k)
    /\ \A j, k \in Defaults(ls, n) : j = k

\* A file is right if its lines are and each image is complete.
LEMMA WellFormedIs ==
    ASSUME NEW ls, NEW n
    PROVE  WellFormed(ls, n)
             <=> Clean(ls, n) /\ \A s \in 1 .. SectionOf(ls, n) : Complete(ImageOf(ls, n, s))
BY Zenon DEF WellFormed, Clean, LineRight

WantsDefault(ls, k) ==
    ls[k].kind = "directive" /\ ls[k].name = "Default" /\ Yes(ls[k].value)

\* The lines that ask for a default, one line on.
LEMMA DefaultsStep ==
    ASSUME NEW ls, NEW n \in Nat
    PROVE  /\ Defaults(ls, n) \subseteq 1 .. n
           /\ ~WantsDefault(ls, n + 1) => Defaults(ls, n + 1) = Defaults(ls, n)
           /\ WantsDefault(ls, n + 1) => Defaults(ls, n + 1) = Defaults(ls, n) \cup {n + 1}
<1> DEFINE m == n + 1
           A == 1 .. n
           B == 1 .. m
<1>1. \A k : k \in B <=> k \in A \/ k = m
  OBVIOUS
<1>2. Defaults(ls, n) = {k \in A : WantsDefault(ls, k)}
      /\ Defaults(ls, m) = {k \in B : WantsDefault(ls, k)}
  BY Zenon DEF Defaults, WantsDefault
<1> HIDE DEF m, A, B
<1>3. ~WantsDefault(ls, m) => Defaults(ls, m) = Defaults(ls, n)
  BY <1>1, <1>2, Zenon
<1>4. WantsDefault(ls, m) => Defaults(ls, m) = Defaults(ls, n) \cup {m}
  BY <1>1, <1>2, Zenon
<1>5. Defaults(ls, n) \subseteq A
  BY <1>2, Zenon
<1> QED BY <1>3, <1>4, <1>5, Zenon DEF m, A

\* The first line that asks for a default says which it is.
LEMMA DefaultStep ==
    ASSUME NEW ls, NEW n \in Nat
    PROVE  /\ ~WantsDefault(ls, n + 1) => DefaultAt(ls, n + 1) = DefaultAt(ls, n)
           /\ WantsDefault(ls, n + 1) /\ Defaults(ls, n) = {} =>
                 DefaultAt(ls, n + 1) = SectionOf(ls, n + 1)
<1>1. ~WantsDefault(ls, n + 1) => DefaultAt(ls, n + 1) = DefaultAt(ls, n)
  <2>1. ~WantsDefault(ls, n + 1) => Defaults(ls, n + 1) = Defaults(ls, n)
    BY DefaultsStep, Zenon
  <2> QED BY <2>1, Zenon DEF DefaultAt
<1>2. WantsDefault(ls, n + 1) /\ Defaults(ls, n) = {} =>
         DefaultAt(ls, n + 1) = SectionOf(ls, n + 1)
  <2> SUFFICES ASSUME WantsDefault(ls, n + 1), Defaults(ls, n) = {}
               PROVE  DefaultAt(ls, n + 1) = SectionOf(ls, n + 1)
    OBVIOUS
  <2>1. Defaults(ls, n + 1) = Defaults(ls, n) \cup {n + 1}
    BY DefaultsStep, Zenon
  <2>2. Defaults(ls, n + 1) = {n + 1} /\ {n + 1} # {}
    BY <2>1, Zenon
  <2>3. The(Defaults(ls, n + 1)) = n + 1
    BY <2>2, TheOnly, Zenon
  <2> QED BY <2>2, <2>3, Zenon DEF DefaultAt
<1> QED BY <1>1, <1>2

\* No section has asked to be the default.
LEMMA DefaultNone ==
    ASSUME NEW ls, NEW n \in Nat, Clean(ls, n)
    PROVE  DefaultAt(ls, n) = 0 <=> Defaults(ls, n) = {}
<1> SUFFICES ASSUME Defaults(ls, n) # {}
             PROVE  SectionOf(ls, The(Defaults(ls, n))) # 0
  BY Zenon DEF DefaultAt
<1> DEFINE k == The(Defaults(ls, n))
<1>1. k \in Defaults(ls, n)
  BY TheIn, Zenon
<1>2. k \in 1 .. n /\ ls[k].kind = "directive" /\ ls[k].name = "Default"
  BY <1>1, Zenon DEF Defaults
<1> HIDE DEF k
<1>3. SectionOf(ls, k) # 0
  BY <1>2 DEF Clean, LineRight
<1> QED BY <1>3 DEF k

\* Right lines and one more right line.
LEMMA CleanStep ==
    ASSUME NEW ls, NEW n \in Nat, Clean(ls, n), LineRight(ls, n + 1),
           ~WantsDefault(ls, n + 1) \/ Defaults(ls, n) = {}
    PROVE  Clean(ls, n + 1)
<1>1. \A k \in 1 .. n + 1 : LineRight(ls, k)
  <2>1. \A k \in 1 .. n + 1 : k \in 1 .. n \/ k = n + 1
    OBVIOUS
  <2> QED BY <2>1, Zenon DEF Clean
<1>2. \A j, k \in Defaults(ls, n + 1) : j = k
  <2>1. CASE ~WantsDefault(ls, n + 1)
    <3>1. Defaults(ls, n + 1) = Defaults(ls, n)
      BY <2>1, DefaultsStep, Zenon
    <3> QED BY <3>1, Zenon DEF Clean
  <2>2. CASE WantsDefault(ls, n + 1)
    <3>1. Defaults(ls, n) = {} /\ Defaults(ls, n + 1) = Defaults(ls, n) \cup {n + 1}
      BY <2>2, DefaultsStep, Zenon
    <3> QED BY <3>1, Zenon
  <2> QED BY <2>1, <2>2
<1> QED BY <1>1, <1>2, Zenon DEF Clean

\* A file that is right is so up to each line.
LEMMA CleanSoFar ==
    ASSUME NEW ls, NEW n \in Nat, NEW m \in Nat, n < m, Clean(ls, m)
    PROVE  /\ LineRight(ls, n + 1)
           /\ WantsDefault(ls, n + 1) => Defaults(ls, n) = {}
<1>1. LineRight(ls, n + 1)
  <2>1. n + 1 \in 1 .. m
    OBVIOUS
  <2> QED BY <2>1, Zenon DEF Clean
<1>2. ASSUME WantsDefault(ls, n + 1), NEW k \in Defaults(ls, n) PROVE FALSE
  <2>1. k \in 1 .. n /\ WantsDefault(ls, k)
    BY <1>2, Zenon DEF Defaults, WantsDefault
  <2>2. k # n + 1 /\ k \in 1 .. m /\ n + 1 \in 1 .. m
    BY <2>1
  <2>3. k \in Defaults(ls, m) /\ n + 1 \in Defaults(ls, m)
    BY <1>2, <2>1, <2>2, Zenon DEF Defaults, WantsDefault
  <2> QED BY <2>2, <2>3, Zenon DEF Clean
<1> QED BY <1>1, <1>2, Zenon

(* The list of images. *)

IsSeq(q) == q \in Seq({q[j] : j \in DOMAIN q})

\* A sequence is one whatever its elements are.
LEMMA SeqIsSeq ==
    ASSUME NEW S, NEW q \in Seq(S)
    PROVE  IsSeq(q)
<1>1. q \in [1 .. Len(q) -> {q[j] : j \in DOMAIN q}] /\ Len(q) \in Nat
  OBVIOUS
<1> QED BY <1>1 DEF IsSeq

Pushed(x, q) == <<x>> \o q

\* CreateImage puts an image at the head of the list.
LEMMA PushedOn ==
    ASSUME NEW q, IsSeq(q), NEW x
    PROVE  /\ IsSeq(Pushed(x, q)) /\ Len(Pushed(x, q)) = Len(q) + 1 /\ Len(q) \in Nat
           /\ Pushed(x, q)[1] = x /\ \A j \in 1 .. Len(q) : Pushed(x, q)[j + 1] = q[j]
<1> DEFINE S == {q[j] : j \in DOMAIN q}
           T == S \cup {x}
           t == <<x>> \o q
<1>1. q \in Seq(S)
  BY DEF IsSeq
<1> HIDE DEF S
<1>2. q \in Seq(T) /\ <<x>> \in Seq(T)
  BY <1>1
<1> HIDE DEF T
<1>3. t \in Seq(T) /\ Len(t) = Len(q) + 1 /\ Len(q) \in Nat
  BY <1>2
<1>4. t[1] = x /\ \A j \in 1 .. Len(q) : t[j + 1] = q[j]
  BY <1>2
<1> HIDE DEF t
<1>5. IsSeq(t)
  BY <1>3, SeqIsSeq
<1>6. Pushed(x, q) = t
  BY DEF Pushed, t
<1> QED BY <1>3, <1>4, <1>5, <1>6, Zenon

\* A directive changes the image at the head and no other.
LEMMA HeadReplaced ==
    ASSUME NEW q, IsSeq(q), Len(q) # 0, NEW x
    PROVE  /\ IsSeq(Pushed(x, Tail(q))) /\ Len(Pushed(x, Tail(q))) = Len(q) /\ Len(q) \in Nat
           /\ Pushed(x, Tail(q))[1] = x /\ \A j \in 2 .. Len(q) : Pushed(x, Tail(q))[j] = q[j]
           /\ Head(q) = q[1]
<1> DEFINE S == {q[j] : j \in DOMAIN q}
           r == Tail(q)
           t == Pushed(x, r)
<1>1. q \in Seq(S) /\ Len(q) \in Nat /\ q # << >>
  BY DEF IsSeq
<1> HIDE DEF S
<1>2. /\ r \in Seq(S) /\ Len(r) = Len(q) - 1 /\ Head(q) = q[1]
      /\ \A j \in 1 .. Len(r) : r[j] = q[j + 1]
  BY <1>1
<1> HIDE DEF r
<1>3. IsSeq(r)
  BY <1>2, SeqIsSeq
<1>4. /\ IsSeq(t) /\ Len(t) = Len(r) + 1 /\ Len(r) \in Nat
      /\ t[1] = x /\ \A j \in 1 .. Len(r) : t[j + 1] = r[j]
  BY <1>3, PushedOn
<1> HIDE DEF t
<1>5. ASSUME NEW j \in 2 .. Len(q) PROVE t[j] = q[j]
  <2>1. j - 1 \in 1 .. Len(r) /\ (j - 1) + 1 = j
    BY <1>1, <1>2
  <2>2. t[(j - 1) + 1] = r[j - 1] /\ r[j - 1] = q[(j - 1) + 1]
    BY <1>2, <1>4, <2>1
  <2> QED BY <2>1, <2>2
<1>6. Len(t) = Len(q)
  BY <1>1, <1>2, <1>4
<1> QED BY <1>1, <1>2, <1>4, <1>5, <1>6, Zenon DEF r, t

\* The images after n lines, the last section first; the names are right unless
\* memory was short.
ImagesAre(ls, n, q, sh) ==
    /\ IsSeq(q)
    /\ Len(q) = SectionOf(ls, n)
    /\ \A j \in 1 .. Len(q) :
          LET s == SectionOf(ls, n) + 1 - j IN
          /\ q[j] = ImageAt(q[j].Name, ls, n, s)
          /\ sh \/ q[j].Name = NameAt(ls, n, s)

\* Lines that are no headers name no image.
LEMMA NamesKept ==
    ASSUME NEW ls, NEW n \in Nat, ls[n + 1].kind # "header", NEW s
    PROVE  NameAt(ls, n + 1, s) = NameAt(ls, n, s)
<1>1. \A k \in 1 .. n + 1 : k \in 1 .. n \/ k = n + 1
  OBVIOUS
<1>2. Headers(ls, n + 1) = Headers(ls, n)
  BY <1>1 DEF Headers
<1> QED BY <1>2, Zenon DEF NameAt

\* A line that says nothing about an image.
LEMMA ImagesKept ==
    ASSUME NEW ls, NEW n \in Nat, NEW q, NEW sh, ImagesAre(ls, n, q, sh),
           ls[n + 1].kind # "header",
           \A name, s : ImageAt(name, ls, n + 1, s) = ImageAt(name, ls, n, s)
    PROVE  ImagesAre(ls, n + 1, q, sh)
<1>1. SectionOf(ls, n + 1) = SectionOf(ls, n)
  BY SectionStep
<1>2. \A s : NameAt(ls, n + 1, s) = NameAt(ls, n, s)
  BY NamesKept
<1> QED BY <1>1, <1>2, Zenon DEF ImagesAre

\* A line that changes the image of the section it is in.
LEMMA ImagesChanged ==
    ASSUME NEW ls, NEW n \in Nat, NEW q, NEW sh, ImagesAre(ls, n, q, sh), NEW x,
           ls[n + 1].kind # "header", SectionOf(ls, n) # 0,
           x = ImageAt(q[1].Name, ls, n + 1, SectionOf(ls, n)),
           \A name, s : s # SectionOf(ls, n) =>
               ImageAt(name, ls, n + 1, s) = ImageAt(name, ls, n, s)
    PROVE  ImagesAre(ls, n + 1, <<x>> \o Tail(q), sh) /\ Head(q) = q[1]
<1> DEFINE N == SectionOf(ls, n)
           t == <<x>> \o Tail(q)
<1>1. SectionOf(ls, n + 1) = N /\ N \in Nat
  BY SectionStep, SectionType
<1>2. \A s : NameAt(ls, n + 1, s) = NameAt(ls, n, s)
  BY NamesKept
<1>3. IsSeq(q) /\ Len(q) = N /\ N # 0
  BY DEF ImagesAre
<1>4. /\ IsSeq(t) /\ Len(t) = N /\ t[1] = x
      /\ \A j \in 2 .. N : t[j] = q[j]
      /\ Head(q) = q[1]
  <2>1. t = Pushed(x, Tail(q))
    BY DEF Pushed
  <2> HIDE DEF t, N
  <2>2. Len(q) # 0
    BY <1>3, Zenon
  <2> QED BY <1>3, <2>1, <2>2, HeadReplaced
<1>5. \A j \in 1 .. N : /\ q[j] = ImageAt(q[j].Name, ls, n, N + 1 - j)
                        /\ sh \/ q[j].Name = NameAt(ls, n, N + 1 - j)
  BY <1>3, Zenon DEF ImagesAre
<1>6. x.Name = q[1].Name
  BY DEF ImageAt
<1>7. \A s : s # N => \A name : ImageAt(name, ls, n + 1, s) = ImageAt(name, ls, n, s)
  OBVIOUS
<1>8. x = ImageAt(x.Name, ls, n + 1, N)
  BY <1>6
<1> HIDE DEF t, N
<1>9. ASSUME NEW j \in 1 .. N
      PROVE  /\ t[j] = ImageAt(t[j].Name, ls, n + 1, N + 1 - j)
             /\ sh \/ t[j].Name = NameAt(ls, n + 1, N + 1 - j)
  <2>1. CASE j = 1
    <3>1. N + 1 - j = N
      BY <1>1, <2>1
    <3>2. t[j] = x /\ t[j].Name = q[j].Name
      BY <1>4, <1>6, <2>1
    <3> QED BY <1>2, <1>5, <1>8, <3>1, <3>2, Zenon
  <2>2. CASE j # 1
    <3>1. N + 1 - j # N /\ j \in 2 .. N
      BY <1>1, <2>2
    <3>2. t[j] = q[j]
      BY <1>4, <3>1
    <3> QED BY <1>2, <1>5, <1>7, <3>1, <3>2, Zenon
  <2> QED BY <2>1, <2>2
<1>10. ImagesAre(ls, n + 1, t, sh)
  BY <1>1, <1>4, <1>9, Zenon DEF ImagesAre
<1> QED BY <1>4, <1>10 DEF t

\* A section that has just begun has no properties.
LEMMA NewSection ==
    ASSUME NEW ls, NEW n \in Nat, ls[n + 1].kind = "header", NEW name
    PROVE  /\ ImageAt(name, ls, n + 1, SectionOf(ls, n) + 1) = NewImage(name)
           /\ NameAt(ls, n + 1, SectionOf(ls, n) + 1) = ls[n + 1].name
<1> DEFINE N == SectionOf(ls, n)
           M == N + 1
<1>1. N \in Nat /\ SectionOf(ls, n + 1) = M
  BY SectionStep, SectionType
<1>2. \A p : Gives(ls, n + 1, M, p) = {}
  <2> TAKE p
  <2>1. ~Says(ls, n + 1, M, p)
    BY DEF Says
  <2>2. Gives(ls, n, M, p) = {}
    BY GivesNone
  <2> HIDE DEF M, N
  <2> QED BY <2>1, <2>2, GivesSame
<1>3. {k \in Headers(ls, n + 1) : SectionOf(ls, k) = M} = {n + 1}
  <2>1. \A k \in 1 .. n + 1 : k \in 1 .. n \/ k = n + 1
    OBVIOUS
  <2>2. n + 1 \in Headers(ls, n + 1)
    BY DEF Headers
  <2>3. ASSUME NEW k \in Headers(ls, n + 1), SectionOf(ls, k) = M PROVE k = n + 1
    <3> SUFFICES ASSUME k \in 1 .. n PROVE FALSE
      BY <2>1 DEF Headers
    <3>1. SectionOf(ls, k) <= N
      BY SectionMono
    <3> QED BY <1>1, <2>3, <3>1
  <2> HIDE DEF M, N
  <2> QED BY <1>1, <2>2, <2>3, Zenon
<1> HIDE DEF M, N
<1>4. NameAt(ls, n + 1, M) = ls[n + 1].name
  BY <1>3, TheOnly, Zenon DEF NameAt
<1>5. /\ CommandAt(ls, n + 1, M) = None /\ TypeAt(ls, n + 1, M) = "Auto"
      /\ DriveAt(ls, n + 1, M) = NoDrive /\ ModulesAt(ls, n + 1, M) = << >>
      /\ AddressAt(ls, n + 1, M) = 0
  <2>1. CommandAt(ls, n + 1, M) = None
    BY <1>2, Zenon DEF CommandAt, LastOr
  <2>2. TypeAt(ls, n + 1, M) = "Auto"
    <3>1. TypedAt(ls, n + 1, M) = {}
      BY <1>2, Zenon DEF TypedAt
    <3> QED BY <3>1, Zenon DEF TypeAt, LastOr
  <2>3. DriveAt(ls, n + 1, M) = NoDrive
    BY <1>2, Zenon DEF DriveAt, LastOr
  <2>4. ModulesAt(ls, n + 1, M) = << >>
    BY <1>2, NoWords, Zenon DEF ModulesAt
  <2>5. AddressAt(ls, n + 1, M) = 0
    BY <1>2, Zenon DEF AddressAt, LastOr
  <2> QED BY <2>1, <2>2, <2>3, <2>4, <2>5
<1>6. ImageAt(name, ls, n + 1, M) = NewImage(name)
  BY <1>5, Zenon DEF ImageAt, NewImage
<1> QED BY <1>4, <1>6 DEF M, N

\* A header changes nothing about the sections before it.
LEMMA OldSections ==
    ASSUME NEW ls, NEW n \in Nat, ls[n + 1].kind = "header", NEW s, s # SectionOf(ls, n) + 1
    PROVE  /\ \A name : ImageAt(name, ls, n + 1, s) = ImageAt(name, ls, n, s)
           /\ NameAt(ls, n + 1, s) = NameAt(ls, n, s)
<1>1. \A p : ~Says(ls, n + 1, s, p)
  BY DEF Says
<1>2. \A name : ImageAt(name, ls, n + 1, s) = ImageAt(name, ls, n, s)
  BY <1>1, PartsKept, Zenon DEF ImageAt
<1>3. SectionOf(ls, n + 1) # s
  <2>1. SectionOf(ls, n + 1) = SectionOf(ls, n) + 1
    BY SectionStep
  <2> QED BY <2>1, Zenon
<1>4. \A k : k \in 1 .. n + 1 <=> k \in 1 .. n \/ k = n + 1
  OBVIOUS
<1>5. {k \in Headers(ls, n + 1) : SectionOf(ls, k) = s}
        = {k \in Headers(ls, n) : SectionOf(ls, k) = s}
  BY <1>3, <1>4, Zenon DEF Headers
<1> QED BY <1>2, <1>5, Zenon DEF NameAt

\* After a header the list holds one image more, the section's.
LEMMA ImagesPushed ==
    ASSUME NEW ls, NEW n \in Nat, NEW q, NEW sh \in BOOLEAN, ImagesAre(ls, n, q, sh),
           ls[n + 1].kind = "header", NEW name, NEW x, x = NewImage(name),
           NEW lost \in BOOLEAN, lost \/ name = ls[n + 1].name, sh => lost
    PROVE  ImagesAre(ls, n + 1, <<x>> \o q, lost)
<1> DEFINE N == SectionOf(ls, n)
           M == N + 1
           t == <<x>> \o q
<1>1. N \in Nat /\ SectionOf(ls, n + 1) = M
  BY SectionStep, SectionType
<1>2. IsSeq(q) /\ Len(q) = N
  BY DEF ImagesAre
<1>3. /\ IsSeq(t) /\ Len(t) = M /\ t[1] = x
      /\ \A j \in 1 .. N : t[j + 1] = q[j]
  <2>0. t = Pushed(x, q)
    BY DEF Pushed
  <2> HIDE DEF N, t
  <2>1. /\ IsSeq(t) /\ Len(t) = Len(q) + 1 /\ Len(q) \in Nat
        /\ t[1] = x /\ \A j \in 1 .. Len(q) : t[j + 1] = q[j]
    BY <1>2, <2>0, PushedOn, SMTT(30)
  <2> QED BY <1>2, <2>1, Zenon
<1>4. \A j \in 1 .. N : /\ q[j] = ImageAt(q[j].Name, ls, n, N + 1 - j)
                        /\ sh \/ q[j].Name = NameAt(ls, n, N + 1 - j)
  BY <1>2, Zenon DEF ImagesAre
<1>5. \A s : s # M => /\ \A nm : ImageAt(nm, ls, n + 1, s) = ImageAt(nm, ls, n, s)
                      /\ NameAt(ls, n + 1, s) = NameAt(ls, n, s)
  BY OldSections
<1>6. /\ x = ImageAt(x.Name, ls, n + 1, M)
      /\ lost \/ x.Name = NameAt(ls, n + 1, M)
  <2>1. x.Name = name
    BY DEF NewImage
  <2> QED BY <2>1, NewSection
<1> HIDE DEF t, N
<1>7. ASSUME NEW j \in 1 .. M
      PROVE  /\ t[j] = ImageAt(t[j].Name, ls, n + 1, M + 1 - j)
             /\ lost \/ t[j].Name = NameAt(ls, n + 1, M + 1 - j)
  <2>1. CASE j = 1
    <3>1. M + 1 - j = M
      BY <1>1, <2>1
    <3>2. t[j] = x
      BY <1>3, <2>1
    <3> QED BY <1>6, <3>1, <3>2, Zenon
  <2>2. CASE j # 1
    <3> DEFINE i == j - 1
    <3>1. i \in 1 .. N /\ j = i + 1 /\ M + 1 - j = N + 1 - i /\ M + 1 - j # M
      BY <1>1, <2>2
    <3> HIDE DEF i, M
    <3>2. t[j] = q[i]
      BY <1>3, <3>1
    <3> QED BY <1>4, <1>5, <3>1, <3>2, Zenon
  <2> QED BY <2>1, <2>2
<1> HIDE DEF M
<1>8. ImagesAre(ls, n + 1, t, lost)
  BY <1>1, <1>3, <1>7, Zenon DEF ImagesAre
<1> QED BY <1>8 DEF t

(* What the configuration is after n lines. *)

Means(ls, n, c, h, sh) ==
    /\ h = (SectionOf(ls, n) # 0)
    /\ c = [Timeout |-> TimeoutAt(ls, n), Default |-> DefaultAt(ls, n), Images |-> c.Images]
    /\ ImagesAre(ls, n, c.Images, sh)
    /\ Clean(ls, n)

\* A directive is in the section of the line before it, and says nothing about others.
LEMMA InItsSection ==
    ASSUME NEW ls, NEW n \in Nat, ls[n + 1].kind = "directive"
    PROVE  /\ SectionOf(ls, n + 1) = SectionOf(ls, n)
           /\ \A s, p : Says(ls, n + 1, s, p) <=> s = SectionOf(ls, n) /\ p = ls[n + 1].name
           /\ \A name, s : s # SectionOf(ls, n) =>
                 ImageAt(name, ls, n + 1, s) = ImageAt(name, ls, n, s)
<1>1. SectionOf(ls, n + 1) = SectionOf(ls, n)
  BY SectionStep
<1>2. \A s, p : Says(ls, n + 1, s, p) <=> s = SectionOf(ls, n) /\ p = ls[n + 1].name
  BY <1>1, Zenon DEF Says
<1>3. ASSUME NEW name, NEW s, s # SectionOf(ls, n)
      PROVE  ImageAt(name, ls, n + 1, s) = ImageAt(name, ls, n, s)
  <2>1. \A p : ~Says(ls, n + 1, s, p)
    BY <1>2, <1>3, Zenon
  <2> QED BY <2>1, PartsKept, Zenon DEF ImageAt
<1> QED BY <1>1, <1>2, <1>3

\* A directive of a section that is about its image.
LEMMA ChangeMeans ==
    ASSUME NEW ls, NEW n \in Nat, Means(ls, n, config, inHeader, short), inHeader,
           ls[n + 1].kind = "directive", ls[n + 1].name # "Timeout", ls[n + 1].name # "Default",
           NEW x, x = ImageAt(config.Images[1].Name, ls, n + 1, SectionOf(ls, n))
    PROVE  Means(ls, n + 1, WithImage(x), inHeader, short)
<1> DEFINE N == SectionOf(ls, n)
           q == config.Images
           d == WithImage(x)
           t == <<x>> \o Tail(q)
<1>1. SectionOf(ls, n + 1) = N /\ N # 0
  BY InItsSection DEF Means
<1>2. ImagesAre(ls, n + 1, t, short)
  <2>1. ls[n + 1].kind # "header" /\ ImagesAre(ls, n, q, short)
    BY DEF Means
  <2>2. \A name, s : s # N => ImageAt(name, ls, n + 1, s) = ImageAt(name, ls, n, s)
    BY InItsSection
  <2> HIDE DEF q
  <2>3. x = ImageAt(q[1].Name, ls, n + 1, N)
    BY DEF q
  <2> QED BY <1>1, <2>1, <2>2, <2>3, ImagesChanged
<1>3. TimeoutAt(ls, n + 1) = TimeoutAt(ls, n)
  <2>1. ~Says(ls, n + 1, 0, "Timeout")
    BY DEF Says
  <2> QED BY <2>1, TimeoutStep
<1>4. ~WantsDefault(ls, n + 1)
  BY DEF WantsDefault
<1>5. DefaultAt(ls, n + 1) = DefaultAt(ls, n)
  BY <1>4, DefaultStep
<1>6. Clean(ls, n + 1)
  <2>1. LineRight(ls, n + 1)
    BY <1>1 DEF LineRight
  <2> QED BY <1>4, <2>1, CleanStep DEF Means
<1>7. d = [Timeout |-> TimeoutAt(ls, n), Default |-> DefaultAt(ls, n), Images |-> t]
  <2> DEFINE a == TimeoutAt(ls, n)
             b == DefaultAt(ls, n)
  <2>1. d = [config EXCEPT !.Images = t]
    BY Zenon DEF WithImage
  <2>2. config = [Timeout |-> a, Default |-> b, Images |-> q]
    BY Zenon DEF Means
  <2> HIDE DEF d, t, a, b, q
  <2>3. d = [Timeout |-> a, Default |-> b, Images |-> t]
    BY <2>1, <2>2
  <2> QED BY <2>3 DEF a, b
<1>8. d.Images = t
  BY <1>7
<1> HIDE DEF d, t, q, N
<1>9. d = [Timeout |-> TimeoutAt(ls, n + 1), Default |-> DefaultAt(ls, n + 1), Images |-> d.Images]
  BY <1>3, <1>5, <1>7, <1>8, Zenon
<1>10. inHeader = (SectionOf(ls, n + 1) # 0)
  BY <1>1, Zenon DEF Means, N
<1> QED BY <1>2, <1>6, <1>8, <1>9, <1>10, Zenon DEF Means, d

\* A line that changes nothing.
LEMMA StayMeans ==
    ASSUME NEW ls, NEW n \in Nat, NEW c, NEW h, NEW sh, Means(ls, n, c, h, sh),
           ls[n + 1].kind # "header", LineRight(ls, n + 1),
           ~Says(ls, n + 1, 0, "Timeout"), ~WantsDefault(ls, n + 1),
           \A name, s : ImageAt(name, ls, n + 1, s) = ImageAt(name, ls, n, s)
    PROVE  Means(ls, n + 1, c, h, sh)
<1>1. SectionOf(ls, n + 1) = SectionOf(ls, n)
  BY SectionStep
<1>2. ImagesAre(ls, n + 1, c.Images, sh)
  BY ImagesKept, Zenon DEF Means
<1>3. TimeoutAt(ls, n + 1) = TimeoutAt(ls, n)
  BY TimeoutStep
<1>4. DefaultAt(ls, n + 1) = DefaultAt(ls, n)
  BY DefaultStep
<1>5. Clean(ls, n + 1)
  BY CleanStep DEF Means
<1> QED BY <1>1, <1>2, <1>3, <1>4, <1>5, Zenon DEF Means

\* The image of the section that is being parsed.
LEMMA ImgIs ==
    ASSUME NEW ls, NEW n \in Nat, Means(ls, n, config, inHeader, short), inHeader
    PROVE  /\ img = config.Images[1]
           /\ img = ImageAt(img.Name, ls, n, SectionOf(ls, n))
           /\ Len(config.Images) = SectionOf(ls, n)
<1> DEFINE q == config.Images
           N == SectionOf(ls, n)
<1>1. IsSeq(q) /\ Len(q) = N /\ N # 0 /\ N \in Nat
  BY SectionType DEF Means, ImagesAre
<1>2. Head(q) = q[1]
  <2>1. q # << >> /\ q \in Seq({q[j] : j \in DOMAIN q})
    BY <1>1 DEF IsSeq
  <2> HIDE DEF q, N
  <2> QED BY <2>1
<1>3. 1 \in 1 .. Len(q) /\ N + 1 - 1 = N
  BY <1>1
<1>4. q[1] = ImageAt(q[1].Name, ls, n, N + 1 - 1)
  BY <1>3, Zenon DEF Means, ImagesAre
<1> QED BY <1>1, <1>2, <1>3, <1>4 DEF img

\* What each directive makes of the image of its section (config.c 47-145).
LEMMA ImageSaid ==
    ASSUME NEW ls, NEW n \in Nat, Means(ls, n, config, inHeader, short), inHeader,
           ls[n + 1].kind = "directive"
    PROVE  LET v == ls[n + 1].value
               p == ls[n + 1].name
               x == ImageAt(config.Images[1].Name, ls, n + 1, SectionOf(ls, n))
           IN /\ p = "Command" => x = [img EXCEPT !.Command = v.word]
              /\ p = "Type" /\ v.word \in Types => x = [img EXCEPT !.Type = v.word]
              /\ p = "Address" => x = [img EXCEPT !.Address = AddressOf(v)]
              /\ p = "Drive" => x = [img EXCEPT !.Drive = DriveOf(v)]
              /\ p = "Module" => x = [img EXCEPT !.Modules = Append(@, v.word)]
<1> DEFINE v == ls[n + 1].value
           p == ls[n + 1].name
           N == SectionOf(ls, n)
           a == config.Images[1].Name
           x == ImageAt(a, ls, n + 1, N)
           b == CommandAt(ls, n, N)
           c == TypeAt(ls, n, N)
           d == AddressAt(ls, n, N)
           e == DriveAt(ls, n, N)
           f == ModulesAt(ls, n, N)
<1>1. img = [Name |-> a, Command |-> b, Type |-> c, Address |-> d, Drive |-> e, Modules |-> f]
  BY ImgIs, Zenon DEF ImageAt
<1>2. x = [Name |-> a, Command |-> CommandAt(ls, n + 1, N), Type |-> TypeAt(ls, n + 1, N),
           Address |-> AddressAt(ls, n + 1, N), Drive |-> DriveAt(ls, n + 1, N),
           Modules |-> ModulesAt(ls, n + 1, N)]
  BY DEF ImageAt
<1>3. \A r : Says(ls, n + 1, N, r) <=> r = p
  BY InItsSection
<1>4. /\ p # "Command" => CommandAt(ls, n + 1, N) = b
      /\ p # "Type" => TypeAt(ls, n + 1, N) = c
      /\ p # "Address" => AddressAt(ls, n + 1, N) = d
      /\ p # "Drive" => DriveAt(ls, n + 1, N) = e
      /\ p # "Module" => ModulesAt(ls, n + 1, N) = f
  BY <1>3, PartsKept, Zenon
<1>5. /\ p = "Command" => CommandAt(ls, n + 1, N) = v.word
      /\ p = "Address" => AddressAt(ls, n + 1, N) = AddressOf(v)
      /\ p = "Drive" => DriveAt(ls, n + 1, N) = DriveOf(v)
      /\ p = "Module" => ModulesAt(ls, n + 1, N) = Append(f, v.word)
  BY <1>3, PartsSaid, Zenon
<1>6. p = "Type" /\ v.word \in Types => TypeAt(ls, n + 1, N) = v.word
  BY <1>3, TypedMore, Zenon
<1>0. /\ "Command" # "Type" /\ "Command" # "Address" /\ "Command" # "Drive"
      /\ "Command" # "Module" /\ "Type" # "Address" /\ "Type" # "Drive" /\ "Type" # "Module"
      /\ "Address" # "Drive" /\ "Address" # "Module" /\ "Drive" # "Module"
  OBVIOUS
<1> HIDE DEF v, p, N, a, x, b, c, d, e, f
<1>7. p = "Command" => x = [img EXCEPT !.Command = v.word]
  <2> DEFINE w == v.word
  <2> HIDE DEF w
  <2>1. [img EXCEPT !.Command = w] = [Name |-> a, Command |-> w, Type |-> c, Address |-> d,
                                      Drive |-> e, Modules |-> f]
    BY <1>1
  <2> QED BY <1>0, <1>2, <1>4, <1>5, <2>1, Zenon DEF w
<1>8. p = "Type" /\ v.word \in Types => x = [img EXCEPT !.Type = v.word]
  <2> DEFINE w == v.word
  <2> HIDE DEF w
  <2>1. [img EXCEPT !.Type = w] = [Name |-> a, Command |-> b, Type |-> w, Address |-> d,
                                   Drive |-> e, Modules |-> f]
    BY <1>1
  <2> QED BY <1>0, <1>2, <1>4, <1>6, <2>1, Zenon DEF w
<1>9. p = "Address" => x = [img EXCEPT !.Address = AddressOf(v)]
  <2> DEFINE w == AddressOf(v)
  <2> HIDE DEF w
  <2>1. [img EXCEPT !.Address = w] = [Name |-> a, Command |-> b, Type |-> c, Address |-> w,
                                      Drive |-> e, Modules |-> f]
    BY <1>1
  <2> QED BY <1>0, <1>2, <1>4, <1>5, <2>1, Zenon DEF w
<1>10. p = "Drive" => x = [img EXCEPT !.Drive = DriveOf(v)]
  <2> DEFINE w == DriveOf(v)
  <2> HIDE DEF w
  <2>1. [img EXCEPT !.Drive = w] = [Name |-> a, Command |-> b, Type |-> c, Address |-> d,
                                    Drive |-> w, Modules |-> f]
    BY <1>1
  <2> QED BY <1>0, <1>2, <1>4, <1>5, <2>1, Zenon DEF w
<1>11. p = "Module" => x = [img EXCEPT !.Modules = Append(@, v.word)]
  <2> DEFINE w == Append(f, v.word)
  <2>1. img.Modules = f
    BY <1>1
  <2>2. [img EXCEPT !.Modules = Append(@, v.word)] = [img EXCEPT !.Modules = w]
    BY <2>1
  <2> HIDE DEF w
  <2>3. [img EXCEPT !.Modules = w] = [Name |-> a, Command |-> b, Type |-> c, Address |-> d,
                                      Drive |-> e, Modules |-> w]
    BY <1>1
  <2> QED BY <1>0, <1>2, <1>4, <1>5, <2>2, <2>3, Zenon DEF w
<1> QED BY <1>7, <1>8, <1>9, <1>10, <1>11 DEF v, p, N, a, x

\* The numbers that directives store are the ones that their texts mean.
LEMMA NumberStored ==
    ASSUME NEW line, NumberRead(line)
    PROVE  /\ line.name = "Address" => \A x \in strtoul(line.value, 0) :
                 (IF x.none THEN 0 ELSE x.val) = AddressOf(line.value)
           /\ line.name = "Drive" => \A x \in strtoul(line.value, 0) :
                 (IF x.none \/ x.val > 255 THEN NoDrive ELSE x.val) = DriveOf(line.value)
           /\ line.name = "Timeout" =>
                 /\ \A x \in strtoul(line.value, 0) :
                       ~x.none => IsNumeral(line.value) /\ x.val = AutoNumeral(line.value)
                 /\ IsNumeral(line.value) => {x \in strtoul(line.value, 0) : ~x.none} # {}
<1> DEFINE v == line.value
           R == strtoul(v, 0)
           i == IsNumeral(v)
           w == AutoNumeral(v)
<1>0. i \in BOOLEAN
  BY DEF IsNumeral
<1>1. line.name \in {"Address", "Drive", "Timeout"} =>
         /\ R # {}
         /\ \A x \in R : x.none = ~i /\ (i => x.val = w /\ w \in Nat)
  BY Zenon DEF NumberRead
<1>2. AddressOf(v) = IF i THEN w ELSE 0
  BY Zenon DEF AddressOf
<1>3. DriveOf(v) = IF i /\ w <= 255 THEN w ELSE NoDrive
  BY SMT DEF DriveOf
<1> HIDE DEF v, R, i, w
<1>4. line.name = "Address" => \A x \in R : (IF x.none THEN 0 ELSE x.val) = AddressOf(v)
  BY <1>0, <1>1, <1>2
<1>5. line.name = "Drive" => \A x \in R : (IF x.none \/ x.val > 255 THEN NoDrive ELSE x.val) = DriveOf(v)
  <2> SUFFICES ASSUME line.name = "Drive", NEW x \in R
               PROVE  (IF x.none \/ x.val > 255 THEN NoDrive ELSE x.val) = DriveOf(v)
    BY SMT
  <2>1. x.none = ~i /\ (i => x.val = w /\ w \in Nat)
    BY <1>1, Zenon
  <2>2. CASE i
    <3>1. ~x.none /\ x.val = w /\ w \in Nat
      BY <2>1, <2>2, Zenon
    <3> QED BY <1>3, <2>2, <3>1, SMT
  <2>3. CASE ~i
    <3>1. x.none
      BY <2>1, <2>3, Zenon
    <3>2. DriveOf(v) = NoDrive
      BY <1>3, <2>3, SMT
    <3> QED BY <3>1, <3>2, SMT
  <2> QED BY <2>2, <2>3
<1>6. line.name = "Timeout" =>
         /\ \A x \in R : ~x.none => i /\ x.val = w
         /\ i => {x \in R : ~x.none} # {}
  BY <1>0, <1>1
<1> QED BY <1>4, <1>5, <1>6, SMT DEF v, R, i, w

ImageProperties == {"Command", "Type", "Address", "Drive", "Module"}

\* A directive of a section that says nothing about its image.
LEMMA OtherMeans ==
    ASSUME NEW ls, NEW n \in Nat, Means(ls, n, config, inHeader, short), inHeader,
           ls[n + 1].kind = "directive", ls[n + 1].name # "Timeout", ~WantsDefault(ls, n + 1),
           \/ ls[n + 1].name \notin ImageProperties
           \/ ls[n + 1].name = "Type" /\ ls[n + 1].value.word \notin Types
    PROVE  Means(ls, n + 1, config, inHeader, short)
<1>1. SectionOf(ls, n + 1) = SectionOf(ls, n) /\ SectionOf(ls, n) # 0
  BY InItsSection DEF Means
<1>2. LineRight(ls, n + 1)
  BY <1>1 DEF LineRight
<1>3. ~Says(ls, n + 1, 0, "Timeout")
  BY DEF Says
<1>4. ASSUME NEW name, NEW s
      PROVE  ImageAt(name, ls, n + 1, s) = ImageAt(name, ls, n, s)
  <2>1. \A p \in ImageProperties \ {"Type"} : ~Says(ls, n + 1, s, p)
    BY DEF Says, ImageProperties
  <2>2. ~(Says(ls, n + 1, s, "Type") /\ ls[n + 1].value.word \in Types)
    BY DEF Says, ImageProperties
  <2>3. TypeAt(ls, n + 1, s) = TypeAt(ls, n, s)
    BY <2>2, TypedSame
  <2>4. /\ ~Says(ls, n + 1, s, "Command") /\ ~Says(ls, n + 1, s, "Address")
        /\ ~Says(ls, n + 1, s, "Drive") /\ ~Says(ls, n + 1, s, "Module")
    BY <2>1 DEF ImageProperties
  <2> QED BY <2>3, <2>4, PartsKept, Zenon DEF ImageAt
<1>5. ls[n + 1].kind # "header"
  OBVIOUS
<1> QED BY <1>2, <1>3, <1>4, <1>5, StayMeans, Zenon

\* A section asks to be the default.
LEMMA AskMeans ==
    ASSUME NEW ls, NEW n \in Nat, Means(ls, n, config, inHeader, short), inHeader,
           WantsDefault(ls, n + 1), config.Default = 0
    PROVE  Means(ls, n + 1, [config EXCEPT !.Default = Len(config.Images)], inHeader, short)
<1> DEFINE d == [config EXCEPT !.Default = Len(config.Images)]
           q == config.Images
<1>0. ls[n + 1].kind = "directive" /\ ls[n + 1].name = "Default"
  BY DEF WantsDefault
<1>1. SectionOf(ls, n + 1) = SectionOf(ls, n) /\ SectionOf(ls, n) # 0
  BY <1>0, InItsSection DEF Means
<1>2. Clean(ls, n) /\ DefaultAt(ls, n) = 0
  BY DEF Means
<1>3. Defaults(ls, n) = {}
  BY <1>2, DefaultNone
<1>4. LineRight(ls, n + 1)
  BY <1>0, <1>1 DEF LineRight
<1>5. Clean(ls, n + 1)
  BY <1>2, <1>3, <1>4, CleanStep
<1>6. Len(q) = SectionOf(ls, n + 1)
  BY <1>1, ImgIs
<1>7. DefaultAt(ls, n + 1) = Len(q)
  BY <1>3, <1>6, DefaultStep
<1>8. TimeoutAt(ls, n + 1) = TimeoutAt(ls, n)
  <2>1. ~Says(ls, n + 1, 0, "Timeout")
    BY <1>0 DEF Says
  <2> QED BY <2>1, TimeoutStep
<1>9. ASSUME NEW name, NEW s
      PROVE  ImageAt(name, ls, n + 1, s) = ImageAt(name, ls, n, s)
  <2>1. /\ ~Says(ls, n + 1, s, "Command") /\ ~Says(ls, n + 1, s, "Address")
        /\ ~Says(ls, n + 1, s, "Drive") /\ ~Says(ls, n + 1, s, "Module")
        /\ ~Says(ls, n + 1, s, "Type")
    BY <1>0 DEF Says
  <2> QED BY <2>1, PartsKept, Zenon DEF ImageAt
<1>10. ImagesAre(ls, n + 1, q, short)
  <2>1. ls[n + 1].kind # "header" /\ ImagesAre(ls, n, q, short)
    BY <1>0 DEF Means
  <2> HIDE DEF q
  <2> QED BY <1>9, <2>1, ImagesKept, Zenon
<1>11. d = [Timeout |-> TimeoutAt(ls, n), Default |-> Len(q), Images |-> q]
  BY DEF Means
<1>12. d.Images = q
  BY <1>11
<1>13. inHeader = (SectionOf(ls, n + 1) # 0)
  BY <1>1, Zenon DEF Means
<1> HIDE DEF d, q
<1> QED BY <1>5, <1>7, <1>8, <1>10, <1>11, <1>12, <1>13, Zenon DEF Means, d, q

\* A directive in a section (config.c 47-145).
LEMMA SectionMeans ==
    ASSUME NEW ls, NEW n \in Nat, Means(ls, n, config, inHeader, short), inHeader,
           ls[n + 1].kind = "directive", ls[n + 1].name # "Timeout", NumberRead(ls[n + 1]),
           NEW d \in InSection(ls[n + 1].name, ls[n + 1].value)
    PROVE  Means(ls, n + 1, d, inHeader, short)
<1> DEFINE p == ls[n + 1].name
           v == ls[n + 1].value
           x == ImageAt(config.Images[1].Name, ls, n + 1, SectionOf(ls, n))
<1>0. p # "Default" => Means(ls, n + 1, WithImage(x), inHeader, short)
  BY ChangeMeans
<1>1. /\ p = "Command" => x = [img EXCEPT !.Command = v.word]
      /\ p = "Type" /\ v.word \in Types => x = [img EXCEPT !.Type = v.word]
      /\ p = "Address" => x = [img EXCEPT !.Address = AddressOf(v)]
      /\ p = "Drive" => x = [img EXCEPT !.Drive = DriveOf(v)]
      /\ p = "Module" => x = [img EXCEPT !.Modules = Append(@, v.word)]
  BY ImageSaid, ZenonT(60)
<1>2. p # "Default" => ~WantsDefault(ls, n + 1)
  BY DEF WantsDefault
<1>3. CASE p = "Address"
  <2>1. PICK y \in strtoul(v, 0) : d = WithImage([img EXCEPT !.Address = IF y.none THEN 0 ELSE y.val])
    BY <1>3 DEF InSection
  <2>2. (IF y.none THEN 0 ELSE y.val) = AddressOf(v)
    BY <1>3, NumberStored
  <2>3. d = WithImage(x)
    BY <1>1, <1>3, <2>1, <2>2, Zenon
  <2> QED BY <1>0, <1>3, <2>3
<1>4. CASE p = "Command"
  <2>1. d = WithImage([img EXCEPT !.Command = v.word])
    BY <1>4 DEF InSection
  <2> QED BY <1>0, <1>1, <1>4, <2>1
<1>5. CASE p = "Drive"
  <2>1. PICK y \in strtoul(v, 0) :
              d = WithImage([img EXCEPT !.Drive = IF y.none \/ y.val > 255 THEN NoDrive ELSE y.val])
    BY <1>5 DEF InSection
  <2>2. (IF y.none \/ y.val > 255 THEN NoDrive ELSE y.val) = DriveOf(v)
    BY <1>5, NumberStored
  <2>3. d = WithImage(x)
    BY <1>1, <1>5, <2>1, <2>2, Zenon
  <2> QED BY <1>0, <1>5, <2>3
<1>6. CASE p = "Module"
  <2>1. d = WithImage([img EXCEPT !.Modules = Append(@, v.word)])
    BY <1>6 DEF InSection
  <2> QED BY <1>0, <1>1, <1>6, <2>1
<1>7. CASE p = "Type"
  <2>1. d = IF v.word \in Types THEN WithImage([img EXCEPT !.Type = v.word]) ELSE config
    BY <1>7 DEF InSection
  <2>2. CASE v.word \in Types
    BY <1>0, <1>1, <1>7, <2>1, <2>2
  <2>3. CASE v.word \notin Types
    BY <1>2, <1>7, <2>1, <2>3, OtherMeans
  <2> QED BY <2>2, <2>3
<1>8. CASE p = "Default"
  <2>1. d \in UNION {IF ~yes THEN {config}
                     ELSE IF config.Default # 0 THEN {}
                     ELSE {[config EXCEPT !.Default = Len(config.Images)]} :
                       yes \in SaysYes(v)}
    BY <1>8 DEF InSection
  <2>2. SaysYes(v) = {Yes(v)}
    BY <1>8 DEF NumberRead
  <2>3. d \in IF ~Yes(v) THEN {config}
              ELSE IF config.Default # 0 THEN {}
              ELSE {[config EXCEPT !.Default = Len(config.Images)]}
    BY <2>1, <2>2, Zenon
  <2>4. CASE Yes(v)
    <3>1. WantsDefault(ls, n + 1)
      BY <1>8, <2>4 DEF WantsDefault
    <3>2. config.Default = 0 /\ d = [config EXCEPT !.Default = Len(config.Images)]
      BY <2>3, <2>4, Zenon
    <3> QED BY <3>1, <3>2, AskMeans
  <2>5. CASE ~Yes(v)
    <3>1. ~WantsDefault(ls, n + 1)
      BY <2>5 DEF WantsDefault
    <3>2. d = config
      BY <2>3, <2>5, Zenon
    <3>3. ls[n + 1].name \notin ImageProperties
      BY <1>8 DEF ImageProperties
    <3> QED BY <3>1, <3>2, <3>3, OtherMeans
  <2> QED BY <2>4, <2>5
<1>9. CASE p \notin ImageProperties /\ p # "Default"
  <2>1. d = config
    BY <1>9 DEF InSection, ImageProperties
  <2> QED BY <1>2, <1>9, <2>1, OtherMeans
<1> QED BY <1>3, <1>4, <1>5, <1>6, <1>7, <1>8, <1>9 DEF ImageProperties

\* The timeout, before the first section (config.c 22-41).
LEMMA TimeoutMeans ==
    ASSUME NEW ls, NEW n \in Nat, Means(ls, n, config, inHeader, short), ~inHeader,
           ls[n + 1].kind = "directive", ls[n + 1].name = "Timeout", NumberRead(ls[n + 1]),
           NEW x \in strtoul(ls[n + 1].value, 0), ~x.none
    PROVE  Means(ls, n + 1, [config EXCEPT !.Timeout = x.val], inHeader, short)
<1> DEFINE d == [config EXCEPT !.Timeout = x.val]
           q == config.Images
           v == ls[n + 1].value
<1>1. SectionOf(ls, n + 1) = SectionOf(ls, n) /\ SectionOf(ls, n) = 0
  BY InItsSection DEF Means
<1>2. IsNumeral(v) /\ x.val = AutoNumeral(v)
  BY NumberStored
<1>3. Says(ls, n + 1, 0, "Timeout")
  BY <1>1 DEF Says
<1>4. TimeoutAt(ls, n + 1) = x.val
  BY <1>2, <1>3, TimeoutStep
<1>5. ~WantsDefault(ls, n + 1)
  BY DEF WantsDefault
<1>6. DefaultAt(ls, n + 1) = DefaultAt(ls, n)
  BY <1>5, DefaultStep
<1>7. LineRight(ls, n + 1)
  BY <1>1, <1>2 DEF LineRight
<1>8. Clean(ls, n + 1)
  BY <1>5, <1>7, CleanStep DEF Means
<1>9. ASSUME NEW name, NEW s
      PROVE  ImageAt(name, ls, n + 1, s) = ImageAt(name, ls, n, s)
  <2>1. /\ ~Says(ls, n + 1, s, "Command") /\ ~Says(ls, n + 1, s, "Address")
        /\ ~Says(ls, n + 1, s, "Drive") /\ ~Says(ls, n + 1, s, "Module")
        /\ ~Says(ls, n + 1, s, "Type")
    BY DEF Says
  <2> QED BY <2>1, PartsKept, Zenon DEF ImageAt
<1>10. ImagesAre(ls, n + 1, q, short)
  <2>1. ls[n + 1].kind # "header" /\ ImagesAre(ls, n, q, short)
    BY DEF Means
  <2> HIDE DEF q
  <2> QED BY <1>9, <2>1, ImagesKept, Zenon
<1>11. d = [Timeout |-> x.val, Default |-> DefaultAt(ls, n), Images |-> q]
  BY DEF Means
<1>12. d.Images = q
  BY <1>11
<1>13. inHeader = (SectionOf(ls, n + 1) # 0)
  BY <1>1, Zenon DEF Means
<1> HIDE DEF d, q
<1> QED BY <1>4, <1>6, <1>8, <1>10, <1>11, <1>12, <1>13, Zenon DEF Means, d, q

\* ParseDirective makes of one directive what it means.
LEMMA DirectiveMeans ==
    ASSUME NEW ls, NEW n \in Nat, Means(ls, n, config, inHeader, short),
           ls[n + 1].kind = "directive", NumberRead(ls[n + 1]),
           NEW d \in ParseDirective(ls[n + 1].name, ls[n + 1].value)
    PROVE  Means(ls, n + 1, d, inHeader, short)
<1> DEFINE p == ls[n + 1].name
           v == ls[n + 1].value
<1>0. inHeader \in BOOLEAN
  BY DEF Means
<1>1. CASE p = "Timeout" /\ ~inHeader
  <2>1. PICK x \in {y \in strtoul(v, 0) : ~y.none} : d = [config EXCEPT !.Timeout = x.val]
    BY <1>1 DEF ParseDirective
  <2> QED BY <1>1, <2>1, TimeoutMeans
<1>2. CASE p # "Timeout" /\ inHeader
  <2>1. d \in InSection(p, v)
    BY <1>2 DEF ParseDirective
  <2> QED BY <1>2, <2>1, SectionMeans
<1>3. CASE (p = "Timeout" /\ inHeader) \/ (p # "Timeout" /\ ~inHeader)
  BY <1>3 DEF ParseDirective
<1> QED BY <1>0, <1>1, <1>2, <1>3

\* A directive is refused because it is wrong.
LEMMA DirectiveRefused ==
    ASSUME NEW ls, NEW n \in Nat, Means(ls, n, config, inHeader, short),
           ls[n + 1].kind = "directive", NumberRead(ls[n + 1]),
           ParseDirective(ls[n + 1].name, ls[n + 1].value) = {}
    PROVE  ~(LineRight(ls, n + 1) /\ (WantsDefault(ls, n + 1) => Defaults(ls, n) = {}))
<1> DEFINE p == ls[n + 1].name
           v == ls[n + 1].value
<1>0. SectionOf(ls, n + 1) = SectionOf(ls, n) /\ inHeader = (SectionOf(ls, n) # 0)
  BY InItsSection DEF Means
<1>1. CASE p = "Timeout" /\ ~inHeader
  <2>1. {[config EXCEPT !.Timeout = x.val] : x \in {y \in strtoul(v, 0) : ~y.none}} = {}
    BY <1>1 DEF ParseDirective
  <2>2. {y \in strtoul(v, 0) : ~y.none} = {}
    BY <2>1, Zenon
  <2>3. ~IsNumeral(v)
    BY <1>1, <2>2, NumberStored
  <2> QED BY <1>1, <2>3 DEF LineRight
<1>2. CASE p # "Timeout" /\ inHeader
  <2>1. InSection(p, v) = {}
    BY <1>2 DEF ParseDirective
  <2>2. p \in {"Address", "Drive"} => strtoul(v, 0) # {}
    BY DEF NumberRead
  <2>3. p = "Default"
    <3>1. p # "Address"
      <4> SUFFICES ASSUME p = "Address" PROVE FALSE
        OBVIOUS
      <4>1. {WithImage([img EXCEPT !.Address = IF x.none THEN 0 ELSE x.val]) :
                x \in strtoul(v, 0)} = {}
        BY <2>1 DEF InSection
      <4> QED BY <2>2, <4>1
    <3>2. p # "Drive"
      <4> SUFFICES ASSUME p = "Drive" PROVE FALSE
        OBVIOUS
      <4>1. {WithImage([img EXCEPT !.Drive = IF x.none \/ x.val > 255 THEN NoDrive ELSE x.val]) :
                x \in strtoul(v, 0)} = {}
        BY <2>1 DEF InSection
      <4> QED BY <2>2, <4>1
    <3>3. p # "Command" /\ p # "Module" /\ p # "Type"
      BY <2>1 DEF InSection
    <3> QED BY <2>1, <3>1, <3>2, <3>3 DEF InSection
  <2>4. UNION {IF ~yes THEN {config}
               ELSE IF config.Default # 0 THEN {}
               ELSE {[config EXCEPT !.Default = Len(config.Images)]} :
                 yes \in SaysYes(v)} = {}
    BY <2>1, <2>3 DEF InSection
  <2>5. SaysYes(v) = {Yes(v)}
    BY <2>3 DEF NumberRead
  <2>6. Yes(v) /\ config.Default # 0
    <3> DEFINE E(yes) == IF ~yes THEN {config}
                         ELSE IF config.Default # 0 THEN {}
                         ELSE {[config EXCEPT !.Default = Len(config.Images)]}
    <3>1. UNION {E(yes) : yes \in {Yes(v)}} = {}
      BY <2>4, <2>5, Zenon
    <3> HIDE DEF E
    <3>2. E(Yes(v)) = {}
      BY <3>1, Zenon
    <3>3. config \in {config} /\ [config EXCEPT !.Default = Len(config.Images)]
                                  \in {[config EXCEPT !.Default = Len(config.Images)]}
      OBVIOUS
    <3> QED BY <3>2, <3>3, Zenon DEF E
  <2>7. WantsDefault(ls, n + 1)
    BY <2>3, <2>6 DEF WantsDefault
  <2>8. Clean(ls, n) /\ DefaultAt(ls, n) # 0
    BY <2>6 DEF Means
  <2>9. Defaults(ls, n) # {}
    BY <2>8, DefaultNone
  <2> QED BY <2>7, <2>9
<1>3. CASE (p = "Timeout" /\ inHeader) \/ (p # "Timeout" /\ ~inHeader)
  BY <1>0, <1>3 DEF LineRight
<1> QED BY <1>0, <1>1, <1>2, <1>3

\* A blank line or a comment.
LEMMA BlankMeans ==
    ASSUME NEW ls, NEW n \in Nat, NEW c, NEW h, NEW sh, Means(ls, n, c, h, sh),
           ls[n + 1].kind = "blank"
    PROVE  Means(ls, n + 1, c, h, sh)
<1>1. ls[n + 1].kind # "header" /\ LineRight(ls, n + 1) /\ ~WantsDefault(ls, n + 1)
  BY DEF LineRight, WantsDefault
<1>2. \A s, p : ~Says(ls, n + 1, s, p)
  BY DEF Says
<1>3. \A name, s : ImageAt(name, ls, n + 1, s) = ImageAt(name, ls, n, s)
  BY <1>2, PartsKept, Zenon DEF ImageAt
<1> QED BY <1>1, <1>2, <1>3, StayMeans, Zenon

\* A header (config.c 273-298).
LEMMA HeaderMeans ==
    ASSUME NEW ls, NEW n \in Nat, NEW c, NEW h, NEW sh \in BOOLEAN, Means(ls, n, c, h, sh),
           ls[n + 1].kind = "header", NEW name, NEW d,
           d = [c EXCEPT !.Images = <<NewImage(name)>> \o @],
           NEW lost \in BOOLEAN, lost \/ name = ls[n + 1].name, sh => lost
    PROVE  Means(ls, n + 1, d, TRUE, lost)
<1> DEFINE q == c.Images
           x == NewImage(name)
           t == <<x>> \o q
<1>1. SectionOf(ls, n + 1) = SectionOf(ls, n) + 1 /\ SectionOf(ls, n) \in Nat
  BY SectionStep, SectionType
<1>2. TRUE = (SectionOf(ls, n + 1) # 0)
  BY <1>1
<1>3. LineRight(ls, n + 1) /\ ~WantsDefault(ls, n + 1) /\ ~Says(ls, n + 1, 0, "Timeout")
  BY DEF LineRight, WantsDefault, Says
<1>4. Clean(ls, n + 1)
  BY <1>3, CleanStep DEF Means
<1>5. TimeoutAt(ls, n + 1) = TimeoutAt(ls, n) /\ DefaultAt(ls, n + 1) = DefaultAt(ls, n)
  BY <1>3, TimeoutStep, DefaultStep
<1>6. ImagesAre(ls, n + 1, t, lost)
  <2>1. ImagesAre(ls, n, q, sh)
    BY DEF Means
  <2>2. x = NewImage(name)
    OBVIOUS
  <2> HIDE DEF q, x
  <2> QED BY <2>1, <2>2, ImagesPushed, Zenon
<1>7. d = [Timeout |-> TimeoutAt(ls, n), Default |-> DefaultAt(ls, n), Images |-> t]
  <2> DEFINE a == TimeoutAt(ls, n)
             b == DefaultAt(ls, n)
  <2>1. d = [c EXCEPT !.Images = t]
    BY Zenon
  <2>2. c = [Timeout |-> a, Default |-> b, Images |-> q]
    BY Zenon DEF Means
  <2> HIDE DEF x, t, a, b, q
  <2>3. d = [Timeout |-> a, Default |-> b, Images |-> t]
    BY <2>1, <2>2
  <2> QED BY <2>3 DEF a, b
<1>8. d.Images = t
  BY <1>7
<1> HIDE DEF t, q, x
<1> QED BY <1>2, <1>4, <1>5, <1>6, <1>7, <1>8, Zenon DEF Means

(* The invariant of the parser: the configuration is what the lines so far mean. *)

\* n lines have been parsed and src holds the others.
Reading(n) ==
    /\ n + Len(src) = got
    /\ IsSeq(src) /\ src # << >>
    /\ \A i \in 1 .. Len(src) : src[i] = lines[n + i]

ConfigInv ==
    /\ lines \in ConfigFiles
    /\ got \in 0 .. Len(lines)
    /\ short \in BOOLEAN
    /\ cpc = "parse" => \E n \in Nat : Reading(n) /\ Means(lines, n, config, inHeader, short)
    /\ cpc = "validate" => Means(lines, got, config, inHeader, short)
    /\ ConfigIsMeaning

\* What is read is a beginning of the file.
LEMMA LinesSeq ==
    ASSUME ConfigInv
    PROVE  IsSeq(lines) /\ Len(lines) \in Nat /\ got \in Nat /\ got <= Len(lines)
<1>1. IsSeq(lines)
  BY ConfigAssumption DEF ConfigInv, IsSeq
<1>2. Len(lines) \in Nat
  BY <1>1 DEF IsSeq
<1> QED BY <1>1, <1>2 DEF ConfigInv

\* The line that is parsed is the next one of the file.
LEMMA LineIs ==
    ASSUME NEW n \in Nat, Reading(n), ConfigInv
    PROVE  /\ Line = lines[n + 1]
           /\ n < got /\ n + 1 \in DOMAIN lines
           /\ Tail(src) = << >> => got = n + 1
           /\ IsSeq(Tail(src))
           /\ n + 1 + Len(Tail(src)) = got
           /\ \A i \in 1 .. Len(Tail(src)) : Tail(src)[i] = lines[n + 1 + i]
<1> DEFINE S == {src[j] : j \in DOMAIN src}
           r == Tail(src)
<1>1. src \in Seq(S) /\ Len(src) \in Nat /\ Len(src) # 0 /\ n + Len(src) = got
  BY DEF Reading, IsSeq
<1>2. \A i \in 1 .. Len(src) : src[i] = lines[n + i]
  BY DEF Reading
<1>3. IsSeq(lines) /\ Len(lines) \in Nat /\ got \in Nat /\ got <= Len(lines)
  BY LinesSeq
<1> HIDE DEF S
<1>4. /\ Head(src) = src[1] /\ r \in Seq(S) /\ Len(r) = Len(src) - 1
      /\ \A i \in 1 .. Len(r) : r[i] = src[i + 1]
  BY <1>1
<1>5. 1 \in 1 .. Len(src) /\ n < got /\ n + 1 \in 1 .. Len(lines)
  BY <1>1, <1>3
<1>6. DOMAIN lines = 1 .. Len(lines)
  BY <1>3 DEF IsSeq
<1> HIDE DEF r
<1>7. IsSeq(r)
  BY <1>4, SeqIsSeq
<1>8. n + 1 + Len(r) = got
  BY <1>1, <1>4
<1>9. r = << >> => got = n + 1
  <2>1. r = << >> => Len(r) = 0
    OBVIOUS
  <2> QED BY <1>8, <2>1
<1>10. ASSUME NEW i \in 1 .. Len(r) PROVE r[i] = lines[n + 1 + i]
  <2>1. i + 1 \in 1 .. Len(src) /\ n + (i + 1) = n + 1 + i
    BY <1>1, <1>4
  <2> QED BY <1>2, <1>4, <2>1
<1>11. Line = lines[n + 1]
  BY <1>2, <1>4, <1>5 DEF Line
<1> QED BY <1>5, <1>6, <1>7, <1>8, <1>9, <1>10, <1>11 DEF r

\* What is neither accepted nor rejected says nothing yet.
LEMMA NotYet ==
    ASSUME cpc \notin {"accepted", "rejected"}
    PROVE  ConfigIsMeaning
BY DEF ConfigIsMeaning

\* A line has been parsed.
LEMMA MovedOn ==
    ASSUME ConfigInv, NEW n \in Nat, Reading(n), MoveOn, short' \in BOOLEAN,
           Means(lines, n + 1, config', inHeader', short')
    PROVE  ConfigInv'
<1>1. /\ lines' = lines /\ got' = got /\ src' = Tail(src)
      /\ cpc' = IF Tail(src) = << >> THEN "validate" ELSE "parse"
  BY DEF MoveOn
<1>2. ConfigIsMeaning'
  <2>1. cpc' \notin {"accepted", "rejected"}
    BY <1>1
  <2> QED BY <2>1 DEF ConfigIsMeaning
<1>3. lines' \in ConfigFiles /\ got' \in 0 .. Len(lines')
  BY <1>1 DEF ConfigInv
<1>4. CASE Tail(src) = << >>
  <2>1. got = n + 1 /\ cpc' = "validate"
    BY <1>1, <1>4, LineIs
  <2> QED BY <1>1, <1>2, <1>3, <2>1 DEF ConfigInv
<1>5. CASE Tail(src) # << >>
  <2>1. cpc' = "parse" /\ n + 1 \in Nat
    BY <1>1, <1>5
  <2>2. Reading(n + 1)'
    BY <1>1, <1>5, LineIs DEF Reading
  <2>3. Means(lines', n + 1, config', inHeader', short')
    BY <1>1
  <2> QED BY <1>2, <1>3, <2>1, <2>2, <2>3 DEF ConfigInv
<1> QED BY <1>4, <1>5

\* The file is rejected for what is wrong with it, or for want of memory.
LEMMA RejectedRight ==
    ASSUME ConfigInv, Rejected, short' \in BOOLEAN,
           short' \/ ~WellFormed(lines, got)
    PROVE  ConfigInv'
<1>1. lines' = lines /\ got' = got /\ cpc' = "rejected"
  BY DEF Rejected
<1>2. short' \/ ~WellFormed(lines', got')
  BY <1>1
<1>3. ConfigIsMeaning'
  BY <1>1, <1>2 DEF ConfigIsMeaning
<1> QED BY <1>1, <1>3 DEF ConfigInv

\* An empty configuration is what no lines mean.
LEMMA NothingMeans ==
    ASSUME NEW ls, NEW sh
    PROVE  Means(ls, 0, [Timeout |-> 120, Default |-> 0, Images |-> << >>], FALSE, sh)
<1> DEFINE c == [Timeout |-> 120, Default |-> 0, Images |-> << >>]
<1>1. SectionOf(ls, 0) = 0
  BY NoHeaders
<1>2. Gives(ls, 0, 0, "Timeout") = {} /\ Defaults(ls, 0) = {}
  BY DEF Gives, Defaults
<1>3. TimeoutAt(ls, 0) = 120 /\ DefaultAt(ls, 0) = 0
  BY <1>2 DEF TimeoutAt, DefaultAt, LastOr
<1>4. ImagesAre(ls, 0, << >>, sh)
  <2>1. IsSeq(<< >>) /\ Len(<< >>) = 0
    BY DEF IsSeq
  <2>2. \A j \in 1 .. 0 : FALSE
    OBVIOUS
  <2> QED BY <1>1, <2>1, <2>2 DEF ImagesAre
<1>5. Clean(ls, 0)
  <2>1. \A j \in 1 .. 0 : FALSE
    OBVIOUS
  <2> QED BY <1>2, <2>1 DEF Clean
<1>6. c.Images = << >> /\ FALSE = (SectionOf(ls, 0) # 0)
  BY <1>1
<1> QED BY <1>3, <1>4, <1>5, <1>6 DEF Means

\* Before the first line the configuration is empty, and so is its meaning.
LEMMA ReadConfigInv ==
    ASSUME ConfigInv, ReadConfig
    PROVE  ConfigInv'
<1>1. PICK n \in 0 .. Len(lines) : /\ src' = SubSeq(lines, 1, n) /\ got' = n
                                   /\ cpc' = IF n = 0 THEN "rejected" ELSE "parse"
  BY DEF ReadConfig
<1>2. /\ lines' = lines /\ short' = short /\ inHeader' = FALSE
      /\ config' = [Timeout |-> 120, Default |-> 0, Images |-> << >>]
  BY DEF ReadConfig
<1>3. lines' \in ConfigFiles /\ got' \in 0 .. Len(lines') /\ short' \in BOOLEAN
  BY <1>1, <1>2 DEF ConfigInv
<1>4. cpc' # "validate"
  BY <1>1
<1>5. CASE n = 0
  <2>1. cpc' = "rejected" /\ got' = 0
    BY <1>1, <1>5
  <2>2. ConfigIsMeaning'
    BY <2>1 DEF ConfigIsMeaning
  <2> QED BY <1>3, <2>1, <2>2 DEF ConfigInv
<1>6. CASE n # 0
  <2>1. cpc' = "parse" /\ n \in Nat /\ n <= Len(lines) /\ IsSeq(lines) /\ Len(lines) \in Nat
    BY <1>1, <1>6, LinesSeq
  <2>2. ConfigIsMeaning'
    BY <2>1 DEF ConfigIsMeaning
  <2>3. Reading(0)'
    <3> DEFINE S == {lines[j] : j \in DOMAIN lines}
               r == SubSeq(lines, 1, n)
    <3>1. lines \in Seq(S)
      BY <2>1 DEF IsSeq
    <3> HIDE DEF S
    <3>2. r \in Seq(S) /\ Len(r) = n /\ \A i \in 1 .. n : r[i] = lines[i]
      BY <1>6, <2>1, <3>1
    <3>3. \A i \in 1 .. n : 0 + i = i
      OBVIOUS
    <3>4. r # << >>
      BY <1>6, <3>2
    <3> HIDE DEF r
    <3>5. IsSeq(r) /\ 0 + Len(r) = n /\ \A i \in 1 .. Len(r) : r[i] = lines[0 + i]
      BY <2>1, <3>2, <3>3, SeqIsSeq
    <3>6. src' = r /\ got' = n /\ lines' = lines
      BY <1>1, <1>2 DEF r
    <3> QED BY <3>4, <3>5, <3>6 DEF Reading
  <2>4. Means(lines', 0, config', inHeader', short')
    BY <1>2, NothingMeans
  <2>5. 0 \in Nat
    OBVIOUS
  <2> QED BY <1>3, <2>1, <2>2, <2>3, <2>4, <2>5 DEF ConfigInv
<1> QED BY <1>5, <1>6

\* One lemma for each step of ParseConfigFile.
LEMMA ParseLineInv ==
    ASSUME NumbersRead, ConfigInv, ParseLine
    PROVE  ConfigInv'
<1>1. PICK n \in Nat : Reading(n) /\ Means(lines, n, config, inHeader, short)
  BY DEF ParseLine, ConfigInv
<1>2. Line = lines[n + 1] /\ n + 1 \in DOMAIN lines
  BY <1>1, LineIs
<1>3. /\ lines[n + 1].kind = "directive"
      /\ config' \in ParseDirective(lines[n + 1].name, lines[n + 1].value)
      /\ MoveOn /\ short' = short /\ inHeader' = inHeader
  BY <1>2 DEF ParseLine, NextLine
<1>4. NumberRead(lines[n + 1])
  BY <1>2, <1>3 DEF NumbersRead, NumbersReadIn, ConfigInv
<1>5. Means(lines, n + 1, config', inHeader, short)
  BY <1>1, <1>3, <1>4, DirectiveMeans
<1>6. short' \in BOOLEAN /\ Means(lines, n + 1, config', inHeader', short')
  BY <1>3, <1>5 DEF ConfigInv
<1> QED BY <1>1, <1>3, <1>6, MovedOn

LEMMA ParseBlankInv ==
    ASSUME ConfigInv, ParseBlank
    PROVE  ConfigInv'
<1>1. PICK n \in Nat : Reading(n) /\ Means(lines, n, config, inHeader, short)
  BY DEF ParseBlank, ConfigInv
<1>2. Line = lines[n + 1]
  BY <1>1, LineIs
<1>3. lines[n + 1].kind = "blank" /\ MoveOn /\ UNCHANGED <<short, config, inHeader>>
  BY <1>2 DEF ParseBlank, NextLine
<1>4. Means(lines, n + 1, config, inHeader, short)
  BY <1>1, <1>3, BlankMeans
<1>5. short' \in BOOLEAN /\ Means(lines, n + 1, config', inHeader', short')
  BY <1>3, <1>4 DEF ConfigInv
<1> QED BY <1>1, <1>3, <1>5, MovedOn

LEMMA ParseHeaderInv ==
    ASSUME ConfigInv, ParseHeader
    PROVE  ConfigInv'
<1>1. PICK n \in Nat : Reading(n) /\ Means(lines, n, config, inHeader, short)
  BY DEF ParseHeader, ConfigInv
<1>2. Line = lines[n + 1]
  BY <1>1, LineIs
<1>3. lines[n + 1].kind = "header" /\ MoveOn /\ inHeader' = TRUE
  BY <1>2 DEF ParseHeader
<1>4. PICK unnamed \in {FALSE, MemoryMayFail} :
           /\ config' = [config EXCEPT !.Images =
                             <<NewImage(IF unnamed THEN None ELSE Line.name)>> \o @]
           /\ short' = (short \/ unnamed)
  BY DEF ParseHeader
<1>5. unnamed \in BOOLEAN /\ short \in BOOLEAN
  BY ConfigAssumption DEF ConfigInv
<1> DEFINE name == IF unnamed THEN None ELSE Line.name
           lost == short \/ unnamed
           d == [config EXCEPT !.Images = <<NewImage(name)>> \o @]
<1>6. lost \in BOOLEAN /\ (lost \/ name = lines[n + 1].name) /\ (short => lost)
  BY <1>2, <1>5, Zenon
<1>7. config' = d /\ short' = lost
  BY <1>4
<1> HIDE DEF name, lost
<1>8. Means(lines, n + 1, d, TRUE, lost)
  BY <1>1, <1>3, <1>5, <1>6, HeaderMeans
<1>9. short' \in BOOLEAN /\ Means(lines, n + 1, config', inHeader', short')
  BY <1>3, <1>6, <1>7, <1>8, Zenon
<1> QED BY <1>1, <1>3, <1>9, MovedOn

LEMMA ParseErrorInv ==
    ASSUME NumbersRead, ConfigInv, ParseError
    PROVE  ConfigInv'
<1>1. PICK n \in Nat : Reading(n) /\ Means(lines, n, config, inHeader, short)
  BY DEF ParseError, ConfigInv
<1>2. Line = lines[n + 1] /\ n + 1 \in DOMAIN lines /\ n < got /\ got \in Nat
  BY <1>1, LineIs, LinesSeq
<1>3. ~(LineRight(lines, n + 1) /\ (WantsDefault(lines, n + 1) => Defaults(lines, n) = {}))
  <2>1. CASE lines[n + 1].kind = "other"
    BY <2>1 DEF LineRight
  <2>2. CASE /\ lines[n + 1].kind = "directive"
             /\ ParseDirective(lines[n + 1].name, lines[n + 1].value) = {}
    <3>1. NumberRead(lines[n + 1])
      BY <1>2, <2>2 DEF NumbersRead, NumbersReadIn, ConfigInv
    <3> QED BY <1>1, <2>2, <3>1, DirectiveRefused
  <2> QED BY <1>2, <2>1, <2>2 DEF ParseError
<1>4. ~Clean(lines, got)
  BY <1>2, <1>3, CleanSoFar
<1>5. ~WellFormed(lines, got)
  BY <1>4, WellFormedIs
<1>6. Rejected /\ short' \in BOOLEAN
  BY DEF ParseError, ConfigInv
<1> QED BY <1>5, <1>6, RejectedRight

LEMMA NoMemoryInv ==
    ASSUME ConfigInv, OutOfMemory
    PROVE  ConfigInv'
<1>1. Rejected /\ short' = TRUE
  BY DEF OutOfMemory
<1> QED BY <1>1, RejectedRight

\* Whether an image is complete is no matter of its name.
LEMMA CompleteIs ==
    ASSUME NEW a, NEW ls, NEW n, NEW s
    PROVE  Complete(ImageAt(a, ls, n, s))
             <=> /\ CommandAt(ls, n, s) # None
                 /\ TypeAt(ls, n, s) = "Binary" => AddressAt(ls, n, s) # 0
<1> DEFINE i == ImageAt(a, ls, n, s)
<1>1. i.Command = CommandAt(ls, n, s) /\ i.Type = TypeAt(ls, n, s) /\ i.Address = AddressAt(ls, n, s)
  BY DEF ImageAt
<1> HIDE DEF i
<1>2. Complete(i) <=> i.Command # None /\ (i.Type = "Binary" => i.Address # 0)
  BY DEF Complete
<1>3. Complete(i) <=> /\ CommandAt(ls, n, s) # None
                      /\ TypeAt(ls, n, s) = "Binary" => AddressAt(ls, n, s) # 0
  BY <1>1, <1>2, Zenon
<1> QED BY <1>3 DEF i

\* All images of the list are complete if those of all sections are.
LEMMA AllComplete ==
    ASSUME NEW ls, NEW n \in Nat, NEW q, NEW sh, ImagesAre(ls, n, q, sh)
    PROVE  (\A k \in DOMAIN q : Complete(q[k]))
             <=> \A s \in 1 .. SectionOf(ls, n) : Complete(ImageOf(ls, n, s))
<1> DEFINE N == SectionOf(ls, n)
<1>1. N \in Nat /\ IsSeq(q) /\ Len(q) = N
  BY SectionType DEF ImagesAre
<1>2. DOMAIN q = 1 .. N
  BY <1>1 DEF IsSeq
<1>3. \A k \in 1 .. N : q[k] = ImageAt(q[k].Name, ls, n, N + 1 - k)
  BY <1>1, Zenon DEF ImagesAre
<1>4. ASSUME NEW k \in 1 .. N
      PROVE  Complete(q[k]) <=> Complete(ImageOf(ls, n, N + 1 - k))
  <2>1. ImageOf(ls, n, N + 1 - k) = ImageAt(NameAt(ls, n, N + 1 - k), ls, n, N + 1 - k)
    BY ImageOfIs
  <2> DEFINE s == N + 1 - k
  <2> HIDE DEF s
  <2>2. \A a, b : Complete(ImageAt(a, ls, n, s)) <=> Complete(ImageAt(b, ls, n, s))
    BY CompleteIs, Zenon
  <2> QED BY <1>3, <2>1, <2>2, Zenon DEF s
<1> HIDE DEF N
<1>5. ASSUME \A k \in 1 .. N : Complete(q[k]), NEW s \in 1 .. N
      PROVE  Complete(ImageOf(ls, n, s))
  <2> DEFINE k == N + 1 - s
  <2>1. k \in 1 .. N /\ N + 1 - k = s
    BY <1>1
  <2> HIDE DEF k
  <2> QED BY <1>4, <1>5, <2>1
<1>6. ASSUME \A s \in 1 .. N : Complete(ImageOf(ls, n, s)), NEW k \in 1 .. N
      PROVE  Complete(q[k])
  <2>1. N + 1 - k \in 1 .. N
    BY <1>1
  <2> QED BY <1>4, <1>6, <2>1
<1>7. (\A k \in 1 .. N : Complete(q[k])) <=> \A s \in 1 .. N : Complete(ImageOf(ls, n, s))
  BY <1>5, <1>6
<1> QED BY <1>2, <1>7, Zenon DEF N

NoName(i) == [i EXCEPT !.Name = None]

NoNamesIn(q) == [k \in DOMAIN q |-> NoName(q[k])]

ImagesOf(ls, n) ==
    [j \in 1 .. SectionOf(ls, n) |-> ImageOf(ls, n, SectionOf(ls, n) + 1 - j)]

\* The images are the ones that the lines mean, at least without their names.
LEMMA ImagesMeant ==
    ASSUME NEW ls, NEW n \in Nat, NEW q, NEW sh, ImagesAre(ls, n, q, sh)
    PROVE  /\ NoNamesIn(q) = NoNamesIn(ImagesOf(ls, n))
           /\ sh \/ q = ImagesOf(ls, n)
<1> DEFINE N == SectionOf(ls, n)
           r == ImagesOf(ls, n)
<1>0. r = [j \in 1 .. N |-> ImageOf(ls, n, N + 1 - j)]
  BY DEF ImagesOf
<1> HIDE DEF r
<1>1. N \in Nat /\ IsSeq(q) /\ Len(q) = N
  BY SectionType DEF ImagesAre
<1>2. DOMAIN q = 1 .. N /\ DOMAIN r = 1 .. N /\ q = [j \in 1 .. N |-> q[j]]
  BY <1>0, <1>1 DEF IsSeq
<1>3. \A k \in 1 .. N : /\ q[k] = ImageAt(q[k].Name, ls, n, N + 1 - k)
                        /\ sh \/ q[k].Name = NameAt(ls, n, N + 1 - k)
  BY <1>1, Zenon DEF ImagesAre
<1>4. \A k \in 1 .. N : r[k] = ImageAt(NameAt(ls, n, N + 1 - k), ls, n, N + 1 - k)
  BY <1>0, ImageOfIs
<1>5. \A a, s : NoName(ImageAt(a, ls, n, s)) = ImageAt(None, ls, n, s)
  BY DEF ImageAt, NoName
<1> HIDE DEF N
<1>6. ASSUME NEW k \in 1 .. N
      PROVE  /\ NoName(q[k]) = NoName(r[k])
             /\ sh \/ q[k] = r[k]
  <2>1. NoName(q[k]) = ImageAt(None, ls, n, N + 1 - k)
    BY <1>3, <1>5, Zenon
  <2>2. NoName(r[k]) = ImageAt(None, ls, n, N + 1 - k)
    BY <1>4, <1>5, Zenon
  <2>3. sh \/ q[k] = r[k]
    BY <1>3, <1>4, Zenon
  <2> QED BY <2>1, <2>2, <2>3, Zenon
<1>7. NoNamesIn(q) = NoNamesIn(r)
  BY <1>2, <1>6, Zenon DEF NoNamesIn
<1>8. sh \/ q = r
  <2>1. r = [j \in 1 .. N |-> r[j]]
    BY <1>0 DEF N
  <2> QED BY <1>2, <1>6, <2>1, Zenon
<1> QED BY <1>7, <1>8 DEF r

\* What ValidateConfig accepts is complete, and its default is what the file says.
LEMMA ValidateConfigInv ==
    ASSUME ConfigInv, ValidateConfig
    PROVE  ConfigInv'
<1> DEFINE q == config.Images
           N == SectionOf(lines, got)
           r == ImagesOf(lines, got)
           a == TimeoutAt(lines, got)
           b == DefaultAt(lines, got)
<1>1. Means(lines, got, config, inHeader, short) /\ got \in Nat
  BY LinesSeq DEF ValidateConfig, ConfigInv
<1>2. UNCHANGED <<lines, src, inHeader, got, short>>
  BY DEF ValidateConfig
<1>3. ImagesAre(lines, got, q, short) /\ Clean(lines, got)
      /\ config = [Timeout |-> a, Default |-> b, Images |-> q]
  BY <1>1, Zenon DEF Means
<1>4. (\A k \in DOMAIN q : Complete(q[k])) <=> WellFormed(lines, got)
  <2> HIDE DEF q
  <2>1. (\A k \in DOMAIN q : Complete(q[k])) <=> \A s \in 1 .. N : Complete(ImageOf(lines, got, s))
    BY <1>1, <1>3, AllComplete
  <2> QED BY <1>3, <2>1, WellFormedIs, Zenon
<1>5. lines' \in ConfigFiles /\ got' \in 0 .. Len(lines') /\ short' \in BOOLEAN
  BY <1>2 DEF ConfigInv
<1>6. CASE ~WellFormed(lines, got)
  <2>1. cpc' = "rejected"
    BY <1>4, <1>6 DEF ValidateConfig
  <2>2. ConfigIsMeaning'
    BY <1>2, <1>6, <2>1 DEF ConfigIsMeaning
  <2> QED BY <1>5, <2>1, <2>2 DEF ConfigInv
<1>7. CASE WellFormed(lines, got)
  <2>1. ValidateDefault
    BY <1>4, <1>7 DEF ValidateConfig
  <2>2. cpc' \in {"accepted", "chase"}
    BY <2>1 DEF ValidateDefault
  <2> DEFINE e == IF Defaults(lines, got) = {} THEN 1 ELSE SectionOf(lines, The(Defaults(lines, got)))
             m == Meaning(lines, got)
  <2>3. m = [Timeout |-> a, Default |-> e, Images |-> r]
    BY Zenon DEF Meaning, TimeoutAt, ImagesOf
  <2>4. config' = [config EXCEPT !.Default = e]
    <3>1. b = 0 <=> Defaults(lines, got) = {}
      BY <1>1, <1>3, DefaultNone
    <3>2. e = IF b # 0 THEN b ELSE 1
      BY <3>1 DEF DefaultAt
    <3>3. config.Default = b
      BY <1>3
    <3>4. config' = [config EXCEPT !.Default = IF config.Default # 0 THEN config.Default ELSE 1]
      BY <2>1 DEF ValidateDefault
    <3> QED BY <3>2, <3>3, <3>4, Zenon
  <2>5. NoNamesIn(q) = NoNamesIn(r) /\ (short \/ q = r)
    BY <1>1, <1>3, ImagesMeant
  <2>6. NoNames(config') = [config' EXCEPT !.Images = NoNamesIn(config'.Images)]
        /\ NoNames(m) = [m EXCEPT !.Images = NoNamesIn(m.Images)]
    BY Zenon DEF NoNames, NoNamesIn, NoName
  <2> HIDE DEF q, r, a, b, e, m
  <2>7. config' = [Timeout |-> a, Default |-> e, Images |-> q]
    BY <1>3, <2>4
  <2>8. NoNames(config') = [Timeout |-> a, Default |-> e, Images |-> NoNamesIn(q)]
    <3>1. config'.Images = q
      BY <2>7
    <3> QED BY <2>6, <2>7, <3>1
  <2>9. NoNames(m) = [Timeout |-> a, Default |-> e, Images |-> NoNamesIn(r)]
    <3>1. m.Images = r
      BY <2>3
    <3> QED BY <2>3, <2>6, <3>1
  <2>10. NoNames(config') = NoNames(m) /\ (short \/ config' = m)
    BY <2>3, <2>5, <2>7, <2>8, <2>9, Zenon
  <2>11. ConfigIsMeaning'
    <3>1. lines' = lines /\ got' = got /\ short' = short
      BY <1>2
    <3> QED BY <1>7, <2>2, <2>10, <3>1, Zenon DEF ConfigIsMeaning, m
  <2> QED BY <1>5, <2>2, <2>11 DEF ConfigInv
<1> QED BY <1>6, <1>7

\* The rest of main leaves the configuration alone.
LEMMA ConfigUnchanged ==
    ASSUME ConfigInv, UNCHANGED configVars
    PROVE  ConfigInv'
<1>1. UNCHANGED <<lines, cpc, src, inHeader, config, got, short>>
  BY DEF configVars
<1>2. ConfigIsMeaning' = ConfigIsMeaning
  BY <1>1, Zenon DEF ConfigIsMeaning
<1>3. \A n : Reading(n)' = Reading(n)
  BY <1>1 DEF Reading
<1> QED BY <1>1, <1>2, <1>3, Zenon DEF ConfigInv

\* All steps of the configuration.
LEMMA ConfigStepInv ==
    ASSUME NumbersRead, ConfigInv, ConfigStep
    PROVE  ConfigInv'
<1>1. CASE ReadConfig
  BY <1>1, ReadConfigInv
<1>2. CASE NoBuffer
  BY <1>2, NoMemoryInv DEF NoBuffer
<1>3. CASE ParseBlank
  BY <1>3, ParseBlankInv
<1>4. CASE ParseHeader
  BY <1>4, ParseHeaderInv
<1>5. CASE ParseLine
  BY <1>5, ParseLineInv
<1>6. CASE ParseError
  BY <1>6, ParseErrorInv
<1>7. CASE ParseNoMemory
  BY <1>7, NoMemoryInv DEF ParseNoMemory
<1>8. CASE ValidateConfig
  BY <1>8, ValidateConfigInv
<1> QED BY <1>1, <1>2, <1>3, <1>4, <1>5, <1>6, <1>7, <1>8 DEF ConfigStep

\* All steps of main.
LEMMA NextConfig ==
    ASSUME NumbersRead, ConfigInv, [MainNext]_mainVars
    PROVE  ConfigInv'
<1>1. CASE ParseConfig
  BY <1>1, ConfigStepInv DEF ParseConfig
<1>2. CASE GetMemory \/ HeapInit \/ AskForMap \/ GetMapEntry \/ GotMap
  BY <1>2, ConfigUnchanged DEF GetMemory, HeapInit, AskForMap, GetMapEntry, GotMap
<1>3. CASE OpenConfig \/ NoConfig \/ Parsed \/ OnlyImage \/ Menu \/ MenuReboot \/ LoadImage
  BY <1>3, ConfigUnchanged
     DEF OpenConfig, NoConfig, Parsed, OnlyImage, Menu, MenuReboot, LoadImage
<1>4. CASE KeyPressed \/ Ended \/ UNCHANGED mainVars
  BY <1>4, ConfigUnchanged DEF KeyPressed, Ended, mainVars
<1> QED BY <1>1, <1>2, <1>3, <1>4 DEF MainNext, Main

\* For every configuration file whose numbers strtoul reads right, wherever reading
\* stops and memory runs out: what ParseConfigFile accepts is what the lines that were
\* read mean, and it rejects only what is wrong, empty, or more than memory holds
\* (config.c).
THEOREM ConfigIsMeaningHolds == NumbersRead => (MainSpec => []ConfigIsMeaning)
<1> SUFFICES ASSUME NumbersRead PROVE MainSpec => []ConfigIsMeaning
  OBVIOUS
<1>1. MainInit => ConfigInv
  <2> SUFFICES ASSUME MainInit PROVE ConfigInv
    OBVIOUS
  <2>1. lines \in ConfigFiles /\ got = 0 /\ short = FALSE /\ cpc = "closed"
    BY DEF MainInit, ConfigInit
  <2>2. 0 \in 0 .. Len(lines)
    <3>1. Len(lines) \in Nat
      BY <2>1, ConfigAssumption
    <3> QED BY <3>1
  <2>3. ConfigIsMeaning
    BY <2>1 DEF ConfigIsMeaning
  <2> QED BY <2>1, <2>2, <2>3 DEF ConfigInv
<1>2. ConfigInv /\ [MainNext]_mainVars => ConfigInv'
  BY NextConfig
<1>3. ConfigInv => ConfigIsMeaning
  BY DEF ConfigInv
<1> QED BY <1>1, <1>2, <1>3, PTL DEF MainSpec
=============================================================================
