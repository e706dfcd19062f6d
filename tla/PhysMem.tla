------------------------------ MODULE PhysMem ------------------------------
(***************************************************************************)
(* The physical memory manager of the loader (src/src/mem.c, lines 7-199): *)
(* a singly linked list of free regions at or above 1 MB, built by         *)
(* PhysInit from what the BIOS reports, consumed by PhysAlloc (first fit)  *)
(* and refilled by PhysFree.                                               *)
(*                                                                         *)
(* The list is the sequence PhysMem, its head first; a region is a record  *)
(* [addr, size].  The nodes of the list come from malloc, which may fail.  *)
(* Addresses and sizes are 64 bit wide in the code and never come near     *)
(* that width; pointers and alignment masks are 32 bit wide, so these are  *)
(* reduced modulo Wrap (2^32 in the code).                                 *)
(***************************************************************************)
EXTENDS Naturals, Sequences, FiniteSets

CONSTANTS
    MB,             \* 0x100000: nothing below it is ever handed out
    KB,             \* MemUpper is reported in units of this many bytes
    Wrap,           \* ULONG and pointers are taken modulo this
    MemoryMap,      \* the BIOS memory map: sequence of [addr, size, type]
    HasSimple,      \* is MIF_SIMPLE_MEMORY set?
    MemUpper,       \* upper memory in KB, as the BIOS reports it
    MallocMayFail,  \* may malloc return NULL?
    Starts,         \* @Start arguments of PhysAlloc (ULONG values)
    Sizes,          \* @Size arguments
    Aligns,         \* @Align arguments
    MaxLive         \* bound: allocations outstanding at a time

Region == [addr : Nat, size : Nat]

ASSUME ParamAssumption ==
    /\ MB \in Nat \ {0}
    /\ Wrap \in Nat \ {0}
    /\ KB \in Nat \ {0}
    /\ MemoryMap \in Seq([addr : Nat, size : Nat, type : Nat])
    /\ HasSimple \in BOOLEAN
    /\ MemUpper \in Nat
    /\ MallocMayFail \in BOOLEAN
    /\ Starts \subseteq 0 .. Wrap - 1
    /\ Sizes \subseteq Nat
    /\ Aligns \subseteq Nat

VARIABLES
    PhysMem,        \* the list of free regions
    phase,          \* "map", "simple": inside PhysInit; "run": after it
    next,           \* index of the map entry PhysInit looks at
    live            \* what the callers hold: [addr, size], size as requested

vars == <<PhysMem, phase, next, live>>

----------------------------------------------------------------------------
(* Regions *)

End(r) == r.addr + r.size

Disjoint(r, s) == End(r) <= s.addr \/ End(s) <= r.addr

Max2(a, b) == IF a >= b THEN a ELSE b

Min2(a, b) == IF a <= b THEN a ELSE b

----------------------------------------------------------------------------
(* AddToPhysList *)

StartInside(cur, new) == cur.addr <= new.addr /\ new.addr <= End(cur)

EndInside(cur, new) == cur.addr <= End(new) /\ End(new) <= End(cur)

Holds(cur, new) == new.addr < cur.addr /\ End(new) > End(cur)

Joins(cur, new) ==
    StartInside(cur, new) \/ EndInside(cur, new) \/ Holds(cur, new)

\* What becomes of the region `cur` that the new one joins.
Join(cur, new) ==
    IF StartInside(cur, new)
    THEN [cur EXCEPT !.size = Max2(cur.size, End(new) - cur.addr)]
    ELSE IF EndInside(cur, new)
    THEN [addr |-> Min2(new.addr, cur.addr),
          size |-> End(cur) - Min2(new.addr, cur.addr)]
    ELSE new

\* The part of [start, start + length) that lies at or above 1 MB.
Clamp(start, length) ==
    [addr |-> Max2(start, MB), size |-> start + length - Max2(start, MB)]

FirstJoin(list, new, i) ==
    Joins(list[i], new) /\ \A j \in 1 .. i - 1 : ~Joins(list[j], new)

MutAddToPhysList(list, start, length, list2, ok) ==
    /\ ok = TRUE
    /\ list2 = IF start + length <= MB THEN list
                                       ELSE <<Clamp(start, length)>> \o list

\* One call of AddToPhysList takes `list` to `list2` and returns `ok`.  A region
\* below 1 MB is ignored; one that touches or overlaps a listed region joins
\* the first such region; any other needs a new node, at the head of the list.
AddToPhysList(list, start, length, list2, ok) ==
    LET new == Clamp(start, length) IN
    \/ /\ start + length <= MB
       /\ list2 = list
       /\ ok = TRUE
    \/ /\ start + length > MB
       /\ \E i \in DOMAIN list :
             /\ FirstJoin(list, new, i)
             /\ list2 = [list EXCEPT ![i] = Join(list[i], new)]
       /\ ok = TRUE
    \/ /\ start + length > MB
       /\ \A i \in DOMAIN list : ~Joins(list[i], new)
       /\ \/ list2 = <<new>> \o list /\ ok = TRUE
          \/ MallocMayFail /\ list2 = list /\ ok = FALSE

----------------------------------------------------------------------------
(* PhysAlloc *)

\* @Size rounded up to a multiple of 4.
RoundUp(size) == 4 * ((size + 3) \div 4)

MutAlignUp(a, align) == align * ((a + align - 1) \div align)

\* (a + Alignment - 1) & -Alignment.  Alignment is a ULONG: its negation is
\* zero-extended, so the mask also clears everything above bit 31.
AlignUp(a, align) == (align * ((a + align - 1) \div align)) % Wrap

MutFits(cur, start, size) == start + size <= End(cur)

Fits(cur, start, size) == start >= cur.addr /\ start + size <= End(cur)

\* Where a request would start if it were served from the region `cur`.
StartFor(cur, Start, align) ==
    IF Start # 0 THEN Start ELSE AlignUp(cur.addr, IF align = 0 THEN 1 ELSE align)

FirstFit(list, Start, size, align, i) ==
    /\ Fits(list[i], StartFor(list[i], Start, align), size)
    /\ \A j \in 1 .. i - 1 :
          ~Fits(list[j], StartFor(list[j], Start, align), size)

Unlink(list, i) ==
    [k \in 1 .. Len(list) - 1 |-> IF k < i THEN list[k] ELSE list[k + 1]]

\* [start, start + size) leaves region i of the list.  The result of recording
\* what is left after it is ignored: on malloc failure that part is lost.
Carve(list, i, start, size, list2) ==
    LET before == start - list[i].addr
        after  == End(list[i]) - (start + size)
        cut    == [list EXCEPT ![i] = [addr |-> list[i].addr, size |-> before]]
    IN \/ /\ before # 0
          /\ after # 0
          /\ \E ok \in BOOLEAN :
                AddToPhysList(cut, start + size, after, list2, ok)
       \/ before # 0 /\ after = 0 /\ list2 = cut
       \/ /\ before = 0
          /\ after # 0
          /\ list2 = [list EXCEPT ![i] = [addr |-> start + size, size |-> after]]
       \/ before = 0 /\ after = 0 /\ list2 = Unlink(list, i)

\* A successful call.  The caller remembers the address it gets and the size it
\* asked for; an address that truncates to 0 is NULL to it.
PhysAlloc(Start, Size, Align) ==
    /\ phase = "run"
    /\ Cardinality(live) < MaxLive
    /\ RoundUp(Size) # 0
    /\ \E i \in DOMAIN PhysMem :
          LET start == StartFor(PhysMem[i], Start, Align) IN
          /\ FirstFit(PhysMem, Start, RoundUp(Size), Align, i)
          /\ Carve(PhysMem, i, start, RoundUp(Size), PhysMem')
          /\ live' = IF start % Wrap = 0
                     THEN live
                     ELSE live \cup {[addr |-> start % Wrap, size |-> Size]}
    /\ UNCHANGED <<phase, next>>

MutPhysFree(r) ==
    /\ r \in live
    /\ \E ok \in BOOLEAN :
          AddToPhysList(PhysMem, r.addr, RoundUp(r.size) + 4, PhysMem', ok)
    /\ live' = live \ {r}
    /\ UNCHANGED <<phase, next>>

\* The caller returns what it was given, with the size it asked for.
PhysFree(r) ==
    /\ r \in live
    /\ \E ok \in BOOLEAN : AddToPhysList(PhysMem, r.addr, r.size, PhysMem', ok)
    /\ live' = live \ {r}
    /\ UNCHANGED <<phase, next>>

----------------------------------------------------------------------------
(* PhysInit.  main ignores its result: when it stops at the first node it
   cannot allocate, the loader goes on with the list built so far. *)

InitMapEntry ==
    /\ phase = "map"
    /\ next <= Len(MemoryMap)
    /\ LET e == MemoryMap[next] IN
       IF e.type = 1
       THEN \E ok \in BOOLEAN :
               /\ AddToPhysList(PhysMem, e.addr, e.size, PhysMem', ok)
               /\ IF ok THEN next' = next + 1 /\ phase' = phase
                        ELSE next' = next /\ phase' = "run"
       ELSE next' = next + 1 /\ UNCHANGED <<PhysMem, phase>>
    /\ UNCHANGED live

InitMapDone ==
    /\ phase = "map"
    /\ next > Len(MemoryMap)
    /\ phase' = IF HasSimple THEN "simple" ELSE "run"
    /\ UNCHANGED <<PhysMem, next, live>>

\* MemUpper, a number of kilobytes, is passed as a number of bytes.
InitSimple ==
    /\ phase = "simple"
    /\ \E ok \in BOOLEAN : AddToPhysList(PhysMem, MB, MemUpper, PhysMem', ok)
    /\ phase' = "run"
    /\ UNCHANGED <<next, live>>

Init ==
    /\ PhysMem = << >>
    /\ phase = "map"
    /\ next = 1
    /\ live = {}

Next ==
    \/ InitMapEntry
    \/ InitMapDone
    \/ InitSimple
    \/ \E s \in Starts, n \in Sizes, a \in Aligns : PhysAlloc(s, n, a)
    \/ \E r \in live : PhysFree(r)

Spec == Init /\ [][Next]_vars

----------------------------------------------------------------------------
(* Properties *)

\* PhysMem is a list of regions, and callers hold regions addressed by ULONGs.
TypeOK ==
    /\ PhysMem \in Seq(Region)
    /\ phase \in {"map", "simple", "run"}
    /\ next \in Nat \ {0}
    /\ live \subseteq [addr : 0 .. Wrap - 1, size : Nat]

\* The bytes of memory the machine has at or above 1 MB.
RAM ==
    {a \in UNION {MemoryMap[i].addr .. End(MemoryMap[i]) - 1 :
                     i \in {k \in DOMAIN MemoryMap : MemoryMap[k].type = 1}} : a >= MB}
    \cup (IF HasSimple THEN MB .. MB + MemUpper * KB - 1 ELSE {})

Bytes(r) == r.addr .. End(r) - 1

FreeBytes == UNION {Bytes(PhysMem[i]) : i \in DOMAIN PhysMem}

TakenBytes ==
    UNION {Bytes([r EXCEPT !.size = RoundUp(r.size)]) : r \in live}

\* No byte is on the free list twice, so that first fit in one region can never
\* hand out memory that another region still offers (mem.c, AddToPhysList).
FreeListDisjoint ==
    \A i, j \in DOMAIN PhysMem : i # j => Disjoint(PhysMem[i], PhysMem[j])

\* No byte that a caller of PhysAlloc holds is held by another caller or still
\* on the free list, whatever order memory is allocated and freed in.
NoDoubleAllocation ==
    /\ \A r, s \in live : r # s => Disjoint(r, s)
    /\ \A r \in live, i \in DOMAIN PhysMem : Disjoint(r, PhysMem[i])

\* The pointer PhysAlloc returns, 32 bit wide, designates memory the machine
\* really has at or above 1 MB, also when the map lists memory above 4 GB.
OnlyUsableMemory == \A r \in live : Bytes(r) \subseteq RAM

\* Nothing is lost: once PhysInit is done, memory is either free or held.
NothingLost == phase = "run" => RAM = FreeBytes \cup TakenBytes

----------------------------------------------------------------------------
(* What the BIOS must report for the properties above to hold. *)

AddedByMap(i) == Clamp(MemoryMap[i].addr, MemoryMap[i].size)

\* The map entries that PhysInit puts on the list.
Listed ==
    {i \in DOMAIN MemoryMap :
        MemoryMap[i].type = 1 /\ MemoryMap[i].addr + MemoryMap[i].size > MB}

\* No entry is empty and each byte is reported once, except that the simple
\* memory size may repeat the beginning of a larger map entry at 1 MB.
DisjointMap ==
    /\ \A i \in Listed : MemoryMap[i].size > 0
    /\ \A i, j \in Listed : i # j => Disjoint(AddedByMap(i), AddedByMap(j))
    /\ HasSimple /\ Listed # {} =>
          \E i \in Listed : AddedByMap(i).addr = MB /\ MemUpper < AddedByMap(i).size

=============================================================================
