------------------------- MODULE SectorCacheProofs -------------------------
(***************************************************************************)
(* Proofs about SectorCache for every size of the device and of the cache, *)
(* every request and every number of tries: cached sectors hold what the   *)
(* drive holds, no block is lost on the way, and ReadSector implements the *)
(* block device that the file systems rely on.                             *)
(***************************************************************************)
EXTENDS SectorCache, WellFoundedInduction, TLAPS

Item == [Tag : Nat, Time : Nat, Data : Nat]

TypeInv ==
    /\ Items \in Seq(Item)
    /\ Time \in 0 .. TimeWrap - 1 /\ wrapped \in BOOLEAN
    /\ pc \in {"idle", "check", "loop", "read", "store"}
    /\ request \in [sector : Nat, count : Nat]
    /\ Sector \in Nat /\ nSectors \in Nat /\ count \in Nat /\ i \in Nat
    /\ Buffer \in Seq(Nat) /\ tmpbuf \in Seq(Nat)
    /\ errno \in {"none", "EIO", "ENOMEM"}

\* A sequence with the contents of the device from a sector on.
Holds(seq, first) == \A k \in 1 .. Len(seq) : seq[k] = StartSector + first + k - 1

\* What has been delivered is the beginning of what was asked for, and the rest
\* is still to come.
Delivered ==
    /\ pc = "check" =>
          /\ errno = "none" /\ Buffer = << >>
          /\ Sector = request.sector /\ nSectors = request.count
    /\ pc \in {"loop", "read", "store"} =>
          /\ errno = "none" /\ Holds(Buffer, request.sector)
          /\ request.sector + request.count <= DevSectors
          /\ Sector = request.sector + Len(Buffer)
          /\ Sector + nSectors = request.sector + request.count

\* The sectors of a chunk that are still to be stored are not in the cache.
Chunking ==
    /\ pc \in {"read", "store"} => count \in 1 .. nSectors
    /\ pc = "read" =>
          \A k \in 1 .. Len(Items), j \in 0 .. count - 1 : Items[k].Tag # Sector + j
    /\ pc = "store" =>
          /\ i <= count /\ Len(tmpbuf) = count /\ Holds(tmpbuf, Sector)
          /\ \A k \in 1 .. Len(Items), j \in i .. count - 1 : Items[k].Tag # Sector + j

\* The blocks in use are those of the cached sectors and the chunk buffer.
Blocks == blocks = Len(Items) + (IF pc \in {"read", "store"} THEN 1 ELSE 0)

\* The inductive strengthening of CacheCoherent, NoBlockLeaked and the refinement.
IInv == TypeInv /\ Delivered /\ Chunking /\ Blocks /\ CacheCoherent

----------------------------------------------------------------------------
(* Helpers *)

\* A bounded nonempty set of naturals has a largest element, and Max is it.
LEMMA MaxIs ==
    ASSUME NEW S, NEW n \in Nat, S \subseteq 0 .. n, S # {}
    PROVE  Max(S) \in S /\ \A y \in S : Max(S) >= y
<1> DEFINE T == {n - x : x \in S}
           R == OpToRel(<, Nat)
<1>1. T \subseteq Nat /\ T # {}
  <2>1. \A x \in S : n - x \in Nat
    OBVIOUS
  <2> QED BY <2>1
<1>2. \E x \in T : \A y \in T : ~(<<y, x>> \in R)
  BY <1>1, NatLessThanWellFounded, WFMin
<1>3. PICK x \in S : \A y \in S : ~(<<n - y, n - x>> \in R)
  BY <1>2
<1>4. \A y \in S : x >= y
  <2> SUFFICES ASSUME NEW y \in S, x < y PROVE FALSE
    OBVIOUS
  <2>1. n - y \in Nat /\ n - x \in Nat /\ n - y < n - x
    OBVIOUS
  <2>2. <<n - y, n - x>> \in R
    BY <2>1, Zenon DEF OpToRel
  <2> QED BY <2>2, <1>3
<1> QED BY <1>4 DEF Max

LEMMA ItemsType ==
    ASSUME TypeInv
    PROVE  /\ Items \in Seq(Item) /\ Len(Items) \in Nat
           /\ DOMAIN Items = 1 .. Len(Items)
           /\ \A k \in 1 .. Len(Items) : Items[k] \in Item
           /\ Time \in Nat
BY ParamAssumption DEF TypeInv

\* The cached sectors as a sector number sees them: while no sector is cached
\* twice, the search finds a sector exactly if it is there.
LEMMA FindIs ==
    ASSUME TypeInv, CacheCoherent, NEW t
    PROVE  IsCached(t) <=> \E k \in 1 .. Len(Items) : Items[k].Tag = t
<1>1. ASSUME NEW k \in 1 .. Len(Items), Items[k].Tag = t PROVE k \in Find(t)
  BY <1>1, ItemsType DEF Find, CacheCoherent
<1> QED BY <1>1, ItemsType DEF IsCached, Find

LEMMA ContentsIs ==
    ASSUME NEW t \in Nat, t < DevSectors
    PROVE  Contents[t] = StartSector + t
BY ParamAssumption DEF Contents, DiskData

\* The chunk is not empty and not larger than the run of missing sectors.
LEMMA ChunkIs ==
    ASSUME NEW n \in Nat \ {0}, NEW avail \in Nat
    PROVE  Chunk(n, avail) \in 0 .. n
<1> DEFINE S == {c \in Tried(n) : c <= avail} \cup {0}
<1>1. S \subseteq 0 .. n /\ S # {}
  BY DEF Tried
<1>2. Max(S) \in S
  BY <1>1, MaxIs
<1> QED BY <1>1, <1>2 DEF Chunk

\* The clock counts modulo its width.
LEMMA TickType ==
    ASSUME TypeInv, Tick
    PROVE  /\ Time' \in 0 .. TimeWrap - 1 /\ wrapped' \in BOOLEAN
           /\ ~wrapped' => ~wrapped /\ Time' = Time + 1
<1>1. ASSUME NEW b \in Nat \ {0}, NEW a \in 1 .. b
      PROVE  a % b = IF a = b THEN 0 ELSE a
  OBVIOUS
<1>2. Time' = IF Time + 1 = TimeWrap THEN 0 ELSE Time + 1
  <2>1. Time + 1 \in 1 .. TimeWrap /\ TimeWrap \in Nat \ {0}
    BY ParamAssumption DEF TypeInv
  <2> QED BY <2>1, <1>1 DEF Tick
<1>3. Time' \in 0 .. TimeWrap - 1 /\ (Time' # 0 => Time' = Time + 1)
  BY <1>2, ParamAssumption DEF TypeInv
<1>4. wrapped' \in BOOLEAN /\ (~wrapped' => ~wrapped /\ Time' # 0)
  BY DEF TypeInv, Tick
<1> QED BY <1>3, <1>4

\* A cache hit changes the time of an item and nothing else.
LEMMA ReadCacheKeeps ==
    ASSUME TypeInv, CacheCoherent, NEW k \in 1 .. Len(Items), ReadCache(k)
    PROVE  /\ Items' \in Seq(Item) /\ Len(Items') = Len(Items)
           /\ \A j \in 1 .. Len(Items) :
                 Items'[j].Tag = Items[j].Tag /\ Items'[j].Data = Items[j].Data
           /\ CacheCoherent'
<1> USE ItemsType
<1>2. Items' = [Items EXCEPT ![k] = [Items[k] EXCEPT !.Time = Time]]
  BY DEF ReadCache
<1> DEFINE new == [Items[k] EXCEPT !.Time = Time]
<1>3. new \in Item /\ new.Tag = Items[k].Tag /\ new.Data = Items[k].Data
  BY DEF Item
<1>4. Items' \in Seq(Item) /\ Len(Items') = Len(Items)
  BY <1>2, <1>3
<1>5. \A j \in 1 .. Len(Items) :
         Items'[j].Tag = Items[j].Tag /\ Items'[j].Data = Items[j].Data
  <2>1. \A j \in 1 .. Len(Items) : Items'[j] = IF j = k THEN new ELSE Items[j]
    BY <1>2
  <2> QED BY <2>1, <1>3
<1>6. DOMAIN Items = 1 .. Len(Items) /\ DOMAIN Items' = 1 .. Len(Items)
  BY <1>4
<1>7. CacheCoherent'
  BY <1>5, <1>6 DEF CacheCoherent, Contents
<1> QED BY <1>4, <1>5, <1>7

\* A sector that is not cached enters with its contents.
LEMMA WriteCacheKeeps ==
    ASSUME TypeInv, CacheCoherent, NEW t \in Nat, t < DevSectors,
           \A k \in 1 .. Len(Items) : Items[k].Tag # t,
           WriteCache(t, StartSector + t),
           blocks = Len(Items) + 1
    PROVE  /\ Items' \in Seq(Item)
           /\ blocks' = Len(Items') + 1
           /\ \A k \in 1 .. Len(Items') :
                 Items'[k].Tag = t \/ \E j \in 1 .. Len(Items) : Items'[k].Tag = Items[j].Tag
           /\ CacheCoherent'
<1> USE ItemsType
<1> DEFINE item == [Tag |-> t, Time |-> Time, Data |-> StartSector + t]
<1>1. item \in Item /\ item.Tag = t /\ item.Data = Contents[t]
  BY ContentsIs, ParamAssumption DEF Item
<1>2. DOMAIN Items = 1 .. Len(Items) /\ Len(Items) \in Nat
  OBVIOUS
<1> HIDE DEF item
<1>3. CASE \E k \in DOMAIN Items : Items' = [Items EXCEPT ![k] = item] /\ blocks' = blocks
  <2> PICK k \in 1 .. Len(Items) : Items' = [Items EXCEPT ![k] = item] /\ blocks' = blocks
    BY <1>3
  <2>1. Items' \in Seq(Item) /\ Len(Items') = Len(Items)
    BY <1>1
  <2>2. DOMAIN Items' = 1 .. Len(Items)
    BY <2>1
  <2>3. \A j \in 1 .. Len(Items) : Items'[j] = IF j = k THEN item ELSE Items[j]
    OBVIOUS
  <2>4. CacheCoherent'
    <3>1. \A j \in 1 .. Len(Items) :
             Items'[j].Tag < DevSectors /\ Items'[j].Data = Contents[Items'[j].Tag]
      BY <2>3, <1>1 DEF CacheCoherent
    <3>2. \A j, l \in 1 .. Len(Items) : j # l => Items'[j].Tag # Items'[l].Tag
      BY <2>3, <1>1 DEF CacheCoherent
    <3> QED BY <3>1, <3>2, <2>2 DEF CacheCoherent, Contents
  <2> QED BY <2>1, <2>3, <2>4, <1>1
<1>4. CASE Items' = Append(Items, item) /\ blocks' = blocks + 1
  <2>1. Items' \in Seq(Item) /\ Len(Items') = Len(Items) + 1
    BY <1>1, <1>4
  <2>2. DOMAIN Items' = 1 .. Len(Items) + 1
    BY <2>1
  <2>3. \A j \in 1 .. Len(Items) + 1 : Items'[j] = IF j = Len(Items) + 1 THEN item ELSE Items[j]
    BY <1>4, <1>1
  <2>4. \A j \in 1 .. Len(Items) + 1 : j # Len(Items) + 1 => j \in 1 .. Len(Items)
    BY <1>2
  <2>5. CacheCoherent'
    <3>1. \A j \in 1 .. Len(Items) + 1 :
             Items'[j].Tag < DevSectors /\ Items'[j].Data = Contents[Items'[j].Tag]
      BY <2>3, <2>4, <1>1 DEF CacheCoherent
    <3>2. \A j, l \in 1 .. Len(Items) + 1 : j # l => Items'[j].Tag # Items'[l].Tag
      BY <2>3, <2>4, <1>1 DEF CacheCoherent
    <3> QED BY <3>1, <3>2, <2>2 DEF CacheCoherent, Contents
  <2> QED BY <2>1, <2>3, <2>4, <2>5, <1>1, <1>2, <1>4
<1> QED BY <1>3, <1>4 DEF WriteCache, item

----------------------------------------------------------------------------
(* Every step keeps the invariant *)

LEMMA InitIInv == Init => IInv
<1> SUFFICES ASSUME Init PROVE IInv
  OBVIOUS
<1>1. TypeInv
  <2>1. 0 \in 0 .. TimeWrap - 1
    BY ParamAssumption
  <2>2. Time \in 0 .. TimeWrap - 1
    BY <2>1 DEF Init
  <2>3. Items \in Seq(Item) /\ Buffer \in Seq(Nat) /\ tmpbuf \in Seq(Nat)
    BY DEF Init
  <2>4. request \in [sector : Nat, count : Nat] /\ wrapped \in BOOLEAN
    BY DEF Init
  <2> QED BY <2>2, <2>3, <2>4 DEF Init, TypeInv
<1>2. Delivered /\ Chunking /\ Blocks
  BY DEF Init, Delivered, Chunking, Blocks
<1>3. CacheCoherent
  BY DEF Init, CacheCoherent
<1> QED BY <1>1, <1>2, <1>3 DEF IInv

LEMMA CallIInv ==
    ASSUME IInv, NEW r \in Requests, Call(r)
    PROVE  IInv'
<1>1. r \in [sector : Nat, count : Nat]
  BY ParamAssumption
<1>2. TypeInv'
  BY <1>1 DEF IInv, TypeInv, Call, cacheVars
<1>3. (Delivered /\ Chunking /\ Blocks)'
  BY <1>1 DEF IInv, Call, cacheVars, Idle, Delivered, Chunking, Blocks
<1>4. CacheCoherent'
  BY DEF IInv, Call, cacheVars, CacheCoherent, Contents
<1> QED BY <1>2, <1>3, <1>4 DEF IInv

\* GetDriveParameters, and the check of the range.
LEMMA CheckIInv ==
    ASSUME IInv, Check
    PROVE  IInv'
<1>1. TypeInv'
  BY DEF IInv, TypeInv, Check, Fail, cacheVars
<1>2. Delivered'
  BY DEF IInv, TypeInv, Check, Fail, cacheVars, Delivered, Holds, InRange
<1>3. (Chunking /\ Blocks)'
  BY DEF IInv, Check, Fail, cacheVars, Chunking, Blocks
<1>4. CacheCoherent'
  BY DEF IInv, Check, cacheVars, CacheCoherent, Contents
<1> QED BY <1>1, <1>2, <1>3, <1>4 DEF IInv

LEMMA DoneIInv ==
    ASSUME IInv, Done
    PROVE  IInv'
<1>1. TypeInv'
  BY DEF IInv, TypeInv, Done, cacheVars
<1>2. (Delivered /\ Chunking /\ Blocks)'
  BY DEF IInv, Done, cacheVars, Delivered, Chunking, Blocks
<1>3. CacheCoherent'
  BY DEF IInv, Done, cacheVars, CacheCoherent, Contents
<1> QED BY <1>1, <1>2, <1>3 DEF IInv

\* A sequence of contents goes on with the next sector.
LEMMA HoldsAppend ==
    ASSUME NEW seq \in Seq(Nat), NEW more \in Seq(Nat), NEW first \in Nat,
           Holds(seq, first), Holds(more, first + Len(seq))
    PROVE  Holds(seq \o more, first)
<1>1. Len(seq \o more) = Len(seq) + Len(more)
  OBVIOUS
<1>2. ASSUME NEW k \in 1 .. Len(seq) + Len(more)
      PROVE  (seq \o more)[k] = StartSector + first + k - 1
  <2>1. CASE k <= Len(seq)
    BY <2>1 DEF Holds
  <2>2. CASE k > Len(seq)
    <3>1. (seq \o more)[k] = more[k - Len(seq)] /\ k - Len(seq) \in 1 .. Len(more)
      BY <2>2
    <3>2. more[k - Len(seq)] = StartSector + (first + Len(seq)) + (k - Len(seq)) - 1
      BY <3>1 DEF Holds
    <3> QED BY <3>1, <3>2, ParamAssumption
  <2> QED BY <2>1, <2>2
<1> QED BY <1>1, <1>2 DEF Holds

\* A sector is delivered from the cache.
LEMMA HitIInv ==
    ASSUME IInv, Hit
    PROVE  IInv'
<1>1. PICK k \in Find(Sector) : ReadCache(k) /\ Buffer' = Append(Buffer, Items[k].Data)
  BY DEF Hit
<1>2. k \in 1 .. Len(Items) /\ Items[k].Tag = Sector /\ Items[k] \in Item
  BY <1>1, ItemsType DEF IInv, Find
<1>3. Items[k].Data = StartSector + Sector /\ Items[k].Data \in Nat
  BY <1>2, ContentsIs, ItemsType DEF IInv, CacheCoherent, Item
<1>4. /\ Items' \in Seq(Item) /\ Len(Items') = Len(Items) /\ CacheCoherent'
      /\ Time' \in 0 .. TimeWrap - 1 /\ wrapped' \in BOOLEAN
  BY <1>1, <1>2, ReadCacheKeeps, TickType DEF IInv, ReadCache
<1>5. /\ pc = "loop" /\ pc' = "loop" /\ nSectors > 0 /\ nSectors' = nSectors - 1
      /\ Sector' = Sector + 1
      /\ UNCHANGED <<request, tmpbuf, count, i, errno, blocks>>
  BY DEF Hit, Advance
<1>6. /\ Buffer \in Seq(Nat) /\ Sector \in Nat /\ nSectors \in Nat
      /\ request \in [sector : Nat, count : Nat]
  BY DEF IInv, TypeInv
<1>7. Buffer' = Buffer \o <<Items[k].Data>> /\ Buffer' \in Seq(Nat)
      /\ Len(Buffer') = Len(Buffer) + 1
  BY <1>1, <1>3, <1>6
<1>8. TypeInv'
  BY <1>4, <1>5, <1>6, <1>7 DEF IInv, TypeInv
<1>9. Delivered'
  <2>1. Holds(Buffer, request.sector) /\ Sector = request.sector + Len(Buffer)
    BY <1>5 DEF IInv, Delivered
  <2>2. Holds(<<Items[k].Data>>, request.sector + Len(Buffer))
    BY <2>1, <1>3, <1>6, ParamAssumption DEF Holds
  <2>3. Holds(Buffer', request.sector)
    <3>1. <<Items[k].Data>> \in Seq(Nat) /\ request.sector \in Nat
      BY <1>3, <1>6
    <3> QED BY <3>1, <2>1, <2>2, <1>6, <1>7, HoldsAppend
  <2>4. /\ errno = "none" /\ request.sector + request.count <= DevSectors
        /\ Sector + nSectors = request.sector + request.count
    BY <1>5 DEF IInv, Delivered
  <2>5. Sector' = request.sector + Len(Buffer') /\ Sector' + nSectors' = Sector + nSectors
    BY <2>1, <1>5, <1>6, <1>7
  <2> QED BY <2>3, <2>4, <2>5, <1>5 DEF Delivered, Holds
<1>10. (Chunking /\ Blocks)'
  BY <1>4, <1>5 DEF IInv, Chunking, Blocks
<1> QED BY <1>4, <1>8, <1>9, <1>10 DEF IInv

\* The sectors from Sector on that are missing, and the buffer for them.
LEMMA MissIInv ==
    ASSUME IInv, Miss
    PROVE  IInv'
<1>1. PICK n \in 1 .. nSectors, avail \in 0 .. nSectors :
         /\ Uncached(n)
         /\ IF n < nSectors THEN \E k \in Find(Sector + n) : ReadCache(k)
            ELSE UNCHANGED cacheVars
         /\ IF Chunk(n, avail) = 0
            THEN Fail("ENOMEM") /\ spare' = avail /\ UNCHANGED <<count, blocks>>
            ELSE /\ pc' = "read" /\ count' = Chunk(n, avail) /\ blocks' = blocks + 1
                 /\ UNCHANGED <<errno, spare>>
  BY DEF Miss
<1>2. /\ pc = "loop" /\ nSectors > 0 /\ ~IsCached(Sector) /\ i' = 0
      /\ UNCHANGED <<request, Sector, nSectors, Buffer, tmpbuf>>
  BY DEF Miss
<1>3. /\ Items' \in Seq(Item) /\ Len(Items') = Len(Items) /\ CacheCoherent'
      /\ \A k \in 1 .. Len(Items) : Items'[k].Tag = Items[k].Tag
      /\ Time' \in 0 .. TimeWrap - 1 /\ wrapped' \in BOOLEAN
  <2>1. CASE n < nSectors
    <3> PICK k \in Find(Sector + n) : ReadCache(k)
      BY <2>1, <1>1
    <3>1. k \in 1 .. Len(Items)
      BY ItemsType DEF IInv, Find
    <3> QED BY <3>1, ReadCacheKeeps, TickType DEF IInv, ReadCache
  <2>2. CASE UNCHANGED cacheVars
    BY <2>2 DEF cacheVars, IInv, TypeInv, CacheCoherent, Contents
  <2> QED BY <2>1, <2>2, <1>1
<1>4. Chunk(n, avail) \in 0 .. n /\ n \in 1 .. nSectors /\ nSectors \in Nat /\ Sector \in Nat
  <2>1. nSectors \in Nat /\ Sector \in Nat
    BY DEF IInv, TypeInv
  <2>2. n \in Nat \ {0} /\ avail \in Nat
    BY <2>1
  <2> QED BY <2>1, <2>2, ChunkIs
<1>5. \A k \in 1 .. Len(Items), j \in 0 .. n - 1 : Items[k].Tag # Sector + j
  <2>1. ~IsCached(Sector) /\ \A j \in 1 .. n - 1 : ~IsCached(Sector + j)
    BY <1>1, <1>2 DEF Uncached
  <2>2. \A j \in 0 .. n - 1 : ~IsCached(Sector + j)
    BY <2>1, <1>4
  <2> QED BY <2>2, FindIs DEF IInv
<1>6. \/ pc' = "idle" /\ errno' = "ENOMEM" /\ count' = count /\ blocks' = blocks
      \/ pc' = "read" /\ errno' = errno /\ count' \in 1 .. n /\ blocks' = blocks + 1
  BY <1>1, <1>4 DEF Fail
<1>7. TypeInv'
  BY <1>2, <1>3, <1>4, <1>6 DEF IInv, TypeInv
<1>8. (Delivered /\ Blocks)'
  BY <1>2, <1>3, <1>6, ItemsType DEF IInv, Delivered, Holds, Blocks
<1>9. Chunking'
  <2>1. CASE pc' = "idle"
    BY <2>1 DEF Chunking
  <2>2. CASE pc' = "read"
    <3>1. count' \in 1 .. nSectors /\ 0 .. count' - 1 \subseteq 0 .. n - 1
      BY <2>2, <1>4, <1>6
    <3>2. \A k \in 1 .. Len(Items'), j \in 0 .. count' - 1 : Items'[k].Tag # Sector + j
      BY <3>1, <1>3, <1>5
    <3> QED BY <3>1, <3>2, <2>2, <1>2 DEF Chunking
  <2> QED BY <2>1, <2>2, <1>6
<1> QED BY <1>3, <1>7, <1>8, <1>9 DEF IInv

LEMMA ReadSucceedsIInv ==
    ASSUME IInv, ReadSucceeds
    PROVE  IInv'
<1>1. /\ tmpbuf' = [k \in 1 .. count |-> StartSector + Sector + k - 1]
      /\ pc = "read" /\ pc' = "store" /\ i' = 0
      /\ UNCHANGED <<Items, Time, wrapped, request, Sector, nSectors, Buffer, count, errno, blocks>>
  BY DEF ReadSucceeds, DiskData, cacheVars
<1>2. count \in Nat /\ Sector \in Nat /\ StartSector \in Nat
  BY ParamAssumption DEF IInv, TypeInv
<1>3. tmpbuf' \in Seq(Nat) /\ Len(tmpbuf') = count
  BY <1>1, <1>2
<1>4. \A k \in 1 .. Len(tmpbuf') : tmpbuf'[k] = StartSector + Sector + k - 1
  BY <1>1, <1>3
<1>5. TypeInv'
  BY <1>1, <1>3 DEF IInv, TypeInv
<1>6. (Delivered /\ Blocks)'
  BY <1>1 DEF IInv, Delivered, Holds, Blocks
<1>7. Chunking'
  BY <1>1, <1>2, <1>3, <1>4 DEF IInv, Chunking, Holds
<1>8. CacheCoherent'
  BY <1>1 DEF IInv, CacheCoherent, Contents
<1> QED BY <1>5, <1>6, <1>7, <1>8 DEF IInv

LEMMA ReadFailsIInv ==
    ASSUME IInv, ReadFails
    PROVE  IInv'
<1>1. /\ pc = "read" /\ i' = i + 1
      /\ \/ pc' = "idle" /\ errno' = "EIO" /\ blocks' = blocks - 1
         \/ UNCHANGED <<pc, errno, blocks>>
      /\ UNCHANGED <<Items, Time, wrapped, request, Sector, nSectors, Buffer, tmpbuf, count>>
  BY DEF ReadFails, Fail, cacheVars
<1>2. TypeInv'
  BY <1>1 DEF IInv, TypeInv
<1>3. Delivered' /\ Blocks'
  BY <1>1, ItemsType DEF IInv, Delivered, Holds, Blocks
<1>4. Chunking'
  BY <1>1 DEF IInv, Chunking
<1>5. CacheCoherent'
  BY <1>1 DEF IInv, CacheCoherent, Contents
<1> QED BY <1>2, <1>3, <1>4, <1>5 DEF IInv

\* A sector of the chunk is stored under the tag that it belongs to.
LEMMA StoreIInv ==
    ASSUME IInv, Store
    PROVE  IInv'
<1>1. /\ pc = "store" /\ i < count /\ i' = i + 1
      /\ WriteCache(Sector + i, tmpbuf[i + 1]) \/ UNCHANGED <<cacheVars, blocks>>
      /\ UNCHANGED <<pc, request, Sector, nSectors, Buffer, tmpbuf, count, errno, spare>>
  BY DEF Store
<1>2. /\ count \in Nat /\ Sector \in Nat /\ StartSector \in Nat /\ i \in Nat /\ nSectors \in Nat
      /\ request \in [sector : Nat, count : Nat] /\ DevSectors \in Nat
  BY ParamAssumption DEF IInv, TypeInv
<1>3. /\ count \in 1 .. nSectors /\ Len(tmpbuf) = count /\ Holds(tmpbuf, Sector)
      /\ \A k \in 1 .. Len(Items), j \in i .. count - 1 : Items[k].Tag # Sector + j
      /\ Sector + nSectors <= DevSectors
  BY <1>1 DEF IInv, Chunking, Delivered
<1>4. /\ Items' \in Seq(Item) /\ blocks' = Len(Items') + 1 /\ CacheCoherent'
      /\ Time' \in 0 .. TimeWrap - 1 /\ wrapped' \in BOOLEAN
      /\ \A k \in 1 .. Len(Items') :
            \/ Items'[k].Tag = Sector + i
            \/ \E j \in 1 .. Len(Items) : Items'[k].Tag = Items[j].Tag
  <2>1. CASE WriteCache(Sector + i, tmpbuf[i + 1])
    <3>1. tmpbuf[i + 1] = StartSector + (Sector + i)
      <4>1. i + 1 \in 1 .. Len(tmpbuf)
        BY <1>1, <1>2, <1>3
      <4>2. tmpbuf[i + 1] = StartSector + Sector + (i + 1) - 1
        BY <1>3, <4>1 DEF Holds
      <4> QED BY <1>2, <4>2
    <3>2. Sector + i \in Nat /\ Sector + i < DevSectors
      BY <1>1, <1>2, <1>3
    <3>3. \A k \in 1 .. Len(Items) : Items[k].Tag # Sector + i
      BY <1>1, <1>2, <1>3
    <3>4. blocks = Len(Items) + 1
      BY <1>1 DEF IInv, Blocks
    <3>5. Tick
      BY <2>1 DEF WriteCache
    <3> QED BY <2>1, <3>1, <3>2, <3>3, <3>4, <3>5, WriteCacheKeeps, TickType DEF IInv
  <2>2. CASE UNCHANGED <<cacheVars, blocks>>
    BY <2>2, <1>1 DEF IInv, TypeInv, Blocks, cacheVars, CacheCoherent, Contents
  <2> QED BY <2>1, <2>2, <1>1
<1>5. TypeInv'
  BY <1>1, <1>2, <1>4 DEF IInv, TypeInv
<1>6. (Delivered /\ Blocks)'
  BY <1>1, <1>4 DEF IInv, Delivered, Holds, Blocks
<1>7. Chunking'
  <2>1. ASSUME NEW k \in 1 .. Len(Items'), NEW j \in i + 1 .. count - 1
        PROVE  Items'[k].Tag # Sector + j
    <3>1. j \in i .. count - 1 /\ Sector + j # Sector + i
      BY <1>2
    <3> QED BY <3>1, <1>3, <1>4
  <2> QED BY <2>1, <1>1, <1>2, <1>3 DEF Chunking, Holds
<1> QED BY <1>4, <1>5, <1>6, <1>7 DEF IInv

\* The chunk is delivered, and its buffer freed.
LEMMA DeliverIInv ==
    ASSUME IInv, Deliver
    PROVE  IInv'
<1>1. /\ pc = "store" /\ pc' = "loop" /\ Buffer' = Buffer \o tmpbuf /\ blocks' = blocks - 1
      /\ Sector' = Sector + count /\ nSectors' = nSectors - count
      /\ UNCHANGED <<Items, Time, wrapped, request, tmpbuf, count, i, errno>>
  BY DEF Deliver, Advance, cacheVars
<1>2. /\ count \in Nat /\ Sector \in Nat /\ nSectors \in Nat
      /\ request \in [sector : Nat, count : Nat]
      /\ Buffer \in Seq(Nat) /\ tmpbuf \in Seq(Nat)
  BY DEF IInv, TypeInv
<1>3. /\ count \in 1 .. nSectors /\ Len(tmpbuf) = count /\ Holds(tmpbuf, Sector)
      /\ Holds(Buffer, request.sector) /\ Sector = request.sector + Len(Buffer)
      /\ errno = "none" /\ request.sector + request.count <= DevSectors
      /\ Sector + nSectors = request.sector + request.count
  BY <1>1 DEF IInv, Chunking, Delivered
<1>4. Buffer' \in Seq(Nat) /\ Len(Buffer') = Len(Buffer) + count /\ Len(Buffer) \in Nat
  <2>1. Buffer \o tmpbuf \in Seq(Nat) /\ Len(Buffer \o tmpbuf) = Len(Buffer) + Len(tmpbuf)
    BY <1>2
  <2> QED BY <2>1, <1>1, <1>2, <1>3
<1>5. Holds(Buffer', request.sector)
  <2>1. request.sector \in Nat
    BY <1>2
  <2> DEFINE first == request.sector
  <2>2. /\ Buffer \in Seq(Nat) /\ tmpbuf \in Seq(Nat) /\ first \in Nat
        /\ Holds(Buffer, first) /\ Holds(tmpbuf, first + Len(Buffer))
    BY <2>1, <1>2, <1>3
  <2> HIDE DEF first
  <2>3. Holds(Buffer \o tmpbuf, first)
    BY <2>2, HoldsAppend
  <2> QED BY <2>3, <1>1 DEF first
<1>6. Sector' = request.sector + Len(Buffer') /\ Sector' + nSectors' = Sector + nSectors
      /\ Sector' \in Nat /\ nSectors' \in Nat
  <2>1. request.sector \in Nat /\ Sector = request.sector + Len(Buffer)
    BY <1>2, <1>3
  <2>2. Sector' = Sector + count /\ nSectors' = nSectors - count /\ count \in 1 .. nSectors
    BY <1>1, <1>3
  <2>3. Sector' \in Nat /\ nSectors' \in Nat /\ Sector' + nSectors' = Sector + nSectors
    BY <2>2, <1>2
  <2> QED BY <2>1, <2>2, <2>3, <1>2, <1>4
<1>7. TypeInv'
  BY <1>1, <1>2, <1>4, <1>6 DEF IInv, TypeInv
<1>8. Delivered'
  BY <1>1, <1>3, <1>5, <1>6 DEF Delivered, Holds
<1>9. (Chunking /\ Blocks)'
  BY <1>1, ItemsType DEF IInv, Chunking, Blocks
<1>10. CacheCoherent'
  BY <1>1 DEF IInv, CacheCoherent, Contents
<1> QED BY <1>7, <1>8, <1>9, <1>10 DEF IInv

LEMMA NextIInv == IInv /\ [Next]_vars => IInv'
<1> SUFFICES ASSUME IInv, [Next]_vars PROVE IInv'
  OBVIOUS
<1>1. CASE UNCHANGED vars
  BY <1>1 DEF vars, IInv, TypeInv, Delivered, Holds, Chunking, Blocks, CacheCoherent, Contents
<1> QED BY <1>1, CallIInv, CheckIInv, DoneIInv, HitIInv, MissIInv, ReadSucceedsIInv,
           ReadFailsIInv, StoreIInv, DeliverIInv DEF Next, Step

\* For every device and cache: an item of the cache holds what the drive holds
\* under its tag, and no sector is cached twice (ReadCache and WriteCache, io.c).
THEOREM CacheCoherentHolds == Spec => []CacheCoherent
<1>1. IInv => CacheCoherent
  BY DEF IInv
<1> QED BY <1>1, InitIInv, NextIInv, PTL DEF Spec

\* However ReadSector ends, the blocks that it leaves allocated are those of the
\* cached sectors (io.c 383-484).
THEOREM NoBlockLeakedHolds == Spec => []NoBlockLeaked
<1>1. IInv => NoBlockLeaked
  BY ItemsType DEF IInv, Blocks, NoBlockLeaked, Idle
<1> QED BY <1>1, InitIInv, NextIInv, PTL DEF Spec

----------------------------------------------------------------------------
(* ReadSector implements BlockDevice *)

\* The sequence of contents, as BlockDevice writes it.
LEMMA BufferIs ==
    ASSUME IInv, pc \in {"loop", "read", "store"}
    PROVE  /\ Len(Buffer) \in 0 .. request.count
           /\ request.sector + request.count <= DevSectors
           /\ Len(Buffer) \in 0 .. DevSectors
           /\ Buffer = [k \in 1 .. Len(Buffer) |-> Contents[request.sector + k - 1]]
<1>1. /\ Buffer \in Seq(Nat) /\ Sector \in Nat /\ nSectors \in Nat
      /\ request.sector \in Nat /\ request.count \in Nat /\ DevSectors \in Nat
  BY ParamAssumption DEF IInv, TypeInv
<1>2. /\ Sector = request.sector + Len(Buffer) /\ Holds(Buffer, request.sector)
      /\ request.sector + request.count <= DevSectors
      /\ Sector + nSectors = request.sector + request.count
  BY DEF IInv, Delivered
<1>3. Len(Buffer) \in 0 .. request.count /\ Len(Buffer) \in 0 .. DevSectors
  <2> DEFINE s == request.sector
             c == request.count
             n == Len(Buffer)
  <2>1. /\ s \in Nat /\ c \in Nat /\ n \in Nat /\ nSectors \in Nat /\ DevSectors \in Nat
        /\ (s + n) + nSectors = s + c /\ s + c <= DevSectors
    BY <1>1, <1>2
  <2> HIDE DEF s, c, n
  <2>2. n \in 0 .. c /\ n \in 0 .. DevSectors
    BY <2>1
  <2> QED BY <2>2 DEF c, n
<1>4. \A k \in 1 .. Len(Buffer) : Buffer[k] = Contents[request.sector + k - 1]
  <2> SUFFICES ASSUME NEW k \in 1 .. Len(Buffer)
               PROVE  Buffer[k] = Contents[request.sector + k - 1]
    OBVIOUS
  <2> DEFINE s == request.sector
             c == request.count
  <2>0. s \in Nat /\ c \in Nat /\ DevSectors \in Nat /\ k \in 1 .. c /\ s + c <= DevSectors
    BY <1>1, <1>2, <1>3
  <2>3. Buffer[k] = StartSector + s + k - 1
    BY <1>2 DEF Holds
  <2> HIDE DEF s, c
  <2>1. s + k - 1 \in Nat /\ s + k - 1 < DevSectors
    BY <2>0
  <2>2. Contents[s + k - 1] = StartSector + (s + k - 1)
    BY <2>1, ContentsIs
  <2>4. StartSector + s + k - 1 = StartSector + (s + k - 1)
    BY <2>0, ParamAssumption
  <2> QED BY <2>2, <2>3, <2>4 DEF s
<1>5. Buffer = [k \in 1 .. Len(Buffer) |-> Buffer[k]]
  BY <1>1
<1> QED BY <1>2, <1>3, <1>4, <1>5

\* A step that does not end the call is not seen.
LEMMA Hidden ==
    ASSUME pc # "idle", pc' # "idle", request' = request
    PROVE  UNCHANGED Promise!vars
BY DEF Promise!vars, Idle

\* The end of a call, with what has been delivered.
LEMMA Returns ==
    ASSUME IInv, pc \in {"loop", "read", "store"}, pc' = "idle",
           UNCHANGED <<request, Buffer>>,
           errno' \in {"EIO", "ENOMEM"} \/ (errno' = "none" /\ nSectors = 0)
    PROVE  Promise!Next
<1>1. /\ Len(Buffer) <= request.count
      /\ Len(Buffer) > 0 => request.sector + request.count <= DevSectors
      /\ Len(Buffer) \in 0 .. DevSectors
      /\ Buffer' = [k \in 1 .. Len(Buffer) |-> Contents[request.sector + k - 1]]
  BY BufferIs DEF IInv, TypeInv
<1>2. Len(Buffer) = request.count \/ errno' \in {"EIO", "ENOMEM"}
  <2>1. /\ Buffer \in Seq(Nat) /\ Sector \in Nat
        /\ request.sector \in Nat /\ request.count \in Nat
        /\ Sector = request.sector + Len(Buffer)
        /\ Sector + nSectors = request.sector + request.count
    BY DEF IInv, TypeInv, Delivered
  <2> QED BY <2>1
<1>3. Promise!Return(Len(Buffer), errno')
  BY <1>1, <1>2 DEF Promise!Return, Idle
<1> QED BY <1>1, <1>2, <1>3 DEF Promise!Next, Promise!NoError

LEMMA StepImplements ==
    IInv /\ [Next]_vars => [Promise!Next]_(Promise!vars)
<1> SUFFICES ASSUME IInv, [Next]_vars PROVE Promise!Next \/ UNCHANGED Promise!vars
  OBVIOUS
<1>1. ASSUME NEW r \in Requests, Call(r) PROVE Promise!Next
  BY <1>1 DEF Call, Idle, Promise!Next, Promise!Call, Promise!NoAnswer, Promise!NoError
<1>2. CASE Check
  <2>1. CASE pc' = "loop"
    BY <2>1, <1>2, Hidden DEF Check
  <2>2. CASE pc' = "idle" /\ errno' = "EIO"
    <3>1. Buffer' = [k \in 1 .. 0 |-> Contents[request.sector + k - 1]]
      BY <1>2 DEF Check, IInv, Delivered
    <3>2. request.count \in Nat /\ 0 \in 0 .. DevSectors
      BY ParamAssumption DEF IInv, TypeInv
    <3>3. Promise!Return(0, "EIO")
      BY <3>1, <3>2, <2>2, <1>2 DEF Check, Promise!Return, Idle
    <3> QED BY <3>2, <3>3 DEF Promise!Next
  <2> QED BY <2>1, <2>2, <1>2 DEF Check, Fail
<1>3. CASE Done
  BY <1>3, Returns DEF Done, IInv, Delivered
<1>4. CASE Hit \/ ReadSucceeds \/ Store \/ Deliver
  BY <1>4, Hidden DEF Hit, ReadSucceeds, Store, Deliver
<1>5. CASE Miss
  <2>1. /\ pc = "loop" /\ UNCHANGED <<request, Buffer>>
        /\ pc' = "read" \/ (pc' = "idle" /\ errno' = "ENOMEM")
    BY <1>5 DEF Miss, Fail
  <2> QED BY <2>1, Hidden, Returns
<1>6. CASE ReadFails
  <2>1. /\ pc = "read" /\ UNCHANGED <<request, Buffer>>
        /\ pc' = "read" \/ (pc' = "idle" /\ errno' = "EIO")
    BY <1>6 DEF ReadFails, Fail
  <2> QED BY <2>1, Hidden, Returns
<1>7. CASE UNCHANGED vars
  BY <1>7 DEF vars, Promise!vars, Idle
<1> QED BY <1>1, <1>2, <1>3, <1>4, <1>5, <1>6, <1>7 DEF Next, Step

\* For every device, cache and request, whichever reads fail and however little
\* memory there is: ReadSector delivers the true contents of the first sectors
\* asked for, and all of them unless it reports an error (io.c 383-484).
THEOREM ReadSectorImplementsBlockDevice == Spec => Refines
<1>1. Init => Promise!Init
  BY DEF Init, Promise!Init, Promise!NoAnswer, Promise!NoError, Idle
<1> QED BY <1>1, StepImplements, InitIInv, NextIInv, PTL DEF Spec, Refines, Promise!Spec

----------------------------------------------------------------------------
(* The cache gives up the least recently used sector *)

\* Until the clock wraps, the first Len(Items) tags of the history are those of
\* the items, in the order of their times.
Recent ==
    /\ touched \in Seq(Nat)
    /\ \A p, q \in 1 .. Len(touched) : p # q => touched[p] # touched[q]
    /\ ~wrapped =>
          /\ Len(Items) <= Len(touched)
          /\ \A a \in 1 .. Len(Items) : Items[a].Time < Time
          /\ \A a \in 1 .. Len(Items) : \E p \in 1 .. Len(Items) : touched[p] = Items[a].Tag
          /\ \A p \in 1 .. Len(Items) : \E a \in 1 .. Len(Items) : Items[a].Tag = touched[p]
          /\ \A a, b, p, q \in 1 .. Len(Items) :
                p < q /\ touched[p] = Items[a].Tag /\ touched[q] = Items[b].Tag
                    => Items[b].Time < Items[a].Time

\* Where the tag at a place behind the front was before the tag at place p moved there.
Before(p, k) == IF k <= p THEN k - 1 ELSE k

LEMMA BeforeOrder ==
    ASSUME NEW p \in Nat \ {0}, NEW n \in Nat, NEW x \in 2 .. n, NEW y \in 2 .. n
    PROVE  /\ x < y => Before(p, x) < Before(p, y)
           /\ p \in 1 .. n => Before(p, x) \in 1 .. n
           /\ p >= n => Before(p, x) = x - 1
BY DEF Before

LEMMA BeforeOnto ==
    ASSUME NEW n \in Nat, NEW p \in 1 .. n, NEW q \in 1 .. n, p # q
    PROVE  \E x \in 2 .. n : Before(p, x) = q
<1>1. CASE q < p
  BY <1>1, q + 1 \in 2 .. n, Before(p, q + 1) = q DEF Before
<1>2. CASE q > p
  BY <1>2, q \in 2 .. n, Before(p, q) = q DEF Before
<1> QED BY <1>1, <1>2

LEMMA TouchIs ==
    ASSUME NEW seq \in Seq(Nat), NEW t \in Nat,
           \A p, q \in 1 .. Len(seq) : p # q => seq[p] # seq[q]
    PROVE  \E p \in 1 .. Len(seq) + 1 :
              /\ \A q \in 1 .. Len(seq) : seq[q] = t <=> q = p
              /\ Touch(seq, t) \in Seq(Nat)
              /\ Len(Touch(seq, t)) = IF p = Len(seq) + 1 THEN p ELSE Len(seq)
              /\ Touch(seq, t)[1] = t
              /\ \A k \in 2 .. Len(Touch(seq, t)) :
                    /\ Touch(seq, t)[k] = seq[Before(p, k)]
                    /\ Before(p, k) \in 1 .. Len(seq) /\ Before(p, k) # p
<1> DEFINE p == Place(seq, t)
           n == IF p = Len(seq) + 1 THEN p ELSE Len(seq)
           f == [k \in 1 .. n |-> IF k = 1 THEN t ELSE IF k <= p THEN seq[k - 1] ELSE seq[k]]
<1>1. \E x \in 1 .. Len(seq) + 1 :
          IF x = Len(seq) + 1 THEN \A q \in 1 .. Len(seq) : seq[q] # t ELSE seq[x] = t
  <2>1. CASE \E q \in 1 .. Len(seq) : seq[q] = t
    <3> PICK q \in 1 .. Len(seq) : seq[q] = t
      BY <2>1
    <3> WITNESS q \in 1 .. Len(seq) + 1
    <3> QED OBVIOUS
  <2>2. CASE \A q \in 1 .. Len(seq) : seq[q] # t
    BY <2>2
  <2> QED BY <2>1, <2>2
<1>2. /\ p \in 1 .. Len(seq) + 1
      /\ IF p = Len(seq) + 1 THEN \A q \in 1 .. Len(seq) : seq[q] # t ELSE seq[p] = t
  BY <1>1 DEF Place
<1>3. Touch(seq, t) = f
  BY DEF Touch
<1> HIDE DEF p
<1>4. n \in Nat /\ n >= 1
  BY <1>2
<1>5. \A q \in 1 .. Len(seq) : seq[q] = t <=> q = p
  BY <1>2
<1>6. \A k \in 1 .. n : f[k] \in Nat
  <2> SUFFICES ASSUME NEW k \in 1 .. n PROVE f[k] \in Nat
    OBVIOUS
  <2>1. CASE k = 1
    BY <2>1
  <2>2. CASE k # 1 /\ k <= p
    BY <2>2, <1>2
  <2>3. CASE k # 1 /\ ~(k <= p)
    BY <2>3, <1>2
  <2> QED BY <2>1, <2>2, <2>3
<1>7. f \in Seq(Nat) /\ Len(f) = n
  <2> HIDE DEF n
  <2>1. f \in [1 .. n -> Nat]
    BY <1>6
  <2> HIDE DEF f
  <2> QED BY <1>4, <2>1
<1>8. f[1] = t
  BY <1>4
<1>9. ASSUME NEW k \in 2 .. n
      PROVE  f[k] = seq[Before(p, k)] /\ Before(p, k) \in 1 .. Len(seq) /\ Before(p, k) # p
  BY <1>2, <1>4 DEF Before
<1> HIDE DEF f, n
<1> p \in 1 .. Len(seq) + 1
  BY <1>2
<1> WITNESS p \in 1 .. Len(seq) + 1
<1> QED BY <1>3, <1>5, <1>7, <1>8, <1>9 DEF n

\* The history after an access: the tag is in front, the others keep their order.
LEMMA Touched ==
    ASSUME Recent, NEW t \in Nat, touched' = Touch(touched, t)
    PROVE  \E p \in Nat \ {0} :
              /\ touched' \in Seq(Nat) /\ Len(touched) \in Nat /\ Len(touched') \in Nat
              /\ Len(touched) <= Len(touched') /\ p <= Len(touched')
              /\ \A q \in 1 .. Len(touched) : touched[q] = t <=> q = p
              /\ touched'[1] = t
              /\ \A j \in 2 .. Len(touched') :
                    touched'[j] = touched[Before(p, j)] /\ touched'[j] # t
              /\ \A x, y \in 1 .. Len(touched') : x # y => touched'[x] # touched'[y]
<1>1. touched \in Seq(Nat) /\ \A p, q \in 1 .. Len(touched) : p # q => touched[p] # touched[q]
  BY DEF Recent
<1>2. PICK p \in 1 .. Len(touched) + 1 :
         /\ \A q \in 1 .. Len(touched) : touched[q] = t <=> q = p
         /\ touched' \in Seq(Nat)
         /\ Len(touched') = IF p = Len(touched) + 1 THEN p ELSE Len(touched)
         /\ touched'[1] = t
         /\ \A j \in 2 .. Len(touched') :
               /\ touched'[j] = touched[Before(p, j)]
               /\ Before(p, j) \in 1 .. Len(touched) /\ Before(p, j) # p
  <2>1. \E p \in 1 .. Len(touched) + 1 :
            /\ \A q \in 1 .. Len(touched) : touched[q] = t <=> q = p
            /\ Touch(touched, t) \in Seq(Nat)
            /\ Len(Touch(touched, t)) = IF p = Len(touched) + 1 THEN p ELSE Len(touched)
            /\ Touch(touched, t)[1] = t
            /\ \A j \in 2 .. Len(Touch(touched, t)) :
                  /\ Touch(touched, t)[j] = touched[Before(p, j)]
                  /\ Before(p, j) \in 1 .. Len(touched) /\ Before(p, j) # p
    BY <1>1, TouchIs
  <2> QED BY <2>1
<1>3. /\ Len(touched) \in Nat /\ Len(touched') \in Nat \ {0} /\ p \in Nat \ {0}
        /\ Len(touched) <= Len(touched') /\ p <= Len(touched')
  BY <1>1, <1>2
<1>4. \A x, y \in 1 .. Len(touched') : x # y => touched'[x] # touched'[y]
  <2> SUFFICES ASSUME NEW x \in 1 .. Len(touched'), NEW y \in 1 .. Len(touched'), x < y
               PROVE  touched'[x] # touched'[y]
    BY <1>2
  <2>1. y \in 2 .. Len(touched') /\ touched'[y] # t
    <3>1. y \in 2 .. Len(touched')
      BY <1>3
    <3> QED BY <3>1, <1>2
  <2>2. CASE x # 1
    <3>1. x \in 2 .. Len(touched')
      BY <2>2, <1>3
    <3>2. Before(p, x) < Before(p, y)
      BY <3>1, <2>1, <1>3, BeforeOrder
    <3>3. /\ touched'[x] = touched[Before(p, x)] /\ touched'[y] = touched[Before(p, y)]
          /\ Before(p, x) \in 1 .. Len(touched) /\ Before(p, y) \in 1 .. Len(touched)
      BY <3>1, <2>1, <1>2
    <3> QED BY <3>2, <3>3, <1>1
  <2> QED BY <2>1, <2>2, <1>2
<1>5. \A j \in 2 .. Len(touched') : touched'[j] = touched[Before(p, j)] /\ touched'[j] # t
  BY <1>2
<1> QED BY <1>2, <1>4, <1>5, <1>3

LEMMA ReadCacheRecent ==
    ASSUME IInv, Recent, NEW k \in 1 .. Len(Items), ReadCache(k)
    PROVE  Recent'
<1> DEFINE n == Len(Items)
           t == Items[k].Tag
<1>1. /\ Items \in Seq(Item) /\ n \in Nat /\ t \in Nat /\ Time \in Nat
      /\ \A a, b \in 1 .. n : a # b => Items[a].Tag # Items[b].Tag
  BY ItemsType DEF IInv, Item, CacheCoherent
<1>2. touched' = Touch(touched, t)
  BY DEF ReadCache
<1>3. PICK p \in Nat \ {0} :
         /\ touched' \in Seq(Nat) /\ Len(touched) \in Nat /\ Len(touched') \in Nat
         /\ Len(touched) <= Len(touched') /\ p <= Len(touched')
         /\ \A q \in 1 .. Len(touched) : touched[q] = t <=> q = p
         /\ touched'[1] = t
         /\ \A j \in 2 .. Len(touched') :
               touched'[j] = touched[Before(p, j)] /\ touched'[j] # t
         /\ \A x, y \in 1 .. Len(touched') : x # y => touched'[x] # touched'[y]
  BY <1>1, <1>2, Touched
<1> HIDE DEF t
<1>4. /\ n \in Nat /\ Len(touched) \in Nat /\ Len(touched') \in Nat
      /\ Len(touched) <= Len(touched')
  BY <1>1, <1>3
<1>5. ASSUME ~wrapped'
      PROVE  /\ Len(Items') <= Len(touched')
             /\ \A a \in 1 .. n : Items'[a].Time < Time'
             /\ \A a \in 1 .. n : \E q \in 1 .. n : touched'[q] = Items'[a].Tag
             /\ \A q \in 1 .. n : \E a \in 1 .. n : Items'[a].Tag = touched'[q]
             /\ \A a, b, x, y \in 1 .. n :
                   x < y /\ touched'[x] = Items'[a].Tag /\ touched'[y] = Items'[b].Tag
                      => Items'[b].Time < Items'[a].Time
  <2>1. ~wrapped /\ Time' = Time + 1
    BY <1>5, TickType DEF IInv, ReadCache
  <2>2. /\ n <= Len(touched)
        /\ \A a \in 1 .. n : Items[a].Time < Time
        /\ \A a \in 1 .. n : \E q \in 1 .. n : touched[q] = Items[a].Tag
        /\ \A q \in 1 .. n : \E a \in 1 .. n : Items[a].Tag = touched[q]
        /\ \A a, b, x, y \in 1 .. n :
              x < y /\ touched[x] = Items[a].Tag /\ touched[y] = Items[b].Tag
                 => Items[b].Time < Items[a].Time
    BY <2>1 DEF Recent
  <2>3. p \in 1 .. n /\ 1 .. n \subseteq 1 .. Len(touched) /\ 2 .. n \subseteq 2 .. Len(touched')
    <3>1. 1 .. n \subseteq 1 .. Len(touched) /\ 2 .. n \subseteq 2 .. Len(touched')
      <4>1. n <= Len(touched)
        BY <2>2
      <4> QED BY <4>1, <1>4
    <3>2. PICK q \in 1 .. n : touched[q] = t
      BY <2>2 DEF t
    <3> QED BY <3>1, <3>2, <1>3
  <2>4. /\ Len(Items') = n
        /\ \A a \in 1 .. n : Items'[a].Tag = Items[a].Tag
        /\ \A a \in 1 .. n : Items'[a].Time = IF a = k THEN Time ELSE Items[a].Time
    <3>1. Items' = [Items EXCEPT ![k] = [Items[k] EXCEPT !.Time = Time]]
      BY DEF ReadCache
    <3>2. [Items[k] EXCEPT !.Time = Time] \in Item
          /\ [Items[k] EXCEPT !.Time = Time].Time = Time
      BY ItemsType DEF Item, IInv
    <3>3. \A a \in 1 .. n : Items'[a] = IF a = k THEN [Items[k] EXCEPT !.Time = Time] ELSE Items[a]
      BY <3>1, <1>1
    <3> QED BY <3>2, <3>3, ReadCacheKeeps DEF IInv
  <2>5. Len(Items') <= Len(touched') /\ \A a \in 1 .. n : Items'[a].Time < Time'
    <3>1. ASSUME NEW a \in 1 .. n PROVE Items'[a].Time < Time'
      <4>1. Items[a].Time \in Nat
        BY ItemsType DEF IInv, Item
      <4>2. Items'[a].Time \in {Time, Items[a].Time} /\ Items[a].Time < Time
        BY <2>2, <2>4
      <4> QED BY <4>1, <4>2, <2>1, <1>1
    <3>2. n <= Len(touched')
      BY <2>2, <1>1, <1>4
    <3> QED BY <3>1, <3>2, <2>4
  <2>behind. \A j \in 2 .. n : touched'[j] = touched[Before(p, j)] /\ touched'[j] # t
    BY <2>3, <1>3
  <2>6. ASSUME NEW a \in 1 .. n PROVE \E q \in 1 .. n : touched'[q] = Items'[a].Tag
    <3>1. CASE a = k
      BY <3>1, <2>4, <1>1, <1>3 DEF t
    <3>2. CASE a # k
      <4> PICK q \in 1 .. n : touched[q] = Items[a].Tag
        BY <2>2
      <4>1. q # p
        BY <3>2, <2>3, <2>2, <1>1, <1>3 DEF t
      <4>0. n \in Nat /\ p \in 1 .. n
        BY <2>3, <1>1
      <4>2. PICK x \in 2 .. n : Before(p, x) = q
        BY <4>0, <4>1, BeforeOnto
      <4>3. x \in 1 .. n
        BY <1>1
      <4> QED BY <4>2, <4>3, <2>4, <2>behind
    <3> QED BY <3>1, <3>2
  <2>7. ASSUME NEW x \in 1 .. n PROVE \E a \in 1 .. n : Items'[a].Tag = touched'[x]
    <3>1. CASE x = 1
      BY <3>1, <2>4, <1>3 DEF t
    <3>2. CASE x # 1
      <4>1. x \in 2 .. n
        BY <3>2, <1>1
      <4>2. Before(p, x) \in 1 .. n
        BY <4>1, <2>3, <1>1, <1>4, BeforeOrder
      <4>3. PICK a \in 1 .. n : Items[a].Tag = touched[Before(p, x)]
        BY <4>2, <2>2
      <4> QED BY <4>1, <4>3, <2>4, <2>behind
    <3> QED BY <3>1, <3>2
  <2>8. ASSUME NEW a \in 1 .. n, NEW b \in 1 .. n, NEW x \in 1 .. n, NEW y \in 1 .. n,
               x < y, touched'[x] = Items'[a].Tag, touched'[y] = Items'[b].Tag
        PROVE  Items'[b].Time < Items'[a].Time
    <3>1. y \in 2 .. n
      BY <2>8, <1>1
    <3>2. b # k
      BY <3>1, <2>4, <2>8, <2>behind DEF t
    <3>3. CASE x = 1
      <4>1. a = k
        BY <3>3, <2>4, <2>8, <1>1, <1>3 DEF t
      <4> QED BY <4>1, <3>2, <2>2, <2>4
    <3>4. CASE x # 1
      <4>1. x \in 2 .. n
        BY <3>4, <1>1
      <4>2. /\ Before(p, x) \in 1 .. n /\ Before(p, y) \in 1 .. n
            /\ Before(p, x) < Before(p, y)
        BY <4>1, <3>1, <2>3, <2>8, <1>1, <1>4, BeforeOrder
      <4>3. a # k
        BY <4>1, <2>4, <2>8, <2>behind DEF t
      <4>4. touched[Before(p, x)] = Items[a].Tag /\ touched[Before(p, y)] = Items[b].Tag
        BY <4>1, <3>1, <2>4, <2>8, <2>behind
      <4>5. Items[b].Time < Items[a].Time
        BY <4>2, <4>4, <2>2
      <4> QED BY <4>3, <4>5, <3>2, <2>4
    <3> QED BY <3>3, <3>4
  <2> QED BY <2>5, <2>6, <2>7, <2>8
<1>6. Len(Items') = n
  BY ReadCacheKeeps DEF IInv
<1> QED BY <1>3, <1>5, <1>6 DEF Recent

\* WriteCache: the new sector takes the place of the item accessed longest ago,
\* or a place that was free.
LEMMA WriteCacheRecent ==
    ASSUME IInv, Recent, NEW t \in Nat, NEW data \in Nat,
           \A k \in 1 .. Len(Items) : Items[k].Tag # t,
           WriteCache(t, data)
    PROVE  Recent'
<1> DEFINE n == Len(Items)
           item == [Tag |-> t, Time |-> Time, Data |-> data]
<1>1. /\ Items \in Seq(Item) /\ n \in Nat /\ Time \in Nat
      /\ \A a, b \in 1 .. n : a # b => Items[a].Tag # Items[b].Tag
      /\ \A a \in 1 .. n : Items[a].Time \in Nat
  BY ItemsType DEF IInv, Item, CacheCoherent
<1>2. touched' = Touch(touched, t)
  BY DEF WriteCache
<1>3. PICK p \in Nat \ {0} :
         /\ touched' \in Seq(Nat) /\ Len(touched) \in Nat /\ Len(touched') \in Nat
         /\ Len(touched) <= Len(touched') /\ p <= Len(touched')
         /\ \A q \in 1 .. Len(touched) : touched[q] = t <=> q = p
         /\ touched'[1] = t
         /\ \A j \in 2 .. Len(touched') :
               touched'[j] = touched[Before(p, j)] /\ touched'[j] # t
         /\ \A x, y \in 1 .. Len(touched') : x # y => touched'[x] # touched'[y]
  BY <1>2, Touched
<1>4. item \in Item /\ item.Tag = t /\ item.Time = Time
  BY <1>1 DEF Item
<1> HIDE DEF item
<1>5. ASSUME ~wrapped'
      PROVE  /\ Len(Items') <= Len(touched')
             /\ \A a \in 1 .. Len(Items') : Items'[a].Time < Time'
             /\ \A a \in 1 .. Len(Items') :
                   \E q \in 1 .. Len(Items') : touched'[q] = Items'[a].Tag
             /\ \A q \in 1 .. Len(Items') :
                   \E a \in 1 .. Len(Items') : Items'[a].Tag = touched'[q]
             /\ \A a, b, x, y \in 1 .. Len(Items') :
                   x < y /\ touched'[x] = Items'[a].Tag /\ touched'[y] = Items'[b].Tag
                      => Items'[b].Time < Items'[a].Time
  <2>1. ~wrapped /\ Time' = Time + 1
    BY <1>5, TickType DEF IInv, WriteCache
  <2>2. /\ n <= Len(touched)
        /\ \A a \in 1 .. n : Items[a].Time < Time
        /\ \A a \in 1 .. n : \E q \in 1 .. n : touched[q] = Items[a].Tag
        /\ \A q \in 1 .. n : \E a \in 1 .. n : Items[a].Tag = touched[q]
        /\ \A a, b, x, y \in 1 .. n :
              x < y /\ touched[x] = Items[a].Tag /\ touched[y] = Items[b].Tag
                 => Items[b].Time < Items[a].Time
    BY <2>1 DEF Recent
  <2>3. p > n
    <3> SUFFICES ASSUME p <= n PROVE FALSE
      BY <1>1
    <3>1. p \in 1 .. n /\ p \in 1 .. Len(touched)
      <4>1. n <= Len(touched) /\ Len(touched) \in Nat
        BY <2>2, <1>3
      <4> QED BY <4>1, <1>1
    <3>2. touched[p] = t
      BY <3>1, <1>3
    <3> QED BY <3>1, <3>2, <2>2
  \* The slot that is written, and what is left in the others.
  <2>4. \E m \in {n, n + 1}, v \in 1 .. n + 1 :
           /\ v <= m /\ Len(Items') = m /\ Items'[v] = item
           /\ \A a \in 1 .. m : a # v => a \in 1 .. n /\ Items'[a] = Items[a]
           /\ \A a \in 1 .. m : a # v => \E q \in 1 .. m - 1 : touched[q] = Items[a].Tag
           /\ \A q \in 1 .. m - 1 : \E a \in 1 .. m : a # v /\ Items[a].Tag = touched[q]
    <3>1. CASE \E v \in 1 .. n : LeastRecent(v) /\ Items' = [Items EXCEPT ![v] = item]
      <4> PICK v \in 1 .. n : LeastRecent(v) /\ Items' = [Items EXCEPT ![v] = item]
        BY <3>1
      <4>1. Len(Items') = n /\ Items'[v] = item
            /\ \A a \in 1 .. n : a # v => Items'[a] = Items[a]
        BY <1>1, <1>4
      <4>2. n \in 1 .. n /\ 1 .. n - 1 \subseteq 1 .. n
        BY <1>1
      <4>3. PICK b \in 1 .. n : Items[b].Tag = touched[n]
        BY <4>2, <2>2
      <4>4. b = v
        <5> SUFFICES ASSUME b # v PROVE FALSE
          OBVIOUS
        <5>1. PICK q \in 1 .. n : touched[q] = Items[v].Tag
          BY <2>2
        <5>2. q < n
          BY <5>1, <4>3, <1>1
        <5>3. Items[b].Time < Items[v].Time
          BY <5>1, <5>2, <4>2, <4>3, <2>2
        <5>4. Items[v].Time <= Items[b].Time
          BY ItemsType DEF LeastRecent, IInv
        <5> QED BY <5>3, <5>4, <1>1
      <4>5. ASSUME NEW a \in 1 .. n, a # v
            PROVE  \E q \in 1 .. n - 1 : touched[q] = Items[a].Tag
        <5>1. PICK q \in 1 .. n : touched[q] = Items[a].Tag
          BY <2>2
        <5>2. q # n
          BY <5>1, <4>3, <4>4, <4>5, <1>1
        <5> QED BY <5>1, <5>2, <1>1
      <4>6. ASSUME NEW q \in 1 .. n - 1
            PROVE  \E a \in 1 .. n : a # v /\ Items[a].Tag = touched[q]
        <5>1. PICK a \in 1 .. n : Items[a].Tag = touched[q]
          BY <4>2, <2>2
        <5>2. q # n /\ q \in 1 .. Len(touched) /\ n \in 1 .. Len(touched)
          <6>1. n <= Len(touched) /\ Len(touched) \in Nat
            BY <2>2, <1>3
          <6> QED BY <6>1, <1>1
        <5>3. touched[q] # touched[n]
          <6>1. \A x, y \in 1 .. Len(touched) : x # y => touched[x] # touched[y]
            BY Zenon DEF Recent
          <6> QED BY <5>2, <6>1, Zenon
        <5> QED BY <5>1, <5>3, <4>3, <4>4
      <4>7. v \in 1 .. n + 1 /\ v <= n
        BY <1>1
      <4> QED BY <4>1, <4>5, <4>6, <4>7
    <3>2. CASE Items' = Append(Items, item)
      <4>1. Len(Items') = n + 1 /\ Items'[n + 1] = item
            /\ \A a \in 1 .. n : Items'[a] = Items[a]
        BY <3>2, <1>1, <1>4
      <4>2. \A a \in 1 .. n + 1 : a # n + 1 => a \in 1 .. n
        BY <1>1
      <4>3. n + 1 \in 1 .. n + 1 /\ n + 1 <= n + 1 /\ (n + 1) - 1 = n
            /\ \A a \in 1 .. n : a \in 1 .. n + 1 /\ a # n + 1
        BY <1>1
      <4>4. \A a \in 1 .. n + 1 : a # n + 1 =>
               \E q \in 1 .. (n + 1) - 1 : touched[q] = Items[a].Tag
        BY <4>2, <4>3, <2>2
      <4>5. \A q \in 1 .. (n + 1) - 1 :
               \E a \in 1 .. n + 1 : a # n + 1 /\ Items[a].Tag = touched[q]
        <5> SUFFICES ASSUME NEW q \in 1 .. n
                     PROVE  \E a \in 1 .. n + 1 : a # n + 1 /\ Items[a].Tag = touched[q]
          BY <4>3
        <5>1. PICK a \in 1 .. n : Items[a].Tag = touched[q]
          BY <2>2
        <5> QED BY <5>1, <4>3
      <4> QED BY <4>1, <4>2, <4>3, <4>4, <4>5
    <3> QED BY <3>1, <3>2, ItemsType DEF WriteCache, item, IInv
  <2>5. PICK m \in {n, n + 1}, v \in 1 .. n + 1 :
           /\ v <= m /\ Len(Items') = m /\ Items'[v] = item
           /\ \A a \in 1 .. m : a # v => a \in 1 .. n /\ Items'[a] = Items[a]
           /\ \A a \in 1 .. m : a # v => \E q \in 1 .. m - 1 : touched[q] = Items[a].Tag
           /\ \A q \in 1 .. m - 1 : \E a \in 1 .. m : a # v /\ Items[a].Tag = touched[q]
    BY <2>4
  <2>6. /\ m \in Nat \ {0} /\ v \in 1 .. m /\ m <= p
        /\ m - 1 <= n /\ 1 .. m - 1 \subseteq 1 .. n /\ m <= Len(touched')
    <3>1. p <= Len(touched') /\ Len(touched') \in Nat
      BY <1>3
    <3> QED BY <3>1, <2>3, <2>5, <1>1
  <2>7. \A j \in 2 .. m : touched'[j] = touched[j - 1] /\ touched'[j] # t /\ j - 1 \in 1 .. m - 1
    <3> SUFFICES ASSUME NEW j \in 2 .. m
                 PROVE  touched'[j] = touched[j - 1] /\ touched'[j] # t /\ j - 1 \in 1 .. m - 1
      OBVIOUS
    <3>1. Before(p, j) = j - 1 /\ j - 1 \in 1 .. m - 1
      BY <2>6, BeforeOrder
    <3>2. j \in 2 .. Len(touched')
      BY <2>6, Len(touched') \in Nat, <1>3
    <3> QED BY <3>1, <3>2, <1>3
  <2>8. ASSUME NEW a \in 1 .. m PROVE Items'[a].Time < Time'
    <3>1. CASE a = v
      BY <3>1, <2>1, <2>5, <1>1, <1>4
    <3>2. CASE a # v
      <4>1. Items'[a].Time \in Nat /\ Items'[a].Time < Time
        BY <3>2, <2>2, <2>5, <1>1
      <4> QED BY <4>1, <2>1, <1>1
    <3> QED BY <3>1, <3>2
  <2>9. ASSUME NEW a \in 1 .. m PROVE \E x \in 1 .. m : touched'[x] = Items'[a].Tag
    <3>1. CASE a = v
      BY <3>1, <2>5, <2>6, <1>3, <1>4
    <3>2. CASE a # v
      <4> PICK q \in 1 .. m - 1 : touched[q] = Items[a].Tag
        BY <3>2, <2>5
      <4>1. q + 1 \in 2 .. m /\ q + 1 \in 1 .. m /\ (q + 1) - 1 = q
        BY <2>6
      <4>2. touched'[q + 1] = touched[q]
        BY <4>1, <2>7
      <4> QED BY <4>1, <4>2, <3>2, <2>5
    <3> QED BY <3>1, <3>2
  <2>10. ASSUME NEW x \in 1 .. m PROVE \E a \in 1 .. m : Items'[a].Tag = touched'[x]
    <3>1. CASE x = 1
      BY <3>1, <2>5, <2>6, <1>3, <1>4
    <3>2. CASE x # 1
      <4>1. x \in 2 .. m
        BY <3>2, <2>6
      <4>2. PICK a \in 1 .. m : a # v /\ Items[a].Tag = touched[x - 1]
        BY <4>1, <2>5, <2>7
      <4> QED BY <4>1, <4>2, <2>5, <2>7
    <3> QED BY <3>1, <3>2
  <2>11. ASSUME NEW a \in 1 .. m, NEW b \in 1 .. m, NEW x \in 1 .. m, NEW y \in 1 .. m,
                x < y, touched'[x] = Items'[a].Tag, touched'[y] = Items'[b].Tag
         PROVE  Items'[b].Time < Items'[a].Time
    <3>1. y \in 2 .. m
      BY <2>11, <2>6
    <3>2. b # v /\ b \in 1 .. n /\ Items'[b] = Items[b] /\ touched[y - 1] = Items[b].Tag
      BY <3>1, <2>5, <2>7, <2>11, <1>4
    <3>3. CASE x = 1
      <4>1. a = v
        <5> SUFFICES ASSUME a # v PROVE FALSE
          OBVIOUS
        <5>1. a \in 1 .. n /\ Items'[a] = Items[a]
          BY <2>5
        <5> QED BY <5>1, <3>3, <2>11, <1>3
      <4> QED BY <4>1, <3>2, <2>2, <2>5, <1>4
    <3>4. CASE x # 1
      <4>1. x \in 2 .. m
        BY <3>4, <2>6
      <4>2. a # v /\ a \in 1 .. n /\ Items'[a] = Items[a] /\ touched[x - 1] = Items[a].Tag
        BY <4>1, <2>5, <2>7, <2>11, <1>4
      <4>3. x - 1 \in 1 .. n /\ y - 1 \in 1 .. n /\ x - 1 < y - 1
        <5>1. m \in Nat /\ n \in Nat /\ m - 1 <= n /\ x < y
          BY <2>6, <2>11, <1>1
        <5> HIDE DEF n
        <5> QED BY <4>1, <3>1, <5>1
      <4> QED BY <4>2, <4>3, <3>2, <2>2
    <3> QED BY <3>3, <3>4
  <2> QED BY <2>5, <2>6, <2>8, <2>9, <2>10, <2>11
<1> QED BY <1>3, <1>5 DEF Recent

LEMMA NextRecent == IInv /\ Recent /\ [Next]_vars => Recent'
<1> SUFFICES ASSUME IInv, Recent, [Next]_vars PROVE Recent'
  OBVIOUS
<1>1. CASE Hit
  <2> PICK k \in Find(Sector) : ReadCache(k)
    BY <1>1 DEF Hit
  <2>1. k \in 1 .. Len(Items)
    BY ItemsType DEF IInv, Find
  <2> QED BY <2>1, ReadCacheRecent
<1>2. CASE Miss
  <2>1. CASE \E n \in 1 .. nSectors, k \in DOMAIN Items : k \in Find(Sector + n) /\ ReadCache(k)
    BY <2>1, ReadCacheRecent, ItemsType DEF IInv
  <2>2. CASE UNCHANGED cacheVars
    BY <2>2 DEF cacheVars, Recent
  <2> QED BY <1>2, <2>1, <2>2 DEF Miss, Find
<1>3. CASE Store
  <2>1. CASE WriteCache(Sector + i, tmpbuf[i + 1])
    <3>1. pc = "store" /\ i < count
      BY <1>3 DEF Store
    <3>2. /\ \A k \in 1 .. Len(Items), j \in i .. count - 1 : Items[k].Tag # Sector + j
          /\ Len(tmpbuf) = count
      BY <3>1 DEF IInv, Chunking
    <3>3. i \in Nat /\ count \in Nat /\ Sector \in Nat /\ tmpbuf \in Seq(Nat)
      BY DEF IInv, TypeInv
    <3>4. i \in i .. count - 1 /\ i + 1 \in 1 .. Len(tmpbuf)
      BY <3>1, <3>2, <3>3
    <3>5. Sector + i \in Nat /\ tmpbuf[i + 1] \in Nat
      BY <3>3, <3>4
    <3> QED BY <2>1, <3>2, <3>4, <3>5, WriteCacheRecent
  <2>2. CASE UNCHANGED cacheVars
    BY <2>2 DEF cacheVars, Recent
  <2> QED BY <1>3, <2>1, <2>2 DEF Store
<1>4. CASE UNCHANGED cacheVars
  BY <1>4 DEF cacheVars, Recent
<1> QED BY <1>1, <1>2, <1>3, <1>4
        DEF Next, Step, Call, Check, Done, ReadSucceeds, ReadFails, Deliver, vars, cacheVars

\* For every size of the cache and until the clock wraps: the cache holds the
\* sectors accessed most recently, so that WriteCache gives up the least recently
\* used one (io.c 345-381).
THEOREM MostRecentCachedHolds == Spec => []MostRecentCached
<1>1. Init => Recent
  BY DEF Init, Recent
<1>2. IInv /\ Recent => MostRecentCached
  <2> SUFFICES ASSUME IInv, Recent, ~wrapped
               PROVE  {Items[k].Tag : k \in DOMAIN Items} = {touched[k] : k \in 1 .. Len(Items)}
    BY DEF MostRecentCached
  <2>1. DOMAIN Items = 1 .. Len(Items)
    BY ItemsType DEF IInv
  <2>2. /\ \A a \in 1 .. Len(Items) : \E p \in 1 .. Len(Items) : touched[p] = Items[a].Tag
        /\ \A p \in 1 .. Len(Items) : \E a \in 1 .. Len(Items) : Items[a].Tag = touched[p]
    BY DEF Recent
  <2>3. ASSUME NEW x \in {Items[k].Tag : k \in DOMAIN Items}
        PROVE  x \in {touched[k] : k \in 1 .. Len(Items)}
    <3> PICK a \in 1 .. Len(Items) : x = Items[a].Tag
      BY <2>1
    <3> QED BY <2>2
  <2>4. ASSUME NEW x \in {touched[k] : k \in 1 .. Len(Items)}
        PROVE  x \in {Items[k].Tag : k \in DOMAIN Items}
    <3> PICK p \in 1 .. Len(Items) : x = touched[p]
      OBVIOUS
    <3> QED BY <2>1, <2>2
  <2> QED BY <2>3, <2>4
<1> QED BY <1>1, <1>2, InitIInv, NextIInv, NextRecent, PTL DEF Spec
=============================================================================
