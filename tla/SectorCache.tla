---------------------------- MODULE SectorCache ----------------------------
(***************************************************************************)
(* ReadSector and the sector cache of one DEVICE (src/src/io.c, 325-484).  *)
(*                                                                         *)
(* A request is served sector by sector from the cache and, where sectors  *)
(* are missing, in chunks read from the drive, which enter the cache one   *)
(* by one.  The contents of a sector are identified by its address on the  *)
(* drive.  What the environment decides: how large a buffer malloc can     *)
(* give, whether the BIOS knows the drive, and whether a read succeeds.    *)
(***************************************************************************)
EXTENDS Naturals, Sequences, FiniteSets, FiniteSetsExt

CONSTANTS
    CACHE_SIZE,     \* cached sectors per device
    MAX_READ_TRY,   \* reads of a chunk before giving up
    StartSector,    \* where the device starts on its drive
    DevSectors,     \* sectors of the device
    Requests,       \* [sector, count] pairs that callers pass
    TimeWrap        \* the ULONG Time counts modulo this

ASSUME ParamAssumption ==
    /\ CACHE_SIZE \in Nat \ {0}
    /\ MAX_READ_TRY \in Nat \ {0}
    /\ StartSector \in Nat
    /\ DevSectors \in Nat
    /\ Requests \subseteq [sector : Nat, count : Nat]
    /\ TimeWrap \in Nat \ {0}

VARIABLES
    Items,          \* the cache: sequence of [Tag, Time, Data]
    Time,           \* its access clock
    pc,             \* where ReadSector is: idle, check, loop, read, store
    request,        \* its arguments
    Sector,         \* the next sector to deliver
    nSectors,       \* how many are still to be delivered
    Buffer,         \* what has been delivered
    tmpbuf,         \* the chunk buffer: what was read into it
    count,          \* its size in sectors
    i,              \* loop counter: tries, then sectors stored in the cache
    errno,
    blocks,         \* heap blocks ReadSector has allocated and not freed
    touched,        \* history: the tags by last access, the most recent first
    wrapped,        \* history: has Time wrapped around?
    spare           \* history: sectors malloc could have given when ENOMEM was returned

cacheVars == <<Items, Time, touched, wrapped>>
vars == <<Items, Time, pc, request, Sector, nSectors, Buffer, tmpbuf, count, i,
          errno, blocks, touched, wrapped, spare>>

DiskData(lba) == lba

Contents == [s \in 0 .. DevSectors - 1 |-> DiskData(StartSector + s)]

\* Where t is in a sequence without duplicates, or just behind its end.
Place(seq, t) ==
    CHOOSE p \in 1 .. Len(seq) + 1 :
        IF p = Len(seq) + 1 THEN \A q \in 1 .. Len(seq) : seq[q] # t ELSE seq[p] = t

\* The sequence with t moved, or added, to its front.
Touch(seq, t) ==
    LET p == Place(seq, t)
    IN [k \in 1 .. (IF p = Len(seq) + 1 THEN p ELSE Len(seq)) |->
            IF k = 1 THEN t ELSE IF k <= p THEN seq[k - 1] ELSE seq[k]]

----------------------------------------------------------------------------
(* The cache *)

\* Where a tag is cached (the first match, as the search finds it).
Find(t) ==
    {k \in DOMAIN Items : Items[k].Tag = t /\ \A j \in 1 .. k - 1 : Items[j].Tag # t}

IsCached(t) == Find(t) # {}

\* The clock after an access.
Tick ==
    /\ Time' = (Time + 1) % TimeWrap
    /\ wrapped' = (wrapped \/ Time' = 0)

\* A successful ReadCache updates the access time.
ReadCache(k) ==
    /\ Items' = [Items EXCEPT ![k].Time = Time]
    /\ Tick
    /\ touched' = Touch(touched, Items[k].Tag)

MutLeastRecent(k) == k = 1

\* The item that a full cache gives up.
LeastRecent(k) ==
    /\ \A j \in DOMAIN Items : Items[k].Time <= Items[j].Time
    /\ \A j \in 1 .. k - 1 : Items[k].Time < Items[j].Time

\* WriteCache takes over the block that holds the data; the block of the item
\* it replaces is freed.
WriteCache(t, data) ==
    LET item == [Tag |-> t, Time |-> Time, Data |-> data] IN
    /\ \/ /\ Len(Items) = CACHE_SIZE
          /\ \E k \in DOMAIN Items : LeastRecent(k) /\ Items' = [Items EXCEPT ![k] = item]
          /\ blocks' = blocks
       \/ /\ Len(Items) # CACHE_SIZE
          /\ Items' = Append(Items, item)
          /\ blocks' = blocks + 1
    /\ Tick
    /\ touched' = Touch(touched, t)

----------------------------------------------------------------------------
(* ReadSector *)

Idle == pc = "idle"

Call(r) ==
    /\ Idle
    /\ request' = r
    /\ pc' = "check"
    /\ Sector' = r.sector
    /\ nSectors' = r.count
    /\ Buffer' = << >>
    /\ errno' = "none"
    /\ spare' = 0
    /\ UNCHANGED <<cacheVars, tmpbuf, count, i, blocks>>

Fail(e) == errno' = e /\ pc' = "idle"

InRange == Sector + nSectors <= DevSectors

MutCheck ==
    /\ pc = "check"
    /\ \/ Fail("EIO")
       \/ pc' = "loop" /\ UNCHANGED errno
    /\ UNCHANGED <<cacheVars, request, Sector, nSectors, Buffer, tmpbuf, count, i, blocks, spare>>

\* GetDriveParameters may fail; a request beyond the device is refused.
Check ==
    /\ pc = "check"
    /\ \/ Fail("EIO")
       \/ InRange /\ pc' = "loop" /\ UNCHANGED errno
    /\ UNCHANGED <<cacheVars, request, Sector, nSectors, Buffer, tmpbuf, count, i, blocks, spare>>

Done ==
    /\ pc = "loop"
    /\ nSectors = 0
    /\ pc' = "idle"
    /\ UNCHANGED <<cacheVars, request, Sector, nSectors, Buffer, tmpbuf, count, i,
                   errno, blocks, spare>>

Advance(n) ==
    /\ Sector' = Sector + n
    /\ nSectors' = nSectors - n

Hit ==
    /\ pc = "loop"
    /\ nSectors > 0
    /\ \E k \in Find(Sector) :
          /\ ReadCache(k)
          /\ Buffer' = Append(Buffer, Items[k].Data)
    /\ Advance(1)
    /\ UNCHANGED <<pc, request, tmpbuf, count, i, errno, blocks, spare>>

\* The run of sectors from Sector on that are not cached, as far as they are
\* asked for: all of them, or up to the first cached one.
Uncached(n) ==
    /\ n \in 1 .. nSectors
    /\ \A j \in 1 .. n - 1 : ~IsCached(Sector + j)
    /\ n = nSectors \/ IsCached(Sector + n)

\* The sizes for which a buffer is tried: n, then half of it while more than one.
Tried(n) == {n} \cup {c \in 2 .. n : \E k \in 1 .. n : c = n \div (2 ^ k)}

\* What is allocated when malloc can give `avail` sectors; 0: nothing.
Chunk(n, avail) == Max({c \in Tried(n) : c <= avail} \cup {0})

\* The probe for cached sectors touches the cached one it finds.
Miss ==
    /\ pc = "loop"
    /\ nSectors > 0
    /\ ~IsCached(Sector)
    /\ \E n \in 1 .. nSectors, avail \in 0 .. nSectors :
          /\ Uncached(n)
          /\ IF n < nSectors
             THEN \E k \in Find(Sector + n) : ReadCache(k)
             ELSE UNCHANGED cacheVars
          /\ IF Chunk(n, avail) = 0
             THEN Fail("ENOMEM") /\ spare' = avail /\ UNCHANGED <<count, blocks>>
             ELSE /\ pc' = "read"
                  /\ count' = Chunk(n, avail)
                  /\ blocks' = blocks + 1
                  /\ UNCHANGED <<errno, spare>>
    /\ i' = 0
    /\ UNCHANGED <<request, Sector, nSectors, Buffer, tmpbuf>>

\* ReadDrive returned the whole chunk.
ReadSucceeds ==
    /\ pc = "read"
    /\ tmpbuf' = [k \in 1 .. count |-> DiskData(StartSector + Sector + k - 1)]
    /\ pc' = "store"
    /\ i' = 0
    /\ UNCHANGED <<cacheVars, request, Sector, nSectors, Buffer, count, errno, blocks, spare>>

MutReadFails ==
    /\ pc = "read"
    /\ i' = i + 1
    /\ IF i + 1 = MAX_READ_TRY
       THEN Fail("EIO") /\ blocks' = blocks
       ELSE UNCHANGED <<pc, errno, blocks>>
    /\ UNCHANGED <<cacheVars, request, Sector, nSectors, Buffer, tmpbuf, count, spare>>

MutRetryForever ==
    /\ pc = "read"
    /\ i' = (i + 1) % MAX_READ_TRY
    /\ UNCHANGED <<cacheVars, pc, request, Sector, nSectors, Buffer, tmpbuf, count,
                   errno, blocks, spare>>

\* It returned less: reset the drive and try again, or give up.
ReadFails ==
    /\ pc = "read"
    /\ i' = i + 1
    /\ IF i + 1 = MAX_READ_TRY
       THEN Fail("EIO") /\ blocks' = blocks - 1
       ELSE UNCHANGED <<pc, errno, blocks>>
    /\ UNCHANGED <<cacheVars, request, Sector, nSectors, Buffer, tmpbuf, count, spare>>

MutStore ==
    /\ pc = "store"
    /\ i < count
    /\ i' = i + 1
    /\ \/ WriteCache(Sector, tmpbuf[i + 1])
       \/ UNCHANGED <<cacheVars, blocks>>
    /\ UNCHANGED <<pc, request, Sector, nSectors, Buffer, tmpbuf, count, errno, spare>>

\* One sector of the chunk enters the cache, if a block can be allocated for it.
Store ==
    /\ pc = "store"
    /\ i < count
    /\ i' = i + 1
    /\ \/ WriteCache(Sector + i, tmpbuf[i + 1])
       \/ UNCHANGED <<cacheVars, blocks>>
    /\ UNCHANGED <<pc, request, Sector, nSectors, Buffer, tmpbuf, count, errno, spare>>

Deliver ==
    /\ pc = "store"
    /\ i = count
    /\ Buffer' = Buffer \o tmpbuf
    /\ blocks' = blocks - 1
    /\ Advance(count)
    /\ pc' = "loop"
    /\ UNCHANGED <<cacheVars, request, tmpbuf, count, i, errno, spare>>

Step == Check \/ Done \/ Hit \/ Miss \/ ReadSucceeds \/ ReadFails \/ Store \/ Deliver

Init ==
    /\ Items = << >>
    /\ Time = 0
    /\ pc = "idle"
    /\ request = [sector |-> 0, count |-> 0]
    /\ Sector = 0
    /\ nSectors = 0
    /\ Buffer = << >>
    /\ tmpbuf = << >>
    /\ count = 0
    /\ i = 0
    /\ errno = "none"
    /\ blocks = 0
    /\ touched = << >>
    /\ wrapped = FALSE
    /\ spare = 0

Next == (\E r \in Requests : Call(r)) \/ Step

\* ReadSector runs to its end once it is called.
Spec == Init /\ [][Next]_vars /\ WF_vars(Step)

----------------------------------------------------------------------------
(* Properties *)

\* Every item of the cache holds what the drive holds for its tag, and no sector
\* is cached twice, also while a chunk is entering the cache.
CacheCoherent ==
    /\ \A k \in DOMAIN Items :
          Items[k].Tag < DevSectors /\ Items[k].Data = Contents[Items[k].Tag]
    /\ \A k, j \in DOMAIN Items : k # j => Items[k].Tag # Items[j].Tag

\* The cache holds the sectors accessed most recently: WriteCache replaces the
\* least recently used one, as long as Time has not wrapped.
MostRecentCached ==
    ~wrapped => {Items[k].Tag : k \in DOMAIN Items} = {touched[k] : k \in 1 .. Len(Items)}

\* Between calls the only blocks that remain allocated are those of the cached
\* sectors: no error path forgets the chunk buffer.
NoBlockLeaked == Idle => blocks = Len(Items)

\* A call fails for want of memory only if there was none for a single sector.
EnomemMeansNoSector == errno = "ENOMEM" => spare = 0

\* Every call returns: the retries are bounded.
EveryCallReturns == (pc # "idle") ~> (pc = "idle")

Promise ==
    INSTANCE BlockDevice WITH
        Errors  <- {"EIO", "ENOMEM"},
        busy    <- pc # "idle",
        answer  <- [data |-> IF Idle THEN Buffer ELSE << >>,
                    error |-> IF Idle THEN errno ELSE "none"]

\* Whatever is cached, evicted, retried or refused, a caller of ReadSector gets
\* the true contents of the first sectors it asked for, and all of them unless
\* there is an error.
Refines == Promise!Spec
=============================================================================
