------------------------------ MODULE FatFile ------------------------------
(***************************************************************************)
(* An open file on a FAT volume (src/src/fat.c, 555-768): _ReadFile reads  *)
(* runs of consecutive clusters, _SetFilePointer walks the cluster chain.  *)
(*                                                                         *)
(* A volume is its FAT type, the chain of clusters of the file and its     *)
(* size.  A byte of the disk is identified by its cluster and its offset   *)
(* there.  What the environment decides: whether a sector can be read, and *)
(* how many clusters malloc can give.                                      *)
(***************************************************************************)
EXTENDS FatTable, FiniteSetsExt

CONSTANTS
    BytsPerClus,    \* bytes per cluster
    Word,           \* DIR_FstClusLO holds the first cluster modulo this
    Volumes,        \* the volumes there are: [type, chain, size]
    Reserved,       \* the four bits of FAT32 entries that are no part of the number
    Requests        \* the calls of the file's user, as in ByteFile

ASSUME ParamAssumption ==
    /\ BytsPerClus \in Nat \ {0}
    /\ Word \in Nat \ {0}
    /\ Reserved \in 0 .. 6
    /\ \A v \in Volumes :
          /\ v.type \in FatTypes /\ v.size \in Nat
          /\ v.chain \in Seq(2 .. LastCluster)
          /\ \A k \in DOMAIN v.chain : v.chain[k] < EndCluster(v.type)
          /\ \A k, j \in DOMAIN v.chain : k # j => v.chain[k] # v.chain[j]
          /\ Len(v.chain) = (v.size + BytsPerClus - 1) \div BytsPerClus

\* What the arguments of ReadFile and SetFilePointer may be.
IsCall(r) ==
    \/ r.op = "read" /\ r.n \in Nat
    \/ r.op = "seek" /\ r.offset \in Int /\ r.whence \in {"begin", "current", "end"}

ASSUME RequestAssumption == \A r \in Requests : IsCall(r)

VARIABLES
    vol,            \* the volume
    Cursor, Cluster,    \* of the FILE_INFO
    pc,             \* idle; read: _ReadFile's outer loop, run: its inner loop; seek
    request,        \* the call in progress
    start,          \* Cursor when it was made
    nBytes,         \* bytes still to be read
    Buffer,         \* bytes read so far
    nextClus, nClusters,    \* the run: where the chain goes on, clusters left
    failed,         \* has a sector been unreadable or malloc failed in this call?
    clean,          \* history: no call has met an error so far
    ok              \* the BOOL that _SetFilePointer returned

vars == <<vol, Cursor, Cluster, pc, request, start, nBytes, Buffer, nextClus,
          nClusters, failed, clean, ok>>

Valid(c) == c >= 2 /\ c < EndCluster(vol.type)

Byte(c, offset) == <<c, offset>>

\* The bytes of a file, in order.
ContentOf(v) ==
    [k \in 1 .. v.size |->
        Byte(v.chain[((k - 1) \div BytsPerClus) + 1], (k - 1) % BytsPerClus)]

FirstCluster(v) == IF v.chain = << >> THEN 0 ELSE v.chain[1]

\* The volume's allocation table.
Table ==
    [c \in 0 .. LastCluster |->
        Links(vol.type, {vol.chain}, LastCluster)[c]
            + (IF vol.type = 32 THEN Reserved * 16 ^ 7 ELSE 0)]

NextClusters(c) == GetNextCluster(vol.type, Table, c)

----------------------------------------------------------------------------
(* _OpenFile, _ReadFile *)

Idle == pc = "idle"

CallRead(r) ==
    /\ Idle
    /\ r.op = "read"
    /\ request' = r
    /\ start' = Cursor
    /\ nBytes' = IF Cursor + r.n > vol.size THEN vol.size - Cursor ELSE r.n
    /\ Buffer' = << >>
    /\ failed' = FALSE
    /\ clean' = (clean /\ ~failed)
    /\ ok' = TRUE
    /\ pc' = "read"
    /\ UNCHANGED <<vol, Cursor, Cluster, nextClus, nClusters>>

Read == Len(Buffer)

\* The condition of the outer loop: Read counts up while nBytes counts down.
More == Valid(Cluster) /\ Read < nBytes

ReadDone ==
    /\ pc = "read"
    /\ ~More
    /\ pc' = "idle"
    /\ UNCHANGED <<vol, Cursor, Cluster, request, start, nBytes, Buffer, nextClus,
                   nClusters, failed, clean, ok>>

MutRunLength(n, next) ==
    LET len == ((Cursor % BytsPerClus) + nBytes + BytsPerClus - 1) \div BytsPerClus IN
    /\ n \in 1 .. len
    /\ ~(Valid(next) /\ n < len)

\* A run is n clusters long when the chain does not go on with the next cluster
\* or the request ends there.
RunLength(n, next) ==
    LET len == ((Cursor % BytsPerClus) + nBytes + BytsPerClus - 1) \div BytsPerClus IN
    /\ n \in 1 .. len
    /\ \A k \in 1 .. n - 1 :
          \E x \in NextClusters(Cluster + k - 1) : Valid(x.clus) /\ x.clus = Cluster + k
    /\ ~(Valid(next) /\ next = Cluster + n /\ n < len)

FindRun ==
    /\ pc = "read"
    /\ More
    /\ \E n \in 1 .. LastCluster : \E x \in NextClusters(Cluster + n - 1) :
          /\ RunLength(n, x.clus)
          /\ nClusters' = n
          /\ nextClus' = x.clus
          /\ failed' = (failed \/ x.err)
    /\ pc' = "run"
    /\ UNCHANGED <<vol, Cursor, Cluster, request, start, nBytes, Buffer, clean, ok>>

\* How many clusters are read at once: half as many while malloc fails.
Tried(n) == {n} \cup {c \in 2 .. n : \E k \in 1 .. n : c = n \div (2 ^ k)}

\* The clusters first .. first + n - 1 of the disk, as ReadSector delivers them.
ClusterData(first, n) ==
    [k \in 1 .. n * BytsPerClus |->
        Byte(first + (k - 1) \div BytsPerClus, (k - 1) % BytsPerClus)]

Min2(a, b) == IF a <= b THEN a ELSE b

\* The file's pointer moves over len bytes of a run.
Advance(len) ==
    /\ Cluster' = Cluster + ((Cursor + len) \div BytsPerClus - Cursor \div BytsPerClus)
    /\ Cursor' = Cursor + len

ReadPiece ==
    /\ pc = "run"
    /\ nClusters > 0
    /\ \E n \in Tried(nClusters) :
          LET skip == Cursor % BytsPerClus
              len  == Min2(nBytes, n * BytsPerClus - skip)
          IN /\ n = nClusters \/ IoMayFail
             /\ Buffer' = Buffer \o SubSeq(ClusterData(Cluster, n), skip + 1, skip + len)
             /\ nBytes' = nBytes - len
             /\ nClusters' = nClusters - n
             /\ Advance(len)
    /\ UNCHANGED <<vol, pc, request, start, nextClus, failed, clean, ok>>

\* No buffer, or a sector of the piece cannot be read.
PieceFails ==
    /\ pc = "run"
    /\ nClusters > 0
    /\ IoMayFail
    /\ failed' = TRUE
    /\ pc' = "idle"
    /\ UNCHANGED <<vol, Cursor, Cluster, request, start, nBytes, Buffer, nextClus,
                   nClusters, clean, ok>>

RunDone ==
    /\ pc = "run"
    /\ nClusters = 0
    /\ Cluster' = IF Cursor % BytsPerClus = 0 THEN nextClus ELSE Cluster
    /\ pc' = "read"
    /\ UNCHANGED <<vol, Cursor, request, start, nBytes, Buffer, nextClus, nClusters,
                   failed, clean, ok>>

----------------------------------------------------------------------------
(* _SetFilePointer *)

Target(r, cur) ==
    CASE r.whence = "begin"   -> r.offset
      [] r.whence = "current" -> cur + r.offset
      [] r.whence = "end"     -> vol.size - r.offset

MutRewind(t) ==
    LET aligned == (Cursor \div BytsPerClus) * BytsPerClus IN
    /\ Cursor' = IF t < aligned THEN 0 ELSE aligned
    /\ Cluster' = Cluster

\* The old cursor is aligned to its cluster; a target before it starts over from
\* the beginning of the file.
Rewind(t) ==
    LET aligned == (Cursor \div BytsPerClus) * BytsPerClus IN
    IF t < aligned
    THEN Cursor' = 0 /\ Cluster' = FirstCluster(vol) % Word
    ELSE Cursor' = aligned /\ Cluster' = Cluster

CallSeek(r) ==
    /\ Idle
    /\ r.op = "seek"
    /\ request' = r
    /\ start' = Cursor
    /\ Buffer' = << >>
    /\ failed' = FALSE
    /\ clean' = (clean /\ ~failed)
    /\ IF Target(r, Cursor) < 0 \/ Target(r, Cursor) >= vol.size
       THEN pc' = "refuse" /\ UNCHANGED <<Cursor, Cluster>>
       ELSE pc' = "seek" /\ Rewind(Target(r, Cursor))
    /\ UNCHANGED <<vol, nBytes, nextClus, nClusters, ok>>

SeekRefused ==
    /\ pc = "refuse"
    /\ pc' = "idle"
    /\ ok' = FALSE
    /\ UNCHANGED <<vol, Cursor, Cluster, request, start, nBytes, Buffer, nextClus,
                   nClusters, failed, clean>>

SeekTarget == Target(request, start)

MutSeekStep ==
    /\ pc = "seek"
    /\ Cursor + BytsPerClus <= SeekTarget
    /\ \E x \in NextClusters(Cluster) :
          /\ Cluster' = x.clus
          /\ failed' = (failed \/ x.err)
    /\ UNCHANGED <<vol, Cursor, pc, request, start, nBytes, Buffer, nextClus, nClusters,
                   clean, ok>>

SeekStep ==
    /\ pc = "seek"
    /\ Cursor + BytsPerClus <= SeekTarget
    /\ \E x \in NextClusters(Cluster) :
          /\ Cluster' = x.clus
          /\ failed' = (failed \/ x.err)
    /\ Cursor' = Cursor + BytsPerClus
    /\ UNCHANGED <<vol, pc, request, start, nBytes, Buffer, nextClus, nClusters, clean, ok>>

SeekDone ==
    /\ pc = "seek"
    /\ Cursor + BytsPerClus > SeekTarget
    /\ Cursor' = SeekTarget
    /\ pc' = "idle"
    /\ ok' = TRUE
    /\ UNCHANGED <<vol, Cluster, request, start, nBytes, Buffer, nextClus, nClusters,
                   failed, clean>>

----------------------------------------------------------------------------

Init ==
    /\ vol \in Volumes
    /\ Cursor = 0
    /\ Cluster = FirstCluster(vol)
    /\ pc = "idle"
    /\ request = [op |-> "read", n |-> 0]
    /\ start = 0
    /\ nBytes = 0
    /\ Buffer = << >>
    /\ nextClus = 0
    /\ nClusters = 0
    /\ failed = FALSE
    /\ clean = TRUE
    /\ ok = FALSE

Call == \E r \in Requests : CallRead(r) \/ CallSeek(r)

Step ==
    \/ FindRun \/ ReadPiece \/ PieceFails \/ RunDone \/ ReadDone
    \/ SeekStep \/ SeekDone \/ SeekRefused

\* A call runs to its end.
Spec == Init /\ [][Call \/ Step]_vars /\ WF_vars(Step)

----------------------------------------------------------------------------
(* Properties *)

\* Between calls Cluster is the cluster that Cursor is in, or reading stops: the
\* two are updated separately by run reads, partial reads and seeks.
ClusterTracksCursor ==
    Idle /\ Valid(Cluster) => Cluster = vol.chain[(Cursor \div BytsPerClus) + 1]

\* As long as every sector could be read, an open file that is not at its end is
\* ready to read on.
ReadyToRead ==
    Idle /\ clean /\ ~failed /\ Cursor < vol.size => Valid(Cluster)

\* A read without errors returns everything that was asked for, up to the end of
\* the file (fat.c returns early only with an error).
FullRead ==
    Idle /\ request.op = "read" /\ ~failed
        => Len(Buffer) = Min2(request.n, vol.size - start)

\* Every call returns, and the chain walk ends.
EveryCallReturns == ~Idle ~> Idle

Contents == {ContentOf(v) : v \in Volumes}

Promise ==
    INSTANCE ByteFile WITH
        Files   <- Contents,
        content <- ContentOf(vol),
        cursor  <- IF Idle THEN Cursor ELSE start,
        busy    <- ~Idle,
        answer  <- IF Idle THEN [ok |-> ok, data |-> Buffer]
                           ELSE [ok |-> FALSE, data |-> << >>]

\* However the file is fragmented, whatever was read or sought before and
\* wherever a sector is unreadable or memory short: the bytes a read returns are
\* those of the file at the cursor, in order.
Refines == Promise!Spec
=============================================================================
