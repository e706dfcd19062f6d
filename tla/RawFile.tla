------------------------------ MODULE RawFile ------------------------------
(***************************************************************************)
(* A device opened as a file (src/src/raw.c): reads go through a buffer of *)
(* whole sectors, as large as malloc can give.                             *)
(***************************************************************************)
EXTENDS Integers, Sequences, FiniteSets

CONSTANTS
    BytsPerSec,     \* bytes per sector
    DevSectors,     \* sectors of the device
    Requests        \* the calls of the file's user, as in ByteFile

VARIABLES
    Cursor,         \* of the RAWFILE
    pc,             \* idle; loop: in _ReadFile; seek: in _SetFilePointer
    request,        \* the call in progress
    start,          \* Cursor when it was made
    nBytes,         \* bytes still to be read
    Buffer,         \* bytes read so far
    failed,         \* did the call end with an error?
    ok              \* the BOOL that _SetFilePointer returned

vars == <<Cursor, pc, request, start, nBytes, Buffer, failed, ok>>

Size == DevSectors * BytsPerSec

SectorData(first, n) ==
    [k \in 1 .. n * BytsPerSec |->
        <<first + (k - 1) \div BytsPerSec, (k - 1) % BytsPerSec>>]

Content == SectorData(0, DevSectors)

Idle == pc = "idle"

Min2(a, b) == IF a <= b THEN a ELSE b

CallRead(r) ==
    /\ Idle
    /\ r.op = "read"
    /\ request' = r
    /\ start' = Cursor
    /\ nBytes' = r.n
    /\ Buffer' = << >>
    /\ failed' = FALSE
    /\ ok' = TRUE
    /\ pc' = "loop"
    /\ UNCHANGED Cursor

Done ==
    /\ pc = "loop"
    /\ nBytes = 0
    /\ pc' = "idle"
    /\ UNCHANGED <<Cursor, request, start, nBytes, Buffer, failed, ok>>

\* Sectors that the rest of the request touches.
Needed == ((Cursor % BytsPerSec) + nBytes + BytsPerSec - 1) \div BytsPerSec

\* How many sectors are read at once: half as many while malloc fails.
Tried(n) == {n} \cup {c \in 2 .. n : \E k \in 1 .. n : c = n \div (2 ^ k)}

Sector == Cursor \div BytsPerSec

MutReadPiece ==
    /\ pc = "loop"
    /\ nBytes > 0
    /\ \E n \in Tried(Needed) :
          LET len == Min2(nBytes, n * BytsPerSec) IN
          /\ Sector + n <= DevSectors
          /\ Buffer' = Buffer \o SubSeq(SectorData(Sector, n), 1, len)
          /\ nBytes' = nBytes - len
          /\ Cursor' = Cursor + len
    /\ UNCHANGED <<pc, request, start, failed, ok>>

\* ReadSector refuses a piece that ends beyond the device.
ReadPiece ==
    /\ pc = "loop"
    /\ nBytes > 0
    /\ \E n \in Tried(Needed) :
          LET skip == Cursor % BytsPerSec
              len  == Min2(nBytes, n * BytsPerSec - skip)
          IN /\ Sector + n <= DevSectors
             /\ Buffer' = Buffer \o SubSeq(SectorData(Sector, n), skip + 1, skip + len)
             /\ nBytes' = nBytes - len
             /\ Cursor' = Cursor + len
    /\ UNCHANGED <<pc, request, start, failed, ok>>

\* No memory for a buffer, a bad sector, or a piece beyond the device.
PieceFails ==
    /\ pc = "loop"
    /\ nBytes > 0
    /\ failed' = TRUE
    /\ pc' = "idle"
    /\ UNCHANGED <<Cursor, request, start, nBytes, Buffer, ok>>

Target(r, cur) ==
    CASE r.whence = "begin"   -> r.offset
      [] r.whence = "current" -> cur + r.offset
      [] r.whence = "end"     -> Size - r.offset

\* The comparison is unsigned, so that it also refuses a negative target.
InDevice(t) == t >= 0 /\ t < Size

CallSeek(r) ==
    /\ Idle
    /\ r.op = "seek"
    /\ request' = r
    /\ start' = Cursor
    /\ Buffer' = << >>
    /\ failed' = FALSE
    /\ pc' = "seek"
    /\ UNCHANGED <<Cursor, nBytes, ok>>

Seek ==
    /\ pc = "seek"
    /\ ok' = InDevice(Target(request, Cursor))
    /\ Cursor' = IF ok' THEN Target(request, Cursor) ELSE Cursor
    /\ pc' = "idle"
    /\ UNCHANGED <<request, start, nBytes, Buffer, failed>>

Init ==
    /\ Cursor = 0
    /\ pc = "idle"
    /\ request = [op |-> "read", n |-> 0]
    /\ start = 0
    /\ nBytes = 0
    /\ Buffer = << >>
    /\ failed = FALSE
    /\ ok = FALSE

Call == \E r \in Requests : CallRead(r) \/ CallSeek(r)

Step == ReadPiece \/ PieceFails \/ Done \/ Seek

\* A call runs to its end.
Spec == Init /\ [][Call \/ Step]_vars /\ WF_vars(Step)

----------------------------------------------------------------------------
(* Properties *)

Promise ==
    INSTANCE ByteFile WITH
        Files   <- {Content},
        content <- Content,
        cursor  <- IF Idle THEN Cursor ELSE start,
        busy    <- ~Idle,
        answer  <- IF Idle THEN [ok |-> ok, data |-> Buffer]
                           ELSE [ok |-> FALSE, data |-> << >>]

\* In whatever pieces the sectors are read, the bytes a read returns are those
\* of the device at the cursor, in order; seeks outside the device are refused.
Refines == Promise!Spec
=============================================================================
