------------------------------- MODULE Drive -------------------------------
(***************************************************************************)
(* The drives behind the BIOS (src/src/drive.c): GetDriveParameters with   *)
(* its table of recently used drives, and ReadDrive, which reads with the  *)
(* INT 13h extensions (EDD) or, without them, track by track through       *)
(* cylinder, head and sector numbers.                                      *)
(*                                                                         *)
(* A drive's sectors are modelled by their numbers: what a read leaves in  *)
(* the buffer is the sequence of the sectors the BIOS transferred.         *)
(***************************************************************************)
EXTENDS Naturals, Sequences, FiniteSets

CONSTANTS
    DRIVE_INFO_LENGTH,  \* entries of DriveParameters
    Geometry,           \* drive -> [edd, heads, sectors, cylinders] of the hardware
    Absent,             \* drives of which the BIOS knows nothing
    Unready,            \* drives whose parameters the BIOS may fail to report
    MaxBlocks,          \* 2^16: nBlocks of the EDD packet is a USHORT
    MaxCylinders,       \* 1024: a CHS address holds ten bits of the cylinder
    MaxCount            \* bound: sectors asked for in a call

Drives == DOMAIN Geometry

ASSUME DriveAssumption ==
    /\ DRIVE_INFO_LENGTH \in Nat \ {0}
    /\ MaxBlocks \in Nat \ {0} /\ MaxCylinders \in Nat \ {0} /\ MaxCount \in Nat
    /\ \A d \in Drives :
          /\ Geometry[d].edd \in BOOLEAN
          /\ Geometry[d].heads \in Nat \ {0} /\ Geometry[d].sectors \in Nat \ {0}
          /\ Geometry[d].cylinders \in 1 .. MaxCylinders
    /\ Absent \subseteq Drives /\ Unready \subseteq Drives

VARIABLES
    table,          \* DriveParameters[0 .. DriveParametersCount - 1]
    stale,          \* what the memory of DriveParameters[0] holds
    drivePc,             \* idle; params: in GetDriveParameters; read: in ReadDrive
    call,           \* the call of ReadDrive in progress: [drive, sector, n]
    Sector,         \* ReadDrive's variables
    nSectors,
    Buffer          \* the sectors read; Read is its length

driveVars == <<table, stale, drivePc, call, Sector, nSectors, Buffer>>

----------------------------------------------------------------------------
(* GetDriveParameters *)

Entry(d, edd, heads, sectors) ==
    [drive |-> d, edd |-> edd, heads |-> heads, sectors |-> sectors]

\* What the BIOS reports through INT 13h/AH=48h or AH=08h.
Reported(d, edd) == Entry(d, edd, Geometry[d].heads, Geometry[d].sectors)

TotalSectors(d) == Geometry[d].heads * Geometry[d].sectors * Geometry[d].cylinders

CachedAt(d) == {i \in 1 .. Len(table) : table[i].drive = d}

MutToFront(i) == <<table[i]>> \o table

\* A hit moves the entry to the front.
ToFront(i) ==
    <<table[i]>> \o SubSeq(table, 1, i - 1) \o SubSeq(table, i + 1, Len(table))

\* A miss shifts the table, without its last entry if it is full.
Shifted ==
    IF Len(table) = DRIVE_INFO_LENGTH THEN SubSeq(table, 1, Len(table) - 1) ELSE table

\* DriveParametersCount-- takes the last entry away, not the new one.
WithoutLast(t) == SubSeq(t, 1, Len(t) - 1)

Found(d) ==
    /\ drivePc = "params"
    /\ d = call.drive
    /\ \E i \in CachedAt(d) :
          /\ \A j \in CachedAt(d) : i <= j
          /\ table' = ToFront(i)
          /\ stale' = table[i]
    /\ drivePc' = "read"
    /\ UNCHANGED <<call, Sector, nSectors, Buffer>>

\* The extensions report the parameters; or they are missing or fail, and AH=08h does.
Queried(d) ==
    /\ drivePc = "params"
    /\ d = call.drive
    /\ CachedAt(d) = {}
    /\ d \notin Absent
    /\ \E edd \in BOOLEAN :
          /\ edd => Geometry[d].edd
          /\ table' = <<Reported(d, edd)>> \o Shifted
          /\ stale' = Reported(d, edd)
    /\ drivePc' = "read"
    /\ UNCHANGED <<call, Sector, nSectors, Buffer>>

\* Both fail.  The entry keeps the geometry that was in its memory, and is
\* counted out by dropping the last one.
Failed(d) ==
    /\ drivePc = "params"
    /\ d = call.drive
    /\ CachedAt(d) = {}
    /\ d \in Absent \cup Unready
    /\ LET e == Entry(d, FALSE, stale.heads, stale.sectors) IN
          /\ table' = WithoutLast(<<e>> \o Shifted)
          /\ stale' = e
    /\ drivePc' = "idle"         \* ReadDrive returns 0
    /\ UNCHANGED <<call, Sector, nSectors, Buffer>>

----------------------------------------------------------------------------
(* ReadDrive *)

pdi == table[1]

ReadDrive(d, s, n) ==
    /\ drivePc = "idle"
    /\ call' = [drive |-> d, sector |-> s, n |-> n]
    /\ Sector' = s
    /\ nSectors' = n
    /\ Buffer' = << >>
    /\ drivePc' = "params"
    /\ UNCHANGED <<table, stale>>

\* The sectors lba .. lba + n - 1, if the drive has them.
Transfer(d, lba, n) ==
    IF d \in Absent \/ lba + n > TotalSectors(d) THEN << >>
    ELSE [k \in 1 .. n |-> lba + k - 1]

\* One call of AH=42h, for what a USHORT holds of the count.  The BIOS may fail,
\* and then nothing is returned.
ReadExtended ==
    /\ drivePc = "read"
    /\ pdi.edd
    /\ \E b \in {Transfer(call.drive, Sector, nSectors % MaxBlocks), << >>} :
          Buffer' = b
    /\ drivePc' = "idle"
    /\ UNCHANGED <<table, stale, call, Sector, nSectors>>

\* Sectors up to the end of the track.
Count ==
    LET rest == pdi.sectors - (Sector % pdi.sectors)
    IN IF rest < nSectors THEN rest ELSE nSectors

MutAddress ==
    [c |-> (Sector \div (pdi.heads * pdi.sectors)) % MaxCylinders,
     h |-> (Sector % pdi.sectors) % pdi.heads,
     s |-> (Sector % pdi.sectors) + 1]

\* The registers of AH=02h; sectors of a track count from one.
Address ==
    [c |-> (Sector \div (pdi.heads * pdi.sectors)) % MaxCylinders,
     h |-> (Sector \div pdi.sectors) % pdi.heads,
     s |-> (Sector % pdi.sectors) + 1]

\* Where the hardware finds that address, if it exists and its track holds n sectors.
Located(d, a, n) ==
    IF /\ d \notin Absent
       /\ a.c < Geometry[d].cylinders /\ a.h < Geometry[d].heads
       /\ a.s + n - 1 <= Geometry[d].sectors
    THEN Transfer(d, (a.c * Geometry[d].heads + a.h) * Geometry[d].sectors + a.s - 1, n)
    ELSE << >>

ReadTrack ==
    /\ drivePc = "read"
    /\ ~pdi.edd
    /\ nSectors > 0
    /\ LET b == Located(call.drive, Address, Count) IN
          /\ b # << >>
          /\ Buffer' = Buffer \o b
    /\ nSectors' = nSectors - Count
    /\ Sector' = Sector + Count
    /\ UNCHANGED <<table, stale, drivePc, call>>

\* All was read, or the BIOS failed.
ReadReturns ==
    /\ drivePc = "read"
    /\ ~pdi.edd
    /\ drivePc' = "idle"
    /\ UNCHANGED <<table, stale, call, Sector, nSectors, Buffer>>

DriveInit ==
    /\ table = << >>
    /\ stale = Entry(0, FALSE, 0, 0)        \* zeroed: never read while the table is empty
    /\ drivePc = "idle"
    /\ call = [drive |-> 0, sector |-> 0, n |-> 0]
    /\ Sector = 0
    /\ nSectors = 0
    /\ Buffer = << >>

\* Callers stay within the sectors that the drive has (io.c checks it).
DriveNext ==
    \/ \E d \in Drives : \E s \in 0 .. TotalSectors(d) - 1, n \in 0 .. MaxCount :
          s + n <= TotalSectors(d) /\ ReadDrive(d, s, n)
    \/ \E d \in Drives : Found(d) \/ Queried(d) \/ Failed(d)
    \/ ReadExtended \/ ReadTrack \/ ReadReturns

DriveSpec == DriveInit /\ [][DriveNext]_driveVars

----------------------------------------------------------------------------
(* Properties *)

\* A drive has one entry, however the table was shifted: a hit can never find a
\* second, older description of it.
OneEntryPerDrive ==
    \A i, j \in 1 .. Len(table) : table[i].drive = table[j].drive => i = j

\* What ReadDrive says it has read is what was asked for: consecutive sectors
\* from the first one on, whatever the geometry cuts them into and whichever
\* transfer failed, and never more of them than requested.
ReadsWhatWasAsked ==
    /\ Len(Buffer) <= call.n
    /\ \A k \in 1 .. Len(Buffer) : Buffer[k] = call.sector + k - 1

\* A drive whose parameters could not be had is not known to the loader: every
\* entry is what the BIOS reported (drive.h: "NULL is returned on failure").
EntriesAreReported ==
    \A i \in 1 .. Len(table) :
        \E edd \in BOOLEAN : table[i] = Reported(table[i].drive, edd)
=============================================================================
