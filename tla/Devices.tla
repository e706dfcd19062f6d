------------------------------ MODULE Devices ------------------------------
(***************************************************************************)
(* Opening devices (src/src/io.c, lines 24-323 and 491-517): OpenFile      *)
(* parses the device part of a path, and OpenDevice looks the device up in *)
(* the list of open ones or finds its partition in the drive's partition   *)
(* tables, creates it and mounts a file system on it.                      *)
(*                                                                         *)
(* A path is a record: its device part as ParseDevice tells it apart (boot *)
(* for none, fd, hd or another name, the numbers that follow and whether   *)
(* something illegal comes after them), and whether a file name follows.   *)
(***************************************************************************)
EXTENDS Naturals, Sequences, FiniteSets

CONSTANTS
    Disks,          \* drive -> [total, tables]: sectors, and partition tables by sector
    BootDevice,     \* what main passed to IoInitialize
    Paths,          \* the paths that are opened
    NoNumber,       \* stands for a number that strtoul could not read
    MaxDevices      \* bound: devices open at a time

Whole == 255        \* first partition number: the entire drive

\* A device id: BIOS drive number, first partition number, and whether the
\* second and third are 0xFF.
DeviceId(drive, part) == [drive |-> drive, part |-> part, plain |-> TRUE]

Types == {"unused", "extended", "data"}

ASSUME ParamAssumption ==
    /\ \A d \in DOMAIN Disks :
          /\ Disks[d].total \in Nat
          /\ 0 \in DOMAIN Disks[d].tables
          /\ \A s \in DOMAIN Disks[d].tables : \A k \in 1 .. 4 :
                Disks[d].tables[s][k] \in [type : Types, start : Nat, size : Nat]
    /\ MaxDevices \in Nat

\* Numbers are unsigned; main passes the BIOS drive and partition it was started from.
ASSUME PathAssumption ==
    /\ BootDevice \in [drive : Nat, part : 0 .. Whole, plain : BOOLEAN]
    /\ \A p \in Paths :
          /\ p.file \in BOOLEAN
          /\ p.kind \in {"fd", "hd"} => p.number \in Nat /\ p.comma \in BOOLEAN
          /\ p.kind = "hd" /\ p.comma => p.part \in Nat

VARIABLES
    Devices,        \* the list of open devices, newest first
    pc,
    want,           \* [id, fs]: what OpenDevice was asked for
    MBR,            \* the allocated sector buffer: its partition table, or << >>
    part,           \* the entry found, in a sequence; << >> is NULL
    i,              \* number of the logical partition being looked at
    range,          \* [start, size] of the new device
    answer          \* what OpenDevice returned: a device in a sequence, << >> is NULL

vars == <<Devices, pc, want, MBR, part, i, range, answer>>

NULL == << >>

----------------------------------------------------------------------------
(* ParseDevice *)

Valid(n, limit) == n # NoNumber /\ n <= limit

Parses(p) ==
    \/ p.kind = "boot"
    \/ /\ p.kind \in {"fd", "hd"}
       /\ Valid(p.number, 127)
       /\ p.kind = "hd" /\ p.comma => Valid(p.part, 254)
       /\ p.kind = "fd" => ~p.comma
       /\ ~p.junk

Parsed(p) ==
    CASE p.kind = "boot" -> BootDevice
      [] p.kind = "fd"   -> DeviceId(p.number, Whole)
      [] p.kind = "hd"   -> DeviceId(p.number + 128, IF p.comma THEN p.part ELSE Whole)

----------------------------------------------------------------------------
(* OpenFile and OpenDevice.  A failing path returns NULL. *)

Return(dev) ==
    /\ answer' = dev
    /\ pc' = "idle"

OpenFile(p) ==
    /\ pc = "idle"
    /\ IF Parses(p)
       THEN /\ want' = [id |-> Parsed(p), fs |-> p.file]
            /\ answer' = NULL
            /\ pc' = "open"
       ELSE Return(NULL) /\ UNCHANGED want
    /\ UNCHANGED <<Devices, MBR, part, i, range>>

MutOpened == {k \in 1 .. Len(Devices) : Devices[k].id = want.id}

Opened == {k \in 1 .. Len(Devices) : Devices[k].id = want.id /\ Devices[k].fs = want.fs}

FoundOpen ==
    /\ pc = "open"
    /\ \E k \in Opened :
          /\ \A j \in Opened : k <= j
          /\ Return(<<Devices[k]>>)
    /\ UNCHANGED <<Devices, want, MBR, part, i, range>>

\* A second or third partition number, a drive without parameters, or no
\* memory for a sector.
Refused ==
    /\ pc = "open"
    /\ Opened = {}
    /\ Return(NULL)
    /\ UNCHANGED <<Devices, want, MBR, part, i, range>>

OpenWhole ==
    /\ pc = "open"
    /\ Opened = {}
    /\ want.id.plain /\ want.id.drive \in DOMAIN Disks
    /\ want.id.part = Whole
    /\ range' = [start |-> 0, size |-> Disks[want.id.drive].total]
    /\ pc' = "create"
    /\ UNCHANGED <<Devices, want, MBR, part, i, answer>>

Total == Disks[want.id.drive].total

\* Sectors hold partition tables or something without any partition.
Table(s) ==
    IF s \in DOMAIN Disks[want.id.drive].tables THEN Disks[want.id.drive].tables[s]
    ELSE [k \in 1 .. 4 |-> [type |-> "unused", start |-> 0, size |-> 0]]

ReadMBR ==
    /\ pc = "open"
    /\ Opened = {}
    /\ want.id.plain /\ want.id.drive \in DOMAIN Disks
    /\ want.id.part # Whole
    /\ MBR' = Table(0)
    /\ pc' = "scan"
    /\ UNCHANGED <<Devices, want, part, i, range, answer>>

Extended(table) == {k \in 1 .. 4 : table[k].type = "extended"}

MutPrimary(table) ==
    IF want.id.part >= 4
    THEN IF Cardinality(Extended(table)) = 1
         THEN <<table[CHOOSE k \in Extended(table) : TRUE]>> ELSE NULL
    ELSE IF table[want.id.part + 1].type # "unused" THEN <<table[want.id.part + 1]>> ELSE NULL

\* The entry of a primary partition, or the only extended one.
Primary(table) ==
    IF want.id.part >= 4
    THEN IF Cardinality(Extended(table)) = 1
         THEN <<table[CHOOSE k \in Extended(table) : TRUE]>> ELSE NULL
    ELSE IF table[want.id.part + 1].type = "data" THEN <<table[want.id.part + 1]>> ELSE NULL

FreeMBR == MBR' = << >>

\* The drive fails, or the partition is not there.
GiveUp ==
    /\ FreeMBR
    /\ Return(NULL)
    /\ UNCHANGED <<Devices, want, part, i, range>>

MBRFails == pc = "scan" /\ GiveUp

NoPartition == pc = "scan" /\ Primary(MBR) = NULL /\ GiveUp

TakePrimary ==
    /\ pc = "scan"
    /\ Primary(MBR) # NULL
    /\ want.id.part < 4
    /\ range' = [start |-> Primary(MBR)[1].start, size |-> Primary(MBR)[1].size]
    /\ FreeMBR
    /\ pc' = "check"
    /\ UNCHANGED <<Devices, want, part, i, answer>>

EnterExtended ==
    /\ pc = "scan"
    /\ Primary(MBR) # NULL
    /\ want.id.part >= 4
    /\ part' = Primary(MBR)
    /\ i' = 4
    /\ pc' = "chain"
    /\ UNCHANGED <<Devices, want, MBR, range, answer>>

ChainFails == pc = "chain" /\ part # NULL /\ GiveUp

MutFollow ==
    /\ pc = "chain"
    /\ part # NULL
    /\ LET t == Table(part[1].start) IN
          /\ MBR' = t
          /\ IF t[1].type = "extended"
             THEN part' = NULL /\ UNCHANGED pc
             ELSE IF want.id.part = i
             THEN part' = <<t[1]>> /\ pc' = "while"
             ELSE /\ part' = IF t[2].type = "extended" THEN <<t[2]>> ELSE NULL
                  /\ UNCHANGED pc
    /\ UNCHANGED <<Devices, want, range, answer, i>>

\* The next table of the list.  The for loop ends with a part when it is the
\* one we want.
Follow ==
    /\ pc = "chain"
    /\ part # NULL
    /\ LET t == Table(part[1].start) IN
          /\ MBR' = t
          /\ IF t[1].type = "extended"
             THEN part' = NULL /\ UNCHANGED <<i, pc>>
             ELSE IF want.id.part = i
             THEN part' = <<t[1]>> /\ pc' = "while" /\ UNCHANGED i
             ELSE /\ part' = IF t[2].type = "extended" THEN <<t[2]>> ELSE NULL
                  /\ i' = i + 1
                  /\ UNCHANGED pc
    /\ UNCHANGED <<Devices, want, range, answer>>

ChainEnds == pc = "chain" /\ part = NULL /\ GiveUp

\* while (part != NULL); with an empty body: what is left of the loop that the
\* for replaced.  The lines after it that take the range from a logical
\* partition are never reached.
While ==
    /\ pc = "while"
    /\ part # NULL
    /\ UNCHANGED vars

\* Start is a ULONG and Size a ULONGLONG: the sum does not wrap.
Fits == range.start + range.size <= Total

CheckRange ==
    /\ pc = "check"
    /\ IF Fits THEN pc' = "create" /\ UNCHANGED answer ELSE Return(NULL)
    /\ UNCHANGED <<Devices, want, MBR, part, i, range>>

\* No memory, or no file system wants the device (a raw device always mounts).
CreateFails ==
    /\ pc = "create"
    /\ Return(NULL)
    /\ UNCHANGED <<Devices, want, MBR, part, i, range>>

Create ==
    /\ pc = "create"
    /\ Len(Devices) < MaxDevices
    /\ LET dev == [id |-> want.id, fs |-> want.fs, start |-> range.start, size |-> range.size]
       IN Devices' = <<dev>> \o Devices /\ Return(<<dev>>)
    /\ UNCHANGED <<want, MBR, part, i, range>>

Init ==
    /\ Devices = << >>
    /\ pc = "idle"
    /\ want = [id |-> BootDevice, fs |-> FALSE]
    /\ MBR = << >>
    /\ part = NULL
    /\ i = 0
    /\ range = [start |-> 0, size |-> 0]
    /\ answer = NULL

Search == TakePrimary \/ NoPartition \/ MBRFails \/ EnterExtended
            \/ Follow \/ ChainFails \/ ChainEnds \/ While

Step == FoundOpen \/ Refused \/ OpenWhole \/ ReadMBR \/ Search
            \/ CheckRange \/ Create \/ CreateFails

\* A call runs to its end.
Spec == Init /\ [][(\E p \in Paths : OpenFile(p)) \/ Step]_vars /\ WF_vars(Step)

----------------------------------------------------------------------------
(* Properties *)

\* A device with a partition number is a partition that the drive's table lists
\* there, never the container of the logical ones; and every device lies on its
\* drive, so that no later read goes beyond its end, whatever the tables say.
DeviceIsPartition ==
    \A k \in 1 .. Len(Devices) :
        LET d == Devices[k] IN
        /\ d.start + d.size <= Disks[d.id.drive].total
        /\ d.id.part < 4 =>
              Disks[d.id.drive].tables[0][d.id.part + 1]
                  = [type |-> "data", start |-> d.start, size |-> d.size]

\* What OpenDevice returns is the device that was asked for, in the mode that
\* was asked for; and it is the only one of its kind on the list, so that there
\* are never two caches for the same sectors in the same mode.
ReturnsWanted ==
    /\ pc = "idle" /\ answer # NULL =>
          /\ answer[1].id = want.id /\ answer[1].fs = want.fs
          /\ \E k \in 1 .. Len(Devices) : Devices[k] = answer[1]
    /\ \A k, j \in 1 .. Len(Devices) :
          Devices[k].id = Devices[j].id /\ Devices[k].fs = Devices[j].fs => k = j

\* The walk along the tables of logical partitions comes to an end, even on a
\* disk where the tables form a circle: the wanted number stops it.
WalkEnds == (pc = "chain") ~> (pc # "chain")

\* A call to open a device returns, and logical partitions can be opened (the
\* partition number may be above 4, says the README).
OpenReturns == pc # "idle" ~> pc = "idle"
=============================================================================
