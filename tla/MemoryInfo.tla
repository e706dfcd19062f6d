----------------------------- MODULE MemoryInfo -----------------------------
(***************************************************************************)
(* What the BIOS says about memory (src/src/mem.c, 201-287): the sizes     *)
(* below and above 1 MB, and the memory map, which is asked for entry by   *)
(* entry and kept in a heap block that grows with it.                      *)
(***************************************************************************)
EXTENDS Integers, Sequences, FiniteSets

CONSTANTS
    Machines,       \* what BIOSes answer: see MachineAssumption
    HeapRoom        \* bound: entries of the map for which the heap has room

\* BIOS calls that fail.
Fail == -1
NoE801 == [ax |-> Fail, bx |-> 0]
NoEntry == "none"

Kilobytes15M == 15360   \* 0x3C00

\* The kinds of entries of a memory map.
Entries == {"lower", "upper", "reserved"}

\* upper: kB above 1 MB, without a hole; int88: kB or Fail; e801: [ax, bx], of which ax
\* counts at most the 15 MB below 16 MB, in kB, and bx what lies above; map: the
\* entries; end: how the list ends - with ebx = 0 after the last entry, with a carry
\* after it, or never.
ASSUME MachineAssumption ==
    /\ HeapRoom \in Nat
    /\ \A m \in Machines :
          /\ DOMAIN m = {"lower", "upper", "int88", "e801", "map", "end"}
          /\ m.upper \in Nat
          /\ m.int88 \in {Fail, IF m.upper < Kilobytes15M THEN m.upper ELSE Kilobytes15M}
          /\ \/ m.e801 = NoE801
             \/ /\ m.e801.ax \in 0 .. Kilobytes15M /\ m.e801.bx \in Nat
                /\ m.e801.ax + 64 * m.e801.bx = (m.upper \div 64) * 64
                /\ m.e801.bx > 0 => m.e801.ax = Kilobytes15M
          /\ m.map \in Seq(Entries)
          /\ m.end \in {"ebx", "carry", "never"}
          /\ m.end = "never" => m.map # << >>

VARIABLES
    machine,
    mbi,            \* the MULTIBOOT_INFO: Flags, MemLower, MemUpper, map, length
    ebx,            \* the continuation value: entries already given; -1: no more
    ready           \* is the heap initialised?

memVars == <<machine, mbi, ebx, ready>>

SizeOfEntry == 24       \* sizeof(MAP_ENTRY)

NoInfo == [Flags |-> {}, MemLower |-> 0, MemUpper |-> 0, map |-> << >>, length |-> 0]

----------------------------------------------------------------------------
(* GetConventionalMemoryMap *)

After88 ==
    IF machine.int88 = Fail THEN [mbi EXCEPT !.MemLower = machine.lower]
    ELSE [mbi EXCEPT !.MemLower = machine.lower, !.MemUpper = machine.int88,
                     !.Flags = @ \cup {"simple"}]

\* Memory beyond 16 MB is in units of 64 kB.
AfterE801(info) ==
    IF machine.e801.ax # Kilobytes15M THEN info
    ELSE [info EXCEPT !.MemUpper = machine.e801.bx * 64 + Kilobytes15M,
                      !.Flags = @ \cup {"simple"}]

GetConventionalMemoryMap ==
    /\ mbi' = IF After88.MemUpper = Kilobytes15M \/ machine.int88 = Fail
              THEN AfterE801(After88) ELSE After88
    /\ UNCHANGED <<machine, ebx, ready>>

----------------------------------------------------------------------------
(* GetSystemMemoryMap *)

BeginMap ==
    /\ ready
    /\ mbi' = [mbi EXCEPT !.Flags = @ \cup {"map"}, !.map = << >>, !.length = 0]
    /\ ebx' = 0
    /\ UNCHANGED <<machine, ready>>

\* The answer to the next call: an entry and what ebx becomes, or none.
Answer ==
    LET n == ebx + 1 IN
    IF n <= Len(machine.map)
    THEN [entry |-> machine.map[n],
          ebx |-> IF n = Len(machine.map) /\ machine.end = "ebx" THEN -1 ELSE n]
    ELSE IF machine.end = "never" THEN [entry |-> machine.map[1], ebx |-> n]
    ELSE [entry |-> NoEntry, ebx |-> n]

MutMapFails == [mbi EXCEPT !.length = SizeOfEntry * Len(mbi.map)]

\* The flag and all entries are given up.
MapFails == [mbi EXCEPT !.Flags = @ \ {"map"}, !.map = << >>, !.length = 0]

\* The block grows by one entry and the BIOS fills it in.
MapEntry ==
    /\ ebx >= 0
    /\ \/ /\ Len(mbi.map) < HeapRoom
          /\ Answer.entry # NoEntry
          /\ mbi' = [mbi EXCEPT !.map = Append(@, Answer.entry)]
          /\ ebx' = Answer.ebx
       \/ /\ Len(mbi.map) < HeapRoom
          /\ Answer.entry = NoEntry
          /\ mbi' = MapFails
          /\ ebx' = -1
       \/ /\ Len(mbi.map) = HeapRoom
          /\ mbi' = MapFails
          /\ ebx' = -1
    /\ UNCHANGED <<machine, ready>>

EndMap ==
    /\ ebx = -1
    /\ mbi' = [mbi EXCEPT !.length = SizeOfEntry * Len(mbi.map)]
    /\ UNCHANGED <<machine, ebx, ready>>

MemInit ==
    /\ machine \in Machines
    /\ mbi = NoInfo
    /\ ebx = 0
    /\ ready = FALSE

----------------------------------------------------------------------------
(* What the information must be like *)

\* A flag stands for information that is true: the size is not more than the machine
\* has, the map is the whole map and not the part that was read before a failure.
InfoIsTrue ==
    /\ "simple" \in mbi.Flags => mbi.MemUpper <= machine.upper
    /\ "simple" \in mbi.Flags /\ machine.e801 # NoE801 => machine.upper - mbi.MemUpper < 64
    /\ IF "map" \in mbi.Flags
       THEN mbi.map = machine.map /\ mbi.length = SizeOfEntry * Len(machine.map)
       ELSE mbi.map = << >> /\ mbi.length = 0
=============================================================================
