----------------------------- MODULE SystemInfo -----------------------------
(***************************************************************************)
(* What LoadImage does between finding the multiboot header and loading    *)
(* (src/src/loader.c 570-605): GetSystemInformation asks the BIOS for the  *)
(* configuration table, power management and video (src/src/multiboot.c    *)
(* 9-228), the header's requirements are compared with the answers, and    *)
(* EnableA20Gate opens the way to memory above 1 MB (src/src/asm.s 68-196).*)
(*                                                                         *)
(* The machine is a record of what its BIOS and its ports can do.  Video   *)
(* modes are known by number; a mode's size stands for its width times     *)
(* height times depth.                                                     *)
(***************************************************************************)
EXTENDS Integers, Sequences

CONSTANTS
    Machines,       \* the machines that the loader may run on
    MallocMayFail,  \* can the first malloc of GetVbeInfo and of APM fail?
    ModeMayFail     \* can GetVbeModeInfo fail although the adapter has VBE?

ASSUME MachineAssumption ==
    /\ MallocMayFail \in BOOLEAN
    /\ ModeMayFail \in BOOLEAN
    /\ \A m \in Machines :
          /\ m.config \in BOOLEAN /\ m.apm \in BOOLEAN /\ m.vbe \in BOOLEAN
          /\ m.memory \in BOOLEAN /\ m.controller \in BOOLEAN /\ m.a20 \subseteq 1 .. 4
          /\ m.mode \in DOMAIN m.modes /\ DOMAIN m.modes \subseteq Nat
          /\ \A n \in DOMAIN m.modes :
                m.modes[n] \in [supported : BOOLEAN, graphics : BOOLEAN, linear : BOOLEAN, size : Nat]
          /\ m.listed \in Seq(DOMAIN m.modes)

VARIABLES
    image,          \* the image being loaded
    pc,             \* how far LoadImage is
    machine,
    flags,          \* mbi->Flags, as far as it depends on the machine
    vbe,            \* mbi->VbeInfo: [control, info, mode]
    mode,           \* the adapter's current mode
    looked, best,   \* of SetVbeMode: how many modes it has looked at, and the best of them
    asked,          \* the mode that SetVbeMode asked for; -1 before
    tries,          \* methods of opening the A20 gate that were tried
    open            \* is the gate open?

sysVars == <<machine, flags, vbe, mode, looked, best, asked, tries, open>>

Goes(from, to) == pc = from /\ pc' = to

----------------------------------------------------------------------------
(* GetSystemInformation *)

Wants(flag) == flag \in image.mb.wants

\* Is there power management?  Without memory for the table nobody is asked.
GetApmInfo == IF MallocMayFail THEN {FALSE, machine.apm} ELSE {machine.apm}

\* The header's requirements are supported; the answers about the configuration
\* table and power management become flags.
GetSystemInformation ==
    /\ Goes("header", IF Wants("graphics") THEN "vbe" ELSE "check")
    /\ \E apm \in GetApmInfo :
          flags' = flags \cup (IF machine.config THEN {"config"} ELSE {})
                         \cup (IF apm THEN {"apm"} ELSE {})
    /\ UNCHANGED <<image, machine, vbe, mode, looked, best, asked, tries, open>>

MutGetVbeInfo ==
    /\ Goes("vbe", "setmode")
    /\ vbe' = [vbe EXCEPT !.control = IF machine.vbe THEN "held" ELSE "freed"]
    /\ flags' = flags \cup {"graphics"}
    /\ UNCHANGED <<image, machine, mode, looked, best, asked, tries, open>>

\* Without VBE the block for the answer is freed again, or there was none.
GetVbeInfo ==
    /\ Goes("vbe", "setmode")
    /\ \/ /\ machine.vbe
          /\ vbe' = [vbe EXCEPT !.control = "held"]
          /\ flags' = flags \cup {"graphics"}
       \/ /\ ~machine.vbe
          /\ vbe' = [vbe EXCEPT !.control = "freed"]
          /\ UNCHANGED flags
       \/ /\ MallocMayFail
          /\ UNCHANGED <<vbe, flags>>
    /\ UNCHANGED <<image, machine, mode, looked, best, asked, tries, open>>

\* A mode of the wanted type: bit 4 of its attributes, inverted, is compared with
\* ModeType; graphics modes (type 0) need a linear buffer.
Suitable(m, type) ==
    /\ m.supported
    /\ (IF m.graphics THEN 0 ELSE 16) = type
    /\ m.linear \/ type # 0

Distance(m, want) == IF m.size > want THEN m.size - want ELSE want - m.size

NoMode == [mode |-> 0, distance |-> -1]

MutBetter(n) ==
    LET m == machine.modes[n]
    IN  IF Suitable(m, image.mb.type) /\ best.distance < 0
        THEN [mode |-> n, distance |-> Distance(m, image.mb.size)] ELSE best

\* The best so far is replaced only by a better one.
Better(n) ==
    LET m == machine.modes[n]
        d == Distance(m, image.mb.size)
    IN  IF Suitable(m, image.mb.type) /\ (best.distance < 0 \/ d < best.distance)
        THEN [mode |-> n, distance |-> d] ELSE best

\* The modes in the order in which they are looked at: the OEM modes (below 128),
\* and the list of the control block.
Scanned == [n \in 1 .. 128 |-> n - 1] \o machine.listed

\* The adapter knows none of the modes after the first j and up to the k-th.
Unknown(j, k) == \A x \in j + 1 .. k : Scanned[x] \notin DOMAIN machine.modes

\* One mode is looked at, after those for which the call fails.
LookAtMode ==
    /\ pc = "setmode"
    /\ vbe.control = "held"
    /\ \E k \in looked + 1 .. Len(Scanned) :
          /\ Unknown(looked, k - 1)
          /\ Scanned[k] \in DOMAIN machine.modes
          /\ looked' = k
          /\ best' = Better(Scanned[k])
    /\ UNCHANGED <<image, pc, machine, flags, vbe, mode, asked, tries, open>>

\* The number is passed in CX; the BIOS looks at BX, which holds anything: the mode may
\* become any, or stay.  Without a control block the list that is followed is garbage
\* too.
SetVbeMode ==
    /\ Goes("setmode", "getmode")
    /\ \/ /\ vbe.control = "held"
          /\ Unknown(looked, Len(Scanned))
          /\ asked' = best.mode
       \/ /\ vbe.control # "held"
          /\ asked' \in DOMAIN machine.modes \cup {0}
    /\ mode' \in IF machine.vbe THEN DOMAIN machine.modes ELSE {mode}
    /\ UNCHANGED <<image, machine, flags, vbe, looked, best, tries, open>>

\* The mode is not known, or known but not its description.
ModeUnknown ==
    {[vbe EXCEPT !.control = "freed"],
     [vbe EXCEPT !.control = "freed", !.info = "freed", !.mode = mode]}

\* Its result is not looked at, and the flag stays as it is.
GetVbeModeInfo ==
    /\ Goes("getmode", "check")
    /\ vbe' \in (IF machine.vbe THEN {[vbe EXCEPT !.info = "held", !.mode = mode]} ELSE {})
              \cup (IF ~machine.vbe \/ ModeMayFail THEN ModeUnknown ELSE {})
    /\ UNCHANGED <<image, machine, flags, mode, looked, best, asked, tries, open>>

----------------------------------------------------------------------------
(* Requirements and capabilities *)

Fulfilled ==
    /\ Wants("graphics") => "graphics" \in flags
    /\ Wants("memory") => "memory" \in flags

CheckHardware ==
    /\ Goes("check", IF Fulfilled THEN "a20" ELSE "failed")
    /\ UNCHANGED <<image, sysVars>>

----------------------------------------------------------------------------
(* EnableA20Gate *)

\* The BIOS (1), the keyboard controller in two ways (2, 3) and port 92h (4), which
\* is given 65536 tests.  The waits for the controller have no end: on a machine
\* without one nothing follows the BIOS.

TryA20 ==
    /\ pc = "a20"
    /\ ~open
    /\ tries < 4
    /\ tries = 0 \/ machine.controller
    /\ tries' = tries + 1
    /\ open' = (tries + 1 \in machine.a20)
    /\ UNCHANGED <<image, pc, machine, flags, vbe, mode, looked, best, asked>>

\* The method is the high byte of the result, which therefore is never FALSE.
EnableA20Gate ==
    /\ Goes("a20", "start")
    /\ open \/ tries = 4
    /\ UNCHANGED <<image, sysVars>>

SystemInit ==
    /\ machine \in Machines
    /\ flags = IF machine.memory THEN {"memory"} ELSE {}
    /\ vbe = [control |-> "none", info |-> "none", mode |-> -1]
    /\ mode = machine.mode
    /\ looked = 0 /\ best = NoMode
    /\ asked = -1
    /\ tries = 0
    /\ open = FALSE

System ==
    \/ GetSystemInformation \/ GetVbeInfo \/ LookAtMode \/ SetVbeMode \/ GetVbeModeInfo
    \/ CheckHardware \/ TryA20 \/ EnableA20Gate

----------------------------------------------------------------------------
(* Properties *)

\* The modes that the kernel could have been given: a linear graphics mode for
\* type 0, a text mode for type 1.
SuitableModes ==
    {n \in DOMAIN machine.modes :
        LET m == machine.modes[n] IN
        /\ n < 128 \/ \E k \in 1 .. Len(machine.listed) : machine.listed[k] = n
        /\ m.supported
        /\ m.graphics <=> image.mb.type = 0
        /\ m.graphics => m.linear}

Graphical == image.type # "bootsector" /\ image.mb.magic /\ Wants("graphics")

\* A kernel that requires graphics starts only with what the flag stands for: both
\* blocks are there, and they describe the mode that the adapter is in, whichever
\* that is (multiboot.c 117-188, 214-228).
GraphicsAsTold ==
    pc = "run" /\ Graphical => vbe = [control |-> "held", info |-> "held", mode |-> mode]

\* The number that SetVbeMode puts in CX is that of a mode which will do, if there is
\* one, and no other comes closer to what the kernel wants, in whatever order the
\* adapter lists them (multiboot.c 57-100).  Whether it is set is for BestModeSet.
ClosestFound ==
    pc = "getmode" /\ vbe.control = "held" =>
        \A n \in SuitableModes :
            /\ asked \in SuitableModes
            /\ Distance(machine.modes[asked], image.mb.size)
                  <= Distance(machine.modes[n], image.mb.size)

\* That mode is set, unless the adapter refuses and stays in the mode it was in
\* (multiboot.c 102: "BestMode is the best approximation, set it", and 107: "If the
\* function fails, the current mode will be used").
BestModeSet == pc = "run" /\ Graphical => mode \in {asked, machine.mode}

\* A kernel starts only when the A20 gate is open (asm.s: "We return a boolean
\* indicating if A20 was enabled"; loader.c reports it when it is not).
A20Enabled == pc = "run" /\ image.type # "bootsector" => open
=============================================================================
