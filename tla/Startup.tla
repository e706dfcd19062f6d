------------------------------ MODULE Startup ------------------------------
(***************************************************************************)
(* main (src/src/main.c, 236-328) and what start.s does when it returns:   *)
(* the information about memory, the heap, the configuration file, the     *)
(* choice of an image and its loading, one after another.  The menu, the   *)
(* file system and the loader are here what they promise their caller;     *)
(* BootMenu, FatVolume, FatFile, PhysMem and Loader show how they keep it.  *)
(***************************************************************************)
EXTENDS MemoryInfo, Config

VARIABLES
    pc,             \* where main is
    image           \* the number of the image's section; 0: none

mainVars == <<memVars, configVars, pc, image>>

nImages == Len(config.Images)

Goes(from, to) ==
    /\ pc = from
    /\ pc' = to

GetMemory ==
    /\ Goes("main", "heap")
    /\ GetConventionalMemoryMap
    /\ UNCHANGED <<configVars, image>>

HeapInit ==
    /\ Goes("heap", "begin")
    /\ ready' = TRUE
    /\ UNCHANGED <<machine, mbi, ebx, configVars, image>>

AskForMap ==
    /\ Goes("begin", "map")
    /\ BeginMap
    /\ UNCHANGED <<configVars, image>>

GetMapEntry ==
    /\ Goes("map", "map")
    /\ MapEntry
    /\ UNCHANGED <<configVars, image>>

\* Without any information about memory main gives up.
GotMap ==
    /\ Goes("map", IF mbi.Flags = {} THEN "wait" ELSE "open")
    /\ EndMap
    /\ UNCHANGED <<configVars, image>>

\* OpenFile finds boot.ini on the boot device, or it does not.
OpenConfig ==
    /\ Goes("open", "parse")
    /\ UNCHANGED <<memVars, configVars, image>>

NoConfig ==
    /\ Goes("open", "wait")
    /\ UNCHANGED <<memVars, configVars, image>>

ParseConfig ==
    /\ Goes("parse", "parse")
    /\ ConfigStep
    /\ UNCHANGED <<memVars, image>>

\* The file is closed; without an image there is nothing to do.
Parsed ==
    /\ Goes("parse", IF cpc = "accepted" /\ nImages > 0 THEN "choose" ELSE "wait")
    /\ cpc \in {"accepted", "rejected"}
    /\ image' = IF cpc = "accepted" /\ nImages > 0 THEN config.Default ELSE 0
    /\ UNCHANGED <<memVars, configVars>>

\* One image is loaded without a question, unless F8 is pressed.
OnlyImage ==
    /\ Goes("choose", "load")
    /\ nImages = 1
    /\ UNCHANGED <<memVars, configVars, image>>

\* The menu returns an image of the list, or NULL for a reboot.
Menu ==
    /\ Goes("choose", "load")
    /\ image' \in 1 .. nImages
    /\ UNCHANGED <<memVars, configVars>>

MenuReboot ==
    /\ Goes("choose", "reboot")
    /\ UNCHANGED <<memVars, configVars, image>>

\* LoadImage starts the image and does not return, or it fails.
LoadImage ==
    /\ pc = "load"
    /\ pc' \in {"started", "wait"}
    /\ UNCHANGED <<memVars, configVars, image>>

\* start.s: main returned zero, so a key is waited for.
KeyPressed ==
    /\ Goes("wait", "reboot")
    /\ UNCHANGED <<memVars, configVars, image>>

MainInit ==
    /\ MemInit
    /\ ConfigInit
    /\ pc = "main"
    /\ image = 0

Main ==
    \/ GetMemory \/ HeapInit \/ AskForMap \/ GetMapEntry \/ GotMap
    \/ OpenConfig \/ NoConfig \/ ParseConfig \/ Parsed
    \/ OnlyImage \/ Menu \/ MenuReboot \/ LoadImage

\* The image runs, or the machine starts again.
Ended == pc \in {"started", "reboot"} /\ UNCHANGED mainVars

MainNext == Main \/ KeyPressed \/ Ended

\* main goes on; the key may never be pressed.
MainSpec == MainInit /\ [][MainNext]_mainVars /\ WF_mainVars(Main)

----------------------------------------------------------------------------
(* Properties *)

\* From the time it is complete to the start of the image, and whatever fails, the
\* information about memory that goes to the image and to PhysInit is true (mem.c
\* 201-287): no flag without its data, no map that stops where a call failed.
MemoryInfoIsTrue == pc \notin {"main", "heap", "begin", "map"} => InfoIsTrue

\* main comes to an end: it loads an image or says why it cannot, even if the BIOS
\* never says that its memory map is complete.
MainReturns == <>(pc \in {"started", "wait", "reboot"})
=============================================================================
