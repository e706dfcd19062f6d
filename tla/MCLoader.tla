------------------------------ MODULE MCLoader ------------------------------
(* Instances of Loader for TLC. *)
EXTENDS Loader, TLC

NoHeader ==
    [magic |-> FALSE, hasAddress |-> FALSE, offset |-> 0, header |-> 0,
     load |-> 0, loadEnd |-> 0, bssEnd |-> 0, wants |-> {}, type |-> 0, size |-> 0]

Header(offset, header, load, loadEnd, bssEnd) ==
    [magic |-> TRUE, hasAddress |-> TRUE, offset |-> offset, header |-> header,
     load |-> load, loadEnd |-> loadEnd, bssEnd |-> bssEnd, wants |-> {}, type |-> 0,
     size |-> 0]

Image(type, format, address, mb, segs, mods) ==
    [type |-> type, format |-> format, address |-> address, size |-> 6, supported |-> TRUE,
     wide |-> FALSE, mb |-> mb, segs |-> segs, modules |-> mods]

Section(load, vaddr, off, filesz, memsz, bss) ==
    [load |-> load, vaddr |-> vaddr, off |-> off, filesz |-> filesz, memsz |-> memsz,
     bss |-> bss]

\* A note, the code, and data with a BSS; sections of a PE and of a COFF file.
ElfSegments ==
    <<Section(FALSE, 1, 0, 1, 1, FALSE), Section(TRUE, 2, 1, 2, 2, FALSE),
      Section(TRUE, 5, 3, 1, 3, FALSE)>>
OneSegment == <<Section(TRUE, 2, 1, 2, 3, FALSE)>>
Sections ==
    <<Section(FALSE, 4, 1, 2, 2, FALSE), Section(FALSE, 1, 3, 1, 3, FALSE),
      Section(FALSE, 6, 0, 2, 3, TRUE)>>
Corrupt == <<Section(TRUE, 2, 1, 3, 2, FALSE)>>
\* A section whose raw data, rounded up by the linker, is larger than its memory.
Rounded == <<Section(FALSE, 4, 1, 2, 2, FALSE), Section(FALSE, 1, 0, 4, 3, FALSE)>>

Bss == Header(2, 3, 2, 5, 9)
Plain == Header(1, 3, 2, 0, 0)
Bad == {Header(1, 6, 2, 0, 0), Header(1, 3, 2, 1, 0), Header(2, 3, 5, 0, 0)}
\* Headers that require graphics of size 3 or 9, and memory.
Graphics(size) == [Plain EXCEPT !.wants = {"graphics", "memory"}, !.size = size]

\* Its program headers are larger than ELF32_PHDR.
WideKernels == {[Image("auto", "elf", 0, NoHeader, ElfSegments, <<1>>) EXCEPT !.wide = TRUE]}

Kernels ==
    WideKernels \cup
    {Image("auto", "elf", 0, NoHeader, ElfSegments, <<2, 3, 1>>),
     Image("relocatable", "elf", 3, NoHeader, OneSegment, <<1>>),
     Image("auto", "elf", 3, NoHeader, Corrupt, <<1>>),
     Image("auto", "pe", 3, NoHeader, Sections, <<2, 2>>),
     Image("relocatable", "coff", 3, NoHeader, Sections, <<2>>),
     Image("binary", "none", 3, NoHeader, << >>, <<2>>),
     Image("relocatable", "none", 3, NoHeader, << >>, <<2>>),
     Image("auto", "none", 0, NoHeader, << >>, << >>),
     Image("auto", "elf", 3, Bss, ElfSegments, <<1>>),
     Image("multiboot", "none", 3, Plain, << >>, <<2>>),
     [Image("auto", "elf", 0, Bss, ElfSegments, <<1>>) EXCEPT !.supported = FALSE],
     Image("bootsector", "none", 0, NoHeader, << >>, <<1>>)}
    \cup {Image("multiboot", "none", 0, mb, << >>, << >>) : mb \in Bad}
    \cup {Image("auto", "none", 0, Graphics(n), << >>, <<1>>) : n \in {3, 9}}

ElfKernels == {Image("auto", "elf", 0, NoHeader, ElfSegments, <<1>>)}
RoundedKernels == {Image("auto", "pe", 0, NoHeader, Rounded, << >>)}
GraphicsKernels == {Image("auto", "none", 0, Graphics(3), << >>, << >>)}

Mode(supported, graphics, linear, size) ==
    [supported |-> supported, graphics |-> graphics, linear |-> linear, size |-> size]

\* Text, unsupported, not linear, and two that will do; 200 is on the list only, 201
\* nowhere.
VideoModes ==
    (0 :> Mode(TRUE, FALSE, TRUE, 3)) @@ (1 :> Mode(FALSE, TRUE, TRUE, 3))
    @@ (2 :> Mode(TRUE, TRUE, FALSE, 9)) @@ (3 :> Mode(TRUE, TRUE, TRUE, 6))
    @@ (200 :> Mode(TRUE, TRUE, TRUE, 8)) @@ (201 :> Mode(TRUE, TRUE, TRUE, 9))

Machine(video, has, a20) ==
    [config |-> has, apm |-> has, vbe |-> video, memory |-> has, controller |-> has,
     a20 |-> a20, mode |-> 0, modes |-> VideoModes, listed |-> <<3, 200, 2>>]

\* Each way of opening the gate, each service absent once, no keyboard controller.
SomeMachines ==
    {Machine(video, TRUE, {k}) : video \in BOOLEAN, k \in 1 .. 4}
    \cup {Machine(TRUE, FALSE, {1, 4}), Machine(TRUE, FALSE, {3})}
OneMachine == {Machine(TRUE, TRUE, {1})}
\* The gate stays shut.
ShutMachine == {Machine(TRUE, TRUE, {})}

SomeMemories == {1 .. 12, 1 .. 6, 2 .. 9, {1, 2, 3} \cup 5 .. 10}
=============================================================================
