------------------------------- MODULE Loader -------------------------------
(***************************************************************************)
(* Loading an operating system (src/src/loader.c, and LoadModules of       *)
(* src/src/multiboot.c): the formats an image may have, tried in order,    *)
(* the physical memory each of them takes and gives back, and what lies in *)
(* memory when control is passed on.                                       *)
(*                                                                         *)
(* An image is a record of what its headers say; its bytes are modelled by *)
(* their offsets in the file.  PhysAlloc and PhysFree appear by their      *)
(* contract (the module PhysMem has their code): memory is given out at    *)
(* the requested address if it is free, and sizes are multiples of four,   *)
(* one unit of this model.  Addresses and sizes are small enough not to    *)
(* wrap.  Between the header and the formats comes SystemInfo.             *)
(***************************************************************************)
EXTENDS SystemInfo, FiniteSets

CONSTANTS
    Images,         \* the images that the user may choose
    Memories,       \* the sets of addresses that may be RAM above 1 MB
    MaxAddress,     \* bound: the addresses the model looks at
    IoMayFail       \* can a read or a malloc fail?

\* Segments of an ELF image, sections of a COFF or PE one: to be loaded, where to,
\* where from, and how much.
Segment ==
    [load : BOOLEAN, vaddr : Nat \ {0}, off : Nat, filesz : Nat, memsz : Nat, bss : BOOLEAN]

ASSUME ParamAssumption ==
    /\ MaxAddress \in Nat
    /\ \A m \in Memories : m \subseteq 1 .. MaxAddress
    /\ IoMayFail \in BOOLEAN
    /\ \A img \in Images :
          /\ img.type \in {"auto", "relocatable", "binary", "multiboot", "bootsector"}
          /\ img.size \in Nat /\ img.address \in Nat
          /\ img.wide \in BOOLEAN                 \* is e_phentsize more than it must be?
          /\ img.segs \in Seq(Segment)
          /\ img.modules \in Seq(Nat)             \* their sizes
          /\ {img.mb.offset, img.mb.header, img.mb.load, img.mb.loadEnd, img.mb.bssEnd,
              img.mb.size} \subseteq Nat
          /\ img.mb.magic => img.mb.load > 0      \* PhysAlloc( 0, ... ) means anywhere

VARIABLES
    memory,         \* RAM above 1 MB
    mem,            \* address -> what the loader wrote there
    owned,          \* addresses that PhysAlloc handed out
    formats,        \* formats still to be tried; the first is being tried
    i,              \* index into the segments or modules
    modules,        \* the MODULE array: [src, start, end]
    errno,
    stray,          \* was more written than the memory allocated for it holds?
    badFree         \* was anything freed that was not owned?

loadVars == <<memory, mem, owned, formats, i, modules, errno, stray, badFree>>
vars == <<image, pc, sysVars, loadVars>>

Span(a, n) == a .. a + n - 1

Min2(a, b) == IF a <= b THEN a ELSE b

Junk == <<"junk">>
Zero == <<"zero">>
FileByte(off) == <<"file", off>>
ModuleByte(m, off) == <<"module", m, off>>

----------------------------------------------------------------------------
(* Memory and the file *)

\* Can `len' bytes be read at `off'?  SetFilePointer refuses the end of the file.
InFile(off, len) == off < image.size /\ off + len <= image.size

PhysAllocAt(a, n) == n > 0 /\ Span(a, n) \subseteq memory \ owned

\* ReadFile of `len' bytes to address a, and memset of the bytes up to `size'.
Filled(a, off, len, size) ==
    [x \in DOMAIN mem |->
        IF x \in Span(a, len) THEN FileByte(off + x - a)
        ELSE IF x \in Span(a, size) THEN Zero ELSE mem[x]]

----------------------------------------------------------------------------
(* LoadImage *)

InOrder(type) ==
    CASE type = "auto"        -> <<"multiboot", "elf", "coff", "binary">>
      [] type = "relocatable" -> <<"elf", "coff">>
      [] type = "binary"      -> <<"binary">>
      [] type = "multiboot"   -> <<"multiboot">>

Fail(e) ==
    /\ pc' = "failed"
    /\ errno' = e

\* The file cannot be opened, or its first 8 kB cannot be read.
CannotOpen ==
    /\ pc = "open"
    /\ IoMayFail
    /\ Fail("EIO")
    /\ UNCHANGED <<image, memory, mem, owned, formats, i, modules, stray, badFree>>

\* A header may require what the loader does not know.
ReadHeader ==
    /\ pc = "open"
    /\ image.type # "bootsector"
    /\ pc' = IF ~image.mb.magic THEN "a20" ELSE IF image.supported THEN "header" ELSE "failed"
    /\ UNCHANGED <<image, loadVars>>

\* LoadBootsector: one sector with a signature is run, at an address below 1 MB.
LoadBootsector ==
    /\ pc = "open"
    /\ image.type = "bootsector"
    /\ IF image.supported THEN pc' = "run" /\ UNCHANGED errno ELSE Fail("ECORRUPT")
    /\ UNCHANGED <<image, memory, mem, owned, formats, i, modules, stray, badFree>>

LoadImage ==
    /\ pc = "start"
    /\ formats' = InOrder(image.type)
    /\ pc' = "try"
    /\ UNCHANGED <<image, memory, mem, owned, i, modules, errno, stray, badFree>>

Trying(f) == pc = "try" /\ formats # << >> /\ Head(formats) = f

\* A format that does not recognise the image leaves it to the next.
NotThis(f) ==
    /\ formats' = Tail(formats)
    /\ UNCHANGED <<image, memory, mem, owned, pc, i, modules, errno, stray, badFree>>

NoneFits ==
    /\ pc = "try"
    /\ formats = << >>
    /\ Fail("EFTYPE")
    /\ UNCHANGED <<image, memory, mem, owned, formats, i, modules, stray, badFree>>

Refuse(e) ==
    /\ Fail(e)
    /\ UNCHANGED <<image, memory, mem, owned, formats, i, modules, stray, badFree>>

\* Memory a .. a + size - 1 is allocated and filled: with `len' bytes of the file
\* from `off' on, then zeros; then it is the modules' turn.  The file may be too
\* short, or a read may fail; the memory is then freed again.
LoadPiece(a, size, off, len) ==
    \/ /\ PhysAllocAt(a, size)
       /\ InFile(off, len)
       /\ owned' = owned \cup Span(a, size)
       /\ mem' = Filled(a, off, len, size)
       /\ stray' = (stray \/ len > size)
       /\ pc' = "modules" /\ i' = 1
       /\ UNCHANGED <<image, memory, formats, modules, errno, badFree>>
    \/ /\ PhysAllocAt(a, size)
       /\ IoMayFail \/ ~InFile(off, len)
       /\ Refuse("EIO")
    \/ /\ ~PhysAllocAt(a, size)
       /\ Refuse("ENOMEM")

----------------------------------------------------------------------------
(* LoadMultiboot *)

Offset == image.mb.offset - (image.mb.header - image.mb.load)

LoadEnd == IF image.mb.loadEnd = 0 THEN image.mb.load + (image.size - Offset)
           ELSE image.mb.loadEnd

BssEnd == IF image.mb.bssEnd = 0 THEN LoadEnd ELSE image.mb.bssEnd

AddressesValid ==
    /\ image.mb.load <= image.mb.header
    /\ image.mb.header - image.mb.load <= image.mb.offset
    /\ image.mb.loadEnd = 0 \/ image.mb.loadEnd >= image.mb.load

\* The end of the BSS is compared with the size of the file, not with LoadEndAddr.
BssValid == image.mb.bssEnd = 0 \/ image.mb.bssEnd >= image.mb.load + image.size

LoadMultiboot ==
    /\ Trying("multiboot")
    /\ IF ~(image.mb.magic /\ image.mb.hasAddress) THEN NotThis("multiboot")
       ELSE IF ~(AddressesValid /\ BssValid) THEN Refuse("ECORRUPT")
       ELSE LoadPiece(image.mb.load, BssEnd - image.mb.load, Offset,
                      Min2(LoadEnd - image.mb.load, image.size))

----------------------------------------------------------------------------
(* LoadELF and LoadCOFF *)

ElfValid ==
    /\ \A k \in 1 .. Len(image.segs) : image.segs[k].filesz <= image.segs[k].memsz
    /\ \E k \in 1 .. Len(image.segs) : image.segs[k].load

\* A header that cannot be read is not recognised; after that a failure is final.
LoadELF ==
    /\ Trying("elf")
    /\ \/ (image.format # "elf" \/ IoMayFail) /\ NotThis("elf")
       \/ image.format = "elf" /\ (~ElfValid \/ IoMayFail) /\ Refuse("ECORRUPT")
       \/ /\ image.format = "elf" /\ ElfValid
          /\ pc' = "segments" /\ i' = 1
          /\ UNCHANGED <<image, memory, mem, owned, formats, modules, errno, stray, badFree>>

LoadCOFF ==
    /\ Trying("coff")
    /\ \/ (image.format \notin {"coff", "pe"} \/ IoMayFail) /\ NotThis("coff")
       \/ image.format \in {"coff", "pe"} /\ IoMayFail /\ Refuse("ECORRUPT")
       \/ /\ image.format \in {"coff", "pe"}
          /\ pc' = "segments" /\ i' = 1
          /\ UNCHANGED <<image, memory, mem, owned, formats, modules, errno, stray, badFree>>

Elf == Head(formats) = "elf"

Seg == image.segs[i]

\* Without PE, a COFF section's raw size is its size in memory, and a BSS
\* section has no raw data.
MemSize(s) == IF image.format = "coff" THEN s.filesz ELSE s.memsz
RawSize(s) == IF image.format = "coff" /\ s.bss THEN 0 ELSE s.filesz

\* LoadCOFF does not look at the file for a section without raw data.
SegInFile == (~Elf /\ RawSize(Seg) = 0) \/ InFile(Seg.off, RawSize(Seg))

SkipSegment ==
    /\ pc = "segments"
    /\ i <= Len(image.segs)
    /\ Elf /\ ~Seg.load
    /\ i' = i + 1
    /\ UNCHANGED <<image, memory, mem, owned, pc, formats, modules, errno, stray, badFree>>

MutFillSegment(s) == Filled(s.vaddr, s.off, RawSize(s), RawSize(s))

FillSegment(s) == Filled(s.vaddr, s.off, RawSize(s), MemSize(s))

\* LoadELF goes through the program headers in steps of e_phentsize, but looks for the
\* address and the type of the k-th at phdr[k], in steps of sizeof(ELF32_PHDR).  If
\* these differ, all but the first are some other words of the file.
AtPhdr(k, value, any) == IF Elf /\ image.wide /\ k > 1 THEN any ELSE {value}

Allocated == PhysAllocAt(Seg.vaddr, MemSize(Seg))

\* Does PhysAlloc seem to have returned NULL?
SeemsNull == AtPhdr(i, ~Allocated, BOOLEAN)

LoadSegment ==
    /\ pc = "segments"
    /\ i <= Len(image.segs)
    /\ Elf => Seg.load
    /\ Allocated
    /\ FALSE \in SeemsNull
    /\ SegInFile
    /\ owned' = owned \cup Span(Seg.vaddr, MemSize(Seg))
    /\ mem' = FillSegment(Seg)
    /\ stray' = (stray \/ RawSize(Seg) > MemSize(Seg))
    /\ i' = i + 1
    /\ UNCHANGED <<image, memory, pc, formats, modules, errno, badFree>>

\* PhysAlloc failed and nobody noticed: the segment goes to address zero, which is
\* below the memory that the model looks at.
LoadNowhere ==
    /\ pc = "segments"
    /\ i <= Len(image.segs)
    /\ Elf /\ Seg.load
    /\ ~Allocated
    /\ FALSE \in SeemsNull
    /\ SegInFile
    /\ stray' = (stray \/ MemSize(Seg) > 0)
    /\ errno' = IF MemSize(Seg) > 0 THEN "ENOMEM" ELSE errno
    /\ i' = i + 1
    /\ UNCHANGED <<image, memory, mem, owned, pc, formats, modules, badFree>>

MutFreed(k) == {}

\* The addresses of a segment that was loaded.
Freed(k) == Span(image.segs[k].vaddr, MemSize(image.segs[k]))

\* The segments before i that seem to be loadable.
SeemLoadable ==
    {S \in SUBSET (1 .. i - 1) :
        \A j \in 1 .. i - 1 : (j \in S) \in AtPhdr(j, image.segs[j].load, BOOLEAN)}

\* Segment i could not be loaded.  LoadCOFF frees the sections before it.  LoadELF
\* frees segment i once for each one before it, whether i has memory or not.
FreeEverything(hasMemory) ==
    IF Elf
    THEN \E S \in SeemLoadable :
            /\ owned' = IF hasMemory /\ S = {} THEN owned \cup Freed(i) ELSE owned
            /\ badFree' = (badFree \/ Cardinality(S) > IF hasMemory THEN 1 ELSE 0)
    ELSE /\ owned' = owned \ UNION {Freed(j) : j \in 1 .. i - 1}
         /\ UNCHANGED badFree

SegmentFails ==
    /\ pc = "segments"
    /\ i <= Len(image.segs)
    /\ Elf => Seg.load
    /\ \/ /\ TRUE \in SeemsNull
          /\ Fail("ENOMEM")
          /\ FreeEverything(Allocated)
       \/ /\ FALSE \in SeemsNull
          /\ Allocated
          /\ IoMayFail \/ ~SegInFile
          /\ Fail("ECORRUPT")
          /\ FreeEverything(FALSE)      \* it has just been freed
       \/ /\ FALSE \in SeemsNull
          /\ ~Allocated
          /\ IoMayFail \/ ~SegInFile
          /\ Fail("ECORRUPT")
          /\ badFree' = TRUE            \* address zero is
          /\ UNCHANGED owned
    /\ UNCHANGED <<image, memory, mem, formats, i, modules, stray>>

AllSegments ==
    /\ pc = "segments"
    /\ i > Len(image.segs)
    /\ pc' = "modules" /\ i' = 1
    /\ UNCHANGED <<image, memory, mem, owned, formats, modules, errno, stray, badFree>>

----------------------------------------------------------------------------
(* LoadBinary *)

LoadBinary ==
    /\ Trying("binary")
    /\ IF image.address = 0 THEN NotThis("binary")
       ELSE LoadPiece(image.address, image.size, 0, image.size)

----------------------------------------------------------------------------
(* LoadModules: a module that cannot be loaded leaves the array. *)

WithoutModule(k) == SubSeq(modules, 1, k - 1) \o SubSeq(modules, k + 1, Len(modules))

LoadModule ==
    /\ pc = "modules"
    /\ i <= Len(modules)
    /\ LET n == image.modules[modules[i].src] IN
       \E a \in memory :
          /\ PhysAllocAt(a, n)
          /\ owned' = owned \cup Span(a, n)
          /\ mem' = [x \in DOMAIN mem |->
                        IF x \in Span(a, n) THEN ModuleByte(modules[i].src, x - a) ELSE mem[x]]
          /\ modules' = [modules EXCEPT ![i].start = a, ![i].end = a + n]
    /\ i' = i + 1
    /\ UNCHANGED <<image, memory, pc, formats, errno, stray, badFree>>

MutDropModule ==
    /\ pc = "modules"
    /\ i <= Len(modules)
    /\ IoMayFail \/ \A a \in memory : ~PhysAllocAt(a, image.modules[modules[i].src])
    /\ modules' = WithoutModule(i)
    /\ i' = i + 1
    /\ UNCHANGED <<image, memory, mem, owned, pc, formats, errno, stray, badFree>>

DropModule ==
    /\ pc = "modules"
    /\ i <= Len(modules)
    /\ IoMayFail \/ \A a \in memory : ~PhysAllocAt(a, image.modules[modules[i].src])
    /\ modules' = WithoutModule(i)
    /\ UNCHANGED <<image, memory, mem, owned, pc, formats, i, errno, stray, badFree>>

\* CallAsMultiboot does not return.
Run ==
    /\ pc = "modules"
    /\ i > Len(modules)
    /\ pc' = "run"
    /\ UNCHANGED <<image, memory, mem, owned, formats, i, modules, errno, stray, badFree>>

Init ==
    /\ image \in Images
    /\ memory \in Memories
    /\ mem = [x \in 1 .. MaxAddress |-> Junk]
    /\ owned = {}
    /\ pc = "open"
    /\ formats = << >>
    /\ i = 1
    /\ modules = [k \in 1 .. Len(image.modules) |-> [src |-> k, start |-> 0, end |-> 0]]
    /\ errno = "EZERO"
    /\ stray = FALSE
    /\ badFree = FALSE
    /\ SystemInit

Load == CannotOpen \/ ReadHeader \/ LoadImage \/ LoadBootsector \/ NoneFits
            \/ LoadMultiboot \/ LoadELF \/ LoadCOFF \/ LoadBinary

Segments == SkipSegment \/ LoadSegment \/ LoadNowhere \/ SegmentFails \/ AllSegments

Modules == LoadModule \/ DropModule \/ Run

Next ==
    \/ (Load \/ Segments \/ Modules) /\ UNCHANGED sysVars
    \/ System /\ UNCHANGED loadVars

Spec == Init /\ [][Next]_vars

----------------------------------------------------------------------------
(* Properties *)

\* What the recognised format says must be in memory.
Pieces ==
    CASE Head(formats) = "multiboot" ->
            {[a |-> image.mb.load, size |-> BssEnd - image.mb.load, off |-> Offset,
              len |-> Min2(LoadEnd - image.mb.load, image.size)]}
      [] Head(formats) = "binary" ->
            {[a |-> image.address, size |-> image.size, off |-> 0, len |-> image.size]}
      [] OTHER ->
            {[a |-> s.vaddr, size |-> MemSize(s), off |-> s.off, len |-> RawSize(s)] :
                s \in {image.segs[k] : k \in {j \in 1 .. Len(image.segs) :
                                                 Elf => image.segs[j].load}}}

\* The bytes of a piece, followed by zeros, are in memory that belongs to the image.
InMemory(p) ==
    /\ Span(p.a, p.size) \subseteq owned
    /\ \A x \in Span(p.a, p.size) :
          mem[x] = IF x - p.a < p.len THEN FileByte(p.off + x - p.a) ELSE Zero

Running == pc = "run" /\ formats # << >>

WideElf == Elf /\ image.wide

\* When control passes to the operating system every segment of its image is
\* complete, in memory that belongs to it: nothing loaded later, section or module,
\* was written over it.  Program headers larger than ELF32_PHDR are the exception
\* that SegmentsLoaded is about.
ImageIntact == Running /\ ~WideElf => \A p \in Pieces : InMemory(p)

\* The same without exception: what has been through "Load loadable segments" and
\* "Allocate memory and read data" (loader.c 273, 280) is loaded.
SegmentsLoaded == Running => \A p \in Pieces : InMemory(p)

\* What the kernel learns of its modules is true: they are in the order of the
\* configuration, and each lies complete at the addresses it is told.  (A boot
\* sector has no modules: those of its section are not loaded.)
ModulesIntact ==
    pc = "run" /\ image.type # "bootsector" =>
        /\ \A j, k \in 1 .. Len(modules) : j < k => modules[j].src < modules[k].src
        /\ \A k \in 1 .. Len(modules) :
              LET m == modules[k] IN
              /\ m.end - m.start = image.modules[m.src]
              /\ \A x \in m.start .. m.end - 1 : mem[x] = ModuleByte(m.src, x - m.start)

\* When loading fails, everything has been freed (loader.c: "Something failed,
\* free everything").
EverythingFreed == pc = "failed" => owned = {}

\* The loader frees only memory that it holds, and when loading has failed
\* nothing is held any more, however far it had come.  (LoadELF is the exception
\* that EverythingFreed is about.)
FailureReleases ==
    \/ formats # << >> /\ Elf
    \/ ~badFree /\ (pc = "failed" => owned = {})

\* What the loader writes fits in the memory that it allocated for it (mem.h:
\* "@Size The amount of memory to allocate").
WritesOwned == ~stray
=============================================================================
