---------------------------- MODULE LoaderProofs ----------------------------
(***************************************************************************)
(* What is in memory when an operating system starts, and what is left in  *)
(* it when none does: for all images, all memories and all orders in which *)
(* reads and allocations fail.                                             *)
(***************************************************************************)
EXTENDS Loader, TLAPS

\* The sections of a PE image have no more raw data than memory (loader.c 461 reads
\* all of it); for the other formats the loader sees to it.
RawFits ==
    \A img \in Images : img.format = "pe" =>
        \A k \in 1 .. Len(img.segs) : img.segs[k].filesz <= img.segs[k].memsz

----------------------------------------------------------------------------
(* The invariant *)

Formats == {"multiboot", "elf", "coff", "binary"}

ModuleSet == [src : Nat, start : Int, end : Int]

LoadType ==
    /\ image \in Images
    /\ memory \in Memories
    /\ DOMAIN mem = 1 .. MaxAddress
    /\ owned \subseteq memory
    /\ i \in Nat \ {0}
    /\ formats \in Seq(Formats)
    /\ modules \in Seq(ModuleSet)

\* A piece of the file lies in memory that is held, and zeros follow it.
Sound(m, o, a, size, off, len) ==
    /\ Span(a, size) \subseteq o
    /\ \A x \in Span(a, size) : m[x] = IF x - a < len THEN FileByte(off + x - a) ELSE Zero

SoundSegment(s) == Sound(mem, owned, s.vaddr, MemSize(s), s.off, RawSize(s))

\* Is the segment one that is loaded?
ToLoad(s) == Elf => s.load

\* The first n segments are in memory, if they fit it and their headers have the
\* size that LoadELF takes for granted in one place.
SegmentsThere(n) ==
    RawFits /\ ~WideElf =>
        \A j \in 1 .. n : ToLoad(image.segs[j]) => SoundSegment(image.segs[j])

ImageThere ==
    CASE Head(formats) = "multiboot" ->
            Sound(mem, owned, image.mb.load, BssEnd - image.mb.load, Offset,
                  Min2(LoadEnd - image.mb.load, image.size))
      [] Head(formats) = "binary" ->
            Sound(mem, owned, image.address, image.size, 0, image.size)
      [] OTHER -> SegmentsThere(Len(image.segs))

\* A format that has segments was recognised, and they fit.
Segmented ==
    /\ formats # << >>
    /\ Head(formats) \in {"elf", "coff"}
    /\ i <= Len(image.segs) + 1
    /\ RawFits => \A k \in 1 .. Len(image.segs) :
                     RawSize(image.segs[k]) <= MemSize(image.segs[k])

\* What LoadCOFF has to free when a section fails.
HeldBySegments ==
    ~Elf => owned = UNION {Freed(j) : j \in 1 .. i - 1}

\* A module lies at the addresses that the array has for it.
SoundModule(m, o, e) ==
    /\ e.end - e.start = image.modules[e.src]
    /\ e.start .. e.end - 1 \subseteq o
    /\ \A x \in e.start .. e.end - 1 : m[x] = ModuleByte(e.src, x - e.start)

ModulesThere(n) == \A k \in 1 .. n : SoundModule(mem, owned, modules[k])

InOrderOfConfig ==
    /\ \A k \in 1 .. Len(modules) : modules[k].src \in 1 .. Len(image.modules)
    /\ \A j, k \in 1 .. Len(modules) : j < k => modules[j].src < modules[k].src

Early == {"open", "header", "vbe", "setmode", "getmode", "check", "a20", "start"}

Phase ==
    /\ pc \in Early \cup {"try", "segments", "modules", "run", "failed"}
    /\ pc \in Early => owned = {} /\ formats = << >> /\ i = 1
    /\ pc \in Early \ {"open"} => image.type # "bootsector"
    /\ pc = "try" => owned = {} /\ i = 1
    /\ pc = "segments" => Segmented /\ SegmentsThere(i - 1) /\ HeldBySegments
    /\ pc = "modules" => formats # << >> /\ ImageThere /\ i <= Len(modules) + 1 /\ ModulesThere(i - 1)
    /\ pc = "run" => /\ formats # << >> => ImageThere
                     /\ image.type # "bootsector" => ModulesThere(Len(modules))
    /\ pc = "failed" => (formats # << >> /\ Elf) \/ owned = {}
    /\ (pc = "failed" /\ formats # << >> /\ Elf) \/ ~badFree

IInv == LoadType /\ InOrderOfConfig /\ Phase

----------------------------------------------------------------------------
(* Memory *)

\* What ParamAssumption says of the image.
LEMMA ImageIs ==
    ASSUME image \in Images
    PROVE  /\ image.type \in {"auto", "relocatable", "binary", "multiboot", "bootsector"}
           /\ image.size \in Nat /\ image.address \in Nat
           /\ image.segs \in Seq(Segment)
           /\ image.modules \in Seq(Nat)
           /\ image.mb.offset \in Nat /\ image.mb.header \in Nat /\ image.mb.load \in Nat
           /\ image.mb.loadEnd \in Nat /\ image.mb.bssEnd \in Nat
BY ParamAssumption

\* Memory is allocated and filled from the file.
Places(a, size, off, len) ==
    /\ Span(a, size) \subseteq memory \ owned
    /\ owned' = owned \cup Span(a, size)
    /\ mem' = Filled(a, off, len, size)
    /\ a \in Int /\ size \in Int /\ off \in Int /\ len \in Int
    /\ len <= size

\* The memory then holds the piece, and what was held before is as it was.
Placed(a, size, off, len) ==
    /\ Sound(mem', owned', a, size, off, len)
    /\ \A x \in owned : mem'[x] = mem[x]
    /\ DOMAIN mem' = 1 .. MaxAddress
    /\ owned \subseteq owned' /\ owned' \subseteq memory

\* Filling memory that nobody holds does both.
LEMMA PlacesPlaced ==
    ASSUME LoadType, NEW a, NEW size, NEW off, NEW len, Places(a, size, off, len)
    PROVE  Placed(a, size, off, len)
<1> USE DEF Places
<1>1. DOMAIN mem = 1 .. MaxAddress /\ memory \subseteq 1 .. MaxAddress /\ owned \subseteq memory
  <2>1. DOMAIN mem = 1 .. MaxAddress /\ memory \in Memories /\ owned \subseteq memory
    BY DEF LoadType
  <2>2. memory \subseteq 1 .. MaxAddress
    BY <2>1, ParamAssumption
  <2> QED BY <2>1, <2>2
<1>2. mem' = [x \in 1 .. MaxAddress |->
             IF x \in Span(a, len) THEN FileByte(off + x - a)
             ELSE IF x \in Span(a, size) THEN Zero ELSE mem[x]]
  BY <1>1 DEF Filled
<1>3. ASSUME NEW x \in Span(a, size)
      PROVE  mem'[x] = IF x - a < len THEN FileByte(off + x - a) ELSE Zero
  <2>1. x \in 1 .. MaxAddress
    BY <1>1
  <2>2. x \in Span(a, len) <=> x - a < len
    BY DEF Span
  <2> QED BY <1>2, <2>1, <2>2
<1>4. ASSUME NEW x \in owned
      PROVE  mem'[x] = mem[x]
  <2>1. x \in 1 .. MaxAddress /\ x \notin Span(a, size)
    BY <1>1
  <2>2. x \notin Span(a, len)
    BY <2>1 DEF Span
  <2> QED BY <1>2, <2>1, <2>2
<1>5. DOMAIN mem' = 1 .. MaxAddress
  BY <1>2
<1>6. Sound(mem', owned', a, size, off, len)
  BY <1>3 DEF Sound
<1> QED BY <1>1, <1>4, <1>5, <1>6 DEF Placed

\* Nothing that is written elsewhere disturbs a piece.
LEMMA SoundStays ==
    ASSUME NEW m, NEW o, NEW m2, NEW o2, NEW a, NEW size, NEW off, NEW len,
           Sound(m, o, a, size, off, len), o \subseteq o2, \A x \in o : m2[x] = m[x]
    PROVE  Sound(m2, o2, a, size, off, len)
BY DEF Sound

\* The image stays where it is while modules are loaded.
LEMMA ImageStays ==
    ASSUME ImageThere, image' = image, formats' = formats, owned \subseteq owned',
           \A x \in owned : mem'[x] = mem[x]
    PROVE  ImageThere'
<1>1. CASE Head(formats) = "multiboot"
  <2>1. Sound(mem, owned, image.mb.load, BssEnd - image.mb.load, Offset,
              Min2(LoadEnd - image.mb.load, image.size))
    BY <1>1 DEF ImageThere
  <2>2. Sound(mem', owned', image.mb.load, BssEnd - image.mb.load, Offset,
              Min2(LoadEnd - image.mb.load, image.size))
    BY <2>1, SoundStays
  <2>3. BssEnd' = BssEnd /\ Offset' = Offset /\ LoadEnd' = LoadEnd
    BY DEF BssEnd, Offset, LoadEnd
  <2> QED BY <1>1, <2>2, <2>3 DEF ImageThere
<1>2. CASE Head(formats) = "binary"
  <2>1. Sound(mem, owned, image.address, image.size, 0, image.size)
    BY <1>2 DEF ImageThere
  <2>2. Sound(mem', owned', image.address, image.size, 0, image.size)
    BY <2>1, SoundStays
  <2> QED BY <1>2, <2>2 DEF ImageThere
<1>3. CASE Head(formats) \notin {"multiboot", "binary"}
  <2>1. SegmentsThere(Len(image.segs))
    BY <1>3 DEF ImageThere
  <2>2. ASSUME RawFits, ~WideElf, NEW j \in 1 .. Len(image.segs), ToLoad(image.segs[j])
        PROVE  Sound(mem', owned', image.segs[j].vaddr, MemSize(image.segs[j]), image.segs[j].off,
                     RawSize(image.segs[j]))
    BY <2>1, <2>2, SoundStays DEF SegmentsThere, SoundSegment
  <2>3. SegmentsThere(Len(image.segs))'
    BY <2>2 DEF SegmentsThere, SoundSegment, ToLoad, WideElf, Elf, MemSize, RawSize
  <2> QED BY <1>3, <2>3 DEF ImageThere
<1> QED BY <1>1, <1>2, <1>3

----------------------------------------------------------------------------
(* Segments and sections *)

\* A segment is loaded: into memory that no earlier one has.
LEMMA LoadSegmentIInv ==
    ASSUME IInv, LoadSegment
    PROVE  IInv'
<1> DEFINE s == image.segs[i]
<1>1. /\ LoadType /\ InOrderOfConfig
      /\ pc = "segments" /\ Segmented /\ SegmentsThere(i - 1) /\ HeldBySegments /\ ~badFree
  BY DEF IInv, Phase, LoadSegment
<1>2. /\ i <= Len(image.segs) /\ ToLoad(s)
      /\ Span(s.vaddr, MemSize(s)) \subseteq memory \ owned
      /\ owned' = owned \cup Span(s.vaddr, MemSize(s))
      /\ mem' = Filled(s.vaddr, s.off, RawSize(s), MemSize(s))
      /\ i' = i + 1 /\ pc' = pc /\ image' = image /\ memory' = memory /\ formats' = formats
      /\ modules' = modules /\ badFree' = badFree
  BY DEF LoadSegment, Allocated, ToLoad, Seg, PhysAllocAt, FillSegment
<1>3. /\ image.segs \in Seq(Segment) /\ i \in 1 .. Len(image.segs) /\ i \in Nat
      /\ Len(image.segs) \in Nat
  BY <1>1, <1>2, ImageIs DEF LoadType
<1>4. s \in Segment
  BY <1>3
<1>5. /\ s.vaddr \in Int /\ MemSize(s) \in Int /\ s.off \in Int /\ RawSize(s) \in Int
      /\ RawFits => RawSize(s) <= MemSize(s)
  <2>1. s.filesz \in Int /\ s.memsz \in Int /\ s.vaddr \in Int /\ s.off \in Int
    BY <1>4 DEF Segment
  <2>2. RawFits => RawSize(s) <= MemSize(s)
    BY <1>1, <1>3 DEF Segmented
  <2> QED BY <2>1, <2>2 DEF MemSize, RawSize
<1>a. DOMAIN mem' = 1 .. MaxAddress /\ owned' \subseteq memory
  BY <1>1, <1>2 DEF LoadType, Filled
<1>6. ASSUME RawFits
      PROVE  /\ Sound(mem', owned', s.vaddr, MemSize(s), s.off, RawSize(s))
             /\ \A x \in owned : mem'[x] = mem[x]
  <2>1. Places(s.vaddr, MemSize(s), s.off, RawSize(s))
    BY <1>2, <1>5, <1>6 DEF Places
  <2>2. Placed(s.vaddr, MemSize(s), s.off, RawSize(s))
    BY <1>1, <2>1, PlacesPlaced
  <2> QED BY <2>2 DEF Placed
<1>7. LoadType'
  BY <1>1, <1>2, <1>3, <1>a DEF LoadType
<1>8. InOrderOfConfig'
  BY <1>1, <1>2 DEF InOrderOfConfig
<1>9. ASSUME RawFits, ~WideElf, NEW j \in 1 .. i, ToLoad(image.segs[j])
      PROVE  Sound(mem', owned', image.segs[j].vaddr, MemSize(image.segs[j]), image.segs[j].off,
                   RawSize(image.segs[j]))
  <2>1. CASE j = i
    BY <1>6, <1>9, <2>1
  <2>2. CASE j # i
    <3>1. j \in 1 .. i - 1
      BY <1>3, <2>2
    <3>2. Sound(mem, owned, image.segs[j].vaddr, MemSize(image.segs[j]), image.segs[j].off,
                RawSize(image.segs[j]))
      BY <1>1, <1>9, <3>1 DEF SegmentsThere, SoundSegment
    <3>3. owned \subseteq owned'
      BY <1>2
    <3> QED BY <1>6, <1>9, <3>2, <3>3, SoundStays
  <2> QED BY <2>1, <2>2
<1>10. SegmentsThere(i - 1)'
  <2>1. i' - 1 = i
    BY <1>2, <1>3
  <2> QED BY <1>2, <1>9, <2>1
          DEF SegmentsThere, SoundSegment, ToLoad, WideElf, Elf, MemSize, RawSize
<1>11. Segmented'
  BY <1>1, <1>2, <1>3 DEF Segmented, MemSize, RawSize
<1>12. HeldBySegments'
  <2> SUFFICES ASSUME ~Elf PROVE owned' = UNION {Freed(j)' : j \in 1 .. i' - 1}
    BY <1>2 DEF HeldBySegments, Elf
  <2>1. owned = UNION {Freed(j) : j \in 1 .. i - 1} /\ owned' = owned \cup Freed(i)
    BY <1>1, <1>2 DEF HeldBySegments, Freed
  <2>2. \A j \in 1 .. i : Freed(j)' = Freed(j)
    BY <1>2 DEF Freed, MemSize
  <2>3. i' - 1 = i /\ \A j : j \in 1 .. i <=> j \in 1 .. i - 1 \/ j = i
    BY <1>2, <1>3
  <2>4. ASSUME NEW x PROVE x \in owned' <=> \E j \in 1 .. i : x \in Freed(j)
    BY <2>1, <2>3
  <2> QED BY <2>2, <2>3, <2>4
<1>13. Phase'
  BY <1>1, <1>2, <1>10, <1>11, <1>12 DEF Phase, Early
<1> QED BY <1>7, <1>8, <1>13 DEF IInv

\* A segment whose allocation failed is passed over only if its header is looked for
\* in the wrong place.
LEMMA LoadNowhereIInv ==
    ASSUME IInv, LoadNowhere
    PROVE  IInv'
<1>1. /\ LoadType /\ InOrderOfConfig
      /\ pc = "segments" /\ Segmented /\ ~badFree
  BY DEF IInv, Phase, LoadNowhere
<1>2. /\ i <= Len(image.segs) /\ Elf
      /\ i' = i + 1 /\ pc' = pc /\ image' = image /\ memory' = memory /\ mem' = mem
      /\ owned' = owned /\ formats' = formats /\ modules' = modules /\ badFree' = badFree
  BY DEF LoadNowhere
<1>3. WideElf
  <2>1. FALSE \in SeemsNull /\ ~Allocated
    BY DEF LoadNowhere
  <2>2. ASSUME ~image.wide PROVE FALSE
    <3>1. SeemsNull = {~Allocated}
      BY <2>2 DEF SeemsNull, AtPhdr
    <3> QED BY <2>1, <3>1, Zenon
  <2> QED BY <1>2, <2>2 DEF WideElf
<1>4. image.segs \in Seq(Segment) /\ i \in Nat \ {0} /\ Len(image.segs) \in Nat
  BY <1>1, ImageIs DEF LoadType
<1>5. LoadType' /\ InOrderOfConfig'
  BY <1>1, <1>2 DEF LoadType, InOrderOfConfig
<1>6. SegmentsThere(i - 1)' /\ HeldBySegments'
  BY <1>2, <1>3 DEF SegmentsThere, HeldBySegments, WideElf, Elf
<1>7. Segmented'
  BY <1>1, <1>2, <1>4 DEF Segmented, MemSize, RawSize
<1>8. Phase'
  BY <1>1, <1>2, <1>6, <1>7 DEF Phase, Early
<1> QED BY <1>5, <1>8 DEF IInv

\* A segment fails: LoadCOFF frees what the sections before it hold.
LEMMA SegmentFailsIInv ==
    ASSUME IInv, SegmentFails
    PROVE  IInv'
<1>1. /\ LoadType /\ InOrderOfConfig
      /\ pc = "segments" /\ Segmented /\ HeldBySegments /\ ~badFree
  BY DEF IInv, Phase, SegmentFails
<1>2. /\ pc' = "failed" /\ image' = image /\ memory' = memory /\ mem' = mem
      /\ formats' = formats /\ i' = i /\ modules' = modules
  BY DEF SegmentFails, Fail
<1>3. \/ FreeEverything(Allocated)
      \/ FreeEverything(FALSE)
      \/ FALSE \in SeemsNull /\ ~Allocated /\ owned' = owned
  BY Zenon DEF SegmentFails
<1>4. owned' \subseteq memory
  <2>1. owned \subseteq memory
    BY <1>1 DEF LoadType
  <2>2. CASE FreeEverything(Allocated)
    <3>1. Allocated => Freed(i) \subseteq memory
      BY DEF Allocated, PhysAllocAt, Freed, Seg
    <3>2. \/ owned' \subseteq owned
          \/ Allocated /\ owned' = owned \cup Freed(i)
      BY <2>2 DEF FreeEverything
    <3> QED BY <2>1, <3>1, <3>2
  <2>3. CASE FreeEverything(FALSE)
    BY <2>1, <2>3 DEF FreeEverything
  <2> QED BY <1>3, <2>1, <2>2, <2>3
<1>5. LoadType' /\ InOrderOfConfig'
  BY <1>1, <1>2, <1>4 DEF LoadType, InOrderOfConfig
<1>6. Elf' = Elf /\ formats' # << >>
  BY <1>1, <1>2 DEF Elf, Segmented
<1>7. ASSUME ~Elf PROVE owned' = {} /\ ~badFree'
  <2>1. SeemsNull = {~Allocated}
    BY <1>7 DEF SeemsNull, AtPhdr
  <2>2. ~(FALSE \in SeemsNull /\ ~Allocated)
    BY <2>1, Zenon
  <2>3. owned = UNION {Freed(j) : j \in 1 .. i - 1}
    BY <1>1, <1>7 DEF HeldBySegments
  <2> QED BY <1>1, <1>3, <1>7, <2>2, <2>3 DEF FreeEverything
<1>8. Phase'
  BY <1>2, <1>6, <1>7 DEF Phase, Early
<1> QED BY <1>5, <1>8 DEF IInv

\* ELF segments that are not to be loaded are passed over.
LEMMA SkipSegmentIInv ==
    ASSUME IInv, SkipSegment
    PROVE  IInv'
<1>1. /\ LoadType /\ InOrderOfConfig
      /\ pc = "segments" /\ Segmented /\ SegmentsThere(i - 1) /\ HeldBySegments /\ ~badFree
  BY DEF IInv, Phase, SkipSegment
<1>2. /\ i <= Len(image.segs) /\ Elf /\ ~ToLoad(image.segs[i])
      /\ i' = i + 1 /\ pc' = pc /\ image' = image /\ memory' = memory /\ mem' = mem
      /\ owned' = owned /\ formats' = formats /\ modules' = modules /\ badFree' = badFree
  BY DEF SkipSegment, ToLoad, Seg
<1>3. image.segs \in Seq(Segment) /\ i \in Nat \ {0} /\ Len(image.segs) \in Nat
  BY <1>1, ImageIs DEF LoadType
<1>4. LoadType' /\ InOrderOfConfig'
  BY <1>1, <1>2 DEF LoadType, InOrderOfConfig
<1>5. SegmentsThere(i - 1)'
  <2>1. i' - 1 = i /\ \A j \in 1 .. i : j \in 1 .. i - 1 \/ j = i
    BY <1>2, <1>3
  <2>2. ASSUME RawFits, ~WideElf, NEW j \in 1 .. i, ToLoad(image.segs[j])
        PROVE  SoundSegment(image.segs[j])
    BY <1>1, <1>2, <2>1, <2>2 DEF SegmentsThere
  <2> QED BY <1>2, <2>1, <2>2
          DEF SegmentsThere, SoundSegment, ToLoad, WideElf, Elf, MemSize, RawSize
<1>6. Segmented'
  BY <1>1, <1>2, <1>3 DEF Segmented, MemSize, RawSize
<1>7. HeldBySegments'
  BY <1>2 DEF HeldBySegments, Elf
<1>8. Phase'
  BY <1>1, <1>2, <1>5, <1>6, <1>7 DEF Phase, Early
<1> QED BY <1>4, <1>8 DEF IInv

\* After the last segment the image is complete.
LEMMA AllSegmentsIInv ==
    ASSUME IInv, AllSegments
    PROVE  IInv'
<1>1. /\ LoadType /\ InOrderOfConfig
      /\ pc = "segments" /\ Segmented /\ SegmentsThere(i - 1) /\ ~badFree
  BY DEF IInv, Phase, AllSegments
<1>2. /\ i > Len(image.segs) /\ pc' = "modules" /\ i' = 1
      /\ image' = image /\ memory' = memory /\ mem' = mem
      /\ owned' = owned /\ formats' = formats /\ modules' = modules /\ badFree' = badFree
  BY DEF AllSegments
<1>3. image.segs \in Seq(Segment) /\ i \in Nat \ {0} /\ Len(image.segs) \in Nat
  BY <1>1, ImageIs DEF LoadType
<1>4. LoadType' /\ InOrderOfConfig'
  BY <1>1, <1>2 DEF LoadType, InOrderOfConfig
<1>5. ImageThere
  <2>1. i - 1 = Len(image.segs)
    BY <1>1, <1>2, <1>3 DEF Segmented
  <2> QED BY <1>1, <2>1 DEF Segmented, ImageThere
<1>6. ImageThere'
  BY <1>2, <1>5, ImageStays
<1>7. formats' # << >> /\ i' <= Len(modules') + 1 /\ ModulesThere(i - 1)'
  BY <1>1, <1>2 DEF Segmented, ModulesThere, LoadType
<1>8. Phase'
  BY <1>1, <1>2, <1>6, <1>7 DEF Phase, Early
<1> QED BY <1>4, <1>8 DEF IInv

----------------------------------------------------------------------------
(* Modules *)

\* A record of the array with new addresses.
LEMMA ModuleAt ==
    ASSUME NEW e \in ModuleSet, NEW a \in Int
    PROVE  /\ [e EXCEPT !.start = a] \in ModuleSet /\ [e EXCEPT !.start = a].start = a
           /\ [e EXCEPT !.start = a].src = e.src
           /\ [e EXCEPT !.end = a] \in ModuleSet /\ [e EXCEPT !.end = a].end = a
           /\ [e EXCEPT !.end = a].src = e.src /\ [e EXCEPT !.end = a].start = e.start
BY DEF ModuleSet

\* A module goes where there is room; the image and the modules before it stay.
LEMMA LoadModuleIInv ==
    ASSUME IInv, LoadModule
    PROVE  IInv'
<1> DEFINE n == image.modules[modules[i].src]
<1>1. /\ LoadType /\ InOrderOfConfig /\ pc = "modules" /\ formats # << >> /\ ImageThere
      /\ ModulesThere(i - 1) /\ ~badFree
  BY DEF IInv, Phase, LoadModule
<1>2. PICK a \in memory :
        /\ Span(a, n) \subseteq memory \ owned
        /\ owned' = owned \cup Span(a, n)
        /\ mem' = [x \in DOMAIN mem |->
                      IF x \in Span(a, n) THEN ModuleByte(modules[i].src, x - a) ELSE mem[x]]
        /\ modules' = [modules EXCEPT ![i].start = a, ![i].end = a + n]
  BY DEF LoadModule, PhysAllocAt
<1>3. /\ i <= Len(modules) /\ i' = i + 1 /\ pc' = pc /\ image' = image /\ memory' = memory
      /\ formats' = formats /\ badFree' = badFree
  BY DEF LoadModule
<1>4. /\ modules \in Seq(ModuleSet) /\ i \in 1 .. Len(modules) /\ i \in Nat /\ Len(modules) \in Nat
      /\ a \in Int /\ memory \subseteq 1 .. MaxAddress /\ owned \subseteq memory
      /\ DOMAIN mem = 1 .. MaxAddress
  <2>1. memory \in Memories /\ owned \subseteq memory
    BY <1>1 DEF LoadType
  <2>2. memory \subseteq 1 .. MaxAddress
    BY <2>1, ParamAssumption
  <2> QED BY <1>1, <1>3, <2>1, <2>2 DEF LoadType
<1>5. n \in Int
  <2>1. image.modules \in Seq(Nat) /\ modules[i].src \in 1 .. Len(image.modules)
    BY <1>1, <1>4, ImageIs DEF LoadType, InOrderOfConfig
  <2> QED BY <2>1
<1>n. n = image.modules[modules[i].src]
  OBVIOUS
<1> HIDE DEF n
<1>6. /\ Len(modules') = Len(modules) /\ modules' \in Seq(ModuleSet)
      /\ \A k \in 1 .. Len(modules) : modules'[k].src = modules[k].src
      /\ \A k \in 1 .. Len(modules) : k # i => modules'[k] = modules[k]
      /\ modules'[i].start = a /\ modules'[i].end = a + n
  <2> DEFINE e == modules[i]
             e1 == [e EXCEPT !.start = a]
             e2 == [e1 EXCEPT !.end = a + n]
  <2>1. modules' = [[modules EXCEPT ![i] = e1] EXCEPT ![i] = [[modules EXCEPT ![i] = e1][i] EXCEPT !.end = a + n]]
    BY <1>2, Zenon
  <2>2. [modules EXCEPT ![i] = e1][i] = e1
    BY <1>4
  <2>3. e \in ModuleSet
    BY <1>4
  <2>4. e1 \in ModuleSet /\ e1.start = a /\ e1.src = e.src
    BY <1>4, <2>3, ModuleAt
  <2> HIDE DEF e1
  <2>a. a + n \in Int
    BY <1>4, <1>5
  <2>5. e2 \in ModuleSet /\ e2.start = a /\ e2.src = e.src /\ e2.end = a + n
    BY <2>a, <2>4, ModuleAt
  <2>6. modules' = [[modules EXCEPT ![i] = e1] EXCEPT ![i] = e2]
    BY <2>1, <2>2
  <2> HIDE DEF e2
  <2>7. [modules EXCEPT ![i] = e1] \in Seq(ModuleSet) /\ Len([modules EXCEPT ![i] = e1]) = Len(modules)
    BY <1>4, <2>4
  <2>8. modules' \in Seq(ModuleSet) /\ Len(modules') = Len(modules)
    BY <1>4, <2>5, <2>6, <2>7
  <2>9. modules'[i] = e2 /\ \A k \in 1 .. Len(modules) : k # i => modules'[k] = modules[k]
    BY <1>4, <2>6, <2>7
  <2> QED BY <2>5, <2>8, <2>9
<1>7. /\ \A x \in Span(a, n) : mem'[x] = ModuleByte(modules[i].src, x - a)
      /\ \A x \in owned : mem'[x] = mem[x]
      /\ DOMAIN mem' = 1 .. MaxAddress /\ owned \subseteq owned' /\ owned' \subseteq memory
  BY <1>2, <1>4
<1>8. LoadType'
  BY <1>1, <1>3, <1>4, <1>6, <1>7 DEF LoadType
<1>9. InOrderOfConfig'
  BY <1>1, <1>3, <1>6 DEF InOrderOfConfig
<1>10. ImageThere'
  BY <1>1, <1>3, <1>7, ImageStays
<1>11. ASSUME NEW k \in 1 .. i
       PROVE  SoundModule(mem, owned, modules[k])'
  <2>1. CASE k = i
    <3>1. Span(a, n) = a .. a + n - 1 /\ (a + n) - a = n
      BY <1>4, <1>5 DEF Span
    <3>2. Span(a, n) \subseteq owned'
      BY <1>2
    <3>3. /\ modules'[k].start = a /\ modules'[k].end = a + n /\ modules'[k].src = modules[i].src
      BY <1>4, <1>6, <2>1
    <3>4. modules'[k].end - modules'[k].start = image'.modules[modules'[k].src]
      BY <1>3, <1>n, <3>1, <3>3
    <3>5. /\ modules'[k].start .. modules'[k].end - 1 \subseteq owned'
          /\ \A x \in modules'[k].start .. modules'[k].end - 1 :
                mem'[x] = ModuleByte(modules'[k].src, x - modules'[k].start)
      <4>1. modules'[k].start .. modules'[k].end - 1 = Span(a, n)
        <5>1. modules'[k].start = a
          BY <3>3
        <5>2. modules'[k].end - 1 = a + n - 1
          <6>1. (a + n) - 1 = a + n - 1
            BY <1>4, <1>5
          <6> QED BY <3>3, <6>1
        <5> QED BY <5>1, <5>2 DEF Span
      <4> QED BY <1>7, <3>2, <3>3, <4>1
    <3> QED BY <3>4, <3>5 DEF SoundModule
  <2>2. CASE k # i
    <3>1. k \in 1 .. i - 1 /\ k \in 1 .. Len(modules)
      BY <1>4, <2>2
    <3>2. SoundModule(mem, owned, modules[k])
      BY <1>1, <3>1 DEF ModulesThere
    <3>3. modules'[k] = modules[k]
      BY <1>6, <2>2, <3>1
    <3> QED BY <1>3, <1>7, <3>2, <3>3 DEF SoundModule
  <2> QED BY <2>1, <2>2
<1>12. ModulesThere(i - 1)'
  <2>1. i' - 1 = i
    BY <1>3, <1>4
  <2> QED BY <1>11, <2>1 DEF ModulesThere
<1>13. i' <= Len(modules') + 1
  BY <1>3, <1>4, <1>6
<1>14. Phase'
  BY <1>1, <1>3, <1>10, <1>12, <1>13 DEF Phase, Early
<1> QED BY <1>8, <1>9, <1>14 DEF IInv

\* A module that cannot be loaded leaves the array; the ones behind it move up.
LEMMA DropModuleIInv ==
    ASSUME IInv, DropModule
    PROVE  IInv'
<1>1. /\ LoadType /\ InOrderOfConfig /\ pc = "modules" /\ formats # << >> /\ ImageThere
      /\ ModulesThere(i - 1) /\ ~badFree
  BY DEF IInv, Phase, DropModule
<1>2. /\ i <= Len(modules) /\ modules' = WithoutModule(i)
      /\ i' = i /\ pc' = pc /\ image' = image /\ memory' = memory
      /\ mem' = mem /\ owned' = owned /\ formats' = formats /\ badFree' = badFree
  BY DEF DropModule
<1>3. modules \in Seq(ModuleSet) /\ i \in 1 .. Len(modules) /\ i \in Nat /\ Len(modules) \in Nat
  BY <1>1, <1>2 DEF LoadType
<1>4. /\ modules' \in Seq(ModuleSet) /\ Len(modules') = Len(modules) - 1
      /\ \A k \in 1 .. Len(modules) - 1 : modules'[k] = modules[IF k < i THEN k ELSE k + 1]
  <2> DEFINE front == SubSeq(modules, 1, i - 1)
             back == SubSeq(modules, i + 1, Len(modules))
  <2>1. /\ front \in Seq(ModuleSet) /\ Len(front) = i - 1
        /\ \A k \in 1 .. i - 1 : front[k] = modules[k]
    BY <1>3
  <2>2. /\ back \in Seq(ModuleSet) /\ Len(back) = Len(modules) - i
        /\ \A k \in 1 .. Len(modules) - i : back[k] = modules[k + i]
    BY <1>3
  <2>3. modules' = front \o back
    BY <1>2 DEF WithoutModule
  <2> HIDE DEF front, back
  <2>4. modules' \in Seq(ModuleSet) /\ Len(modules') = Len(modules) - 1
    BY <1>3, <2>1, <2>2, <2>3
  <2>5. ASSUME NEW k \in 1 .. Len(modules) - 1
        PROVE  modules'[k] = modules[IF k < i THEN k ELSE k + 1]
    <3>1. CASE k < i
      BY <1>3, <2>1, <2>2, <2>3, <3>1
    <3>2. CASE ~(k < i)
      <4>1. modules'[k] = back[k - (i - 1)]
        BY <1>3, <2>1, <2>2, <2>3, <3>2
      <4>2. k - (i - 1) \in 1 .. Len(modules) - i /\ (k - (i - 1)) + i = k + 1
        BY <1>3, <3>2
      <4> QED BY <2>2, <3>2, <4>1, <4>2
    <3> QED BY <3>1, <3>2
  <2> QED BY <2>4, <2>5
<1>5. LoadType'
  BY <1>1, <1>2, <1>4 DEF LoadType
<1>6. InOrderOfConfig'
  <2> DEFINE old(k) == IF k < i THEN k ELSE k + 1
  <2>1. ASSUME NEW k \in 1 .. Len(modules')
        PROVE  old(k) \in 1 .. Len(modules) /\ modules'[k].src = modules[old(k)].src
    BY <1>3, <1>4
  <2>2. ASSUME NEW j \in 1 .. Len(modules'), NEW k \in 1 .. Len(modules'), j < k
        PROVE  old(j) < old(k)
    BY <1>3, <1>4, <2>2
  <2> HIDE DEF old
  <2> QED BY <1>1, <1>2, <2>1, <2>2 DEF InOrderOfConfig
<1>7. ImageThere'
  BY <1>1, <1>2, ImageStays
<1>8. ModulesThere(i - 1)'
  <2>1. ASSUME NEW k \in 1 .. i - 1 PROVE modules'[k] = modules[k]
    BY <1>3, <1>4
  <2> QED BY <1>1, <1>2, <2>1 DEF ModulesThere, SoundModule
<1>9. i' <= Len(modules') + 1
  BY <1>2, <1>3, <1>4
<1>10. Phase'
  BY <1>1, <1>2, <1>7, <1>8, <1>9 DEF Phase, Early
<1> QED BY <1>5, <1>6, <1>10 DEF IInv

\* Control passes to the operating system: all its modules are in memory.
LEMMA RunIInv ==
    ASSUME IInv, Run
    PROVE  IInv'
<1>1. /\ LoadType /\ InOrderOfConfig /\ pc = "modules" /\ formats # << >> /\ ImageThere
      /\ i <= Len(modules) + 1 /\ ModulesThere(i - 1) /\ ~badFree
  BY DEF IInv, Phase, Run
<1>2. /\ i > Len(modules) /\ pc' = "run" /\ image' = image /\ memory' = memory /\ mem' = mem
      /\ owned' = owned /\ formats' = formats /\ i' = i /\ modules' = modules
      /\ badFree' = badFree
  BY DEF Run
<1>3. i - 1 = Len(modules)
  BY <1>1, <1>2 DEF LoadType
<1>4. ModulesThere(Len(modules))'
  BY <1>1, <1>2, <1>3 DEF ModulesThere, SoundModule
<1>5. ImageThere'
  BY <1>1, <1>2, ImageStays
<1>6. LoadType' /\ InOrderOfConfig'
  BY <1>1, <1>2 DEF LoadType, InOrderOfConfig
<1>7. Phase'
  BY <1>1, <1>2, <1>4, <1>5 DEF Phase, Early
<1> QED BY <1>6, <1>7 DEF IInv

----------------------------------------------------------------------------
(* Formats *)

\* A failure before anything was allocated.
FailsEarly ==
    /\ owned = {} /\ ~badFree
    /\ pc' = "failed"
    /\ UNCHANGED <<image, memory, mem, owned, formats, i, modules, badFree>>

LEMMA FailsEarlyIInv ==
    ASSUME IInv, FailsEarly
    PROVE  IInv'
<1>1. LoadType /\ InOrderOfConfig
  BY DEF IInv
<1>2. /\ owned' = {} /\ ~badFree' /\ pc' = "failed" /\ image' = image /\ memory' = memory
      /\ mem' = mem /\ owned' = owned /\ formats' = formats /\ i' = i /\ modules' = modules
  BY DEF FailsEarly
<1>3. LoadType' /\ InOrderOfConfig'
  BY <1>1, <1>2 DEF LoadType, InOrderOfConfig
<1>4. Phase'
  BY <1>2 DEF Phase, Early
<1> QED BY <1>3, <1>4 DEF IInv

\* What holds while a format is being tried.
LEMMA TryingHolds ==
    ASSUME IInv, pc = "try"
    PROVE  LoadType /\ InOrderOfConfig /\ owned = {} /\ i = 1 /\ ~badFree
BY DEF IInv, Phase

LEMMA RefuseIInv ==
    ASSUME IInv, pc = "try", NEW e, Refuse(e)
    PROVE  IInv'
<1>1. FailsEarly
  BY TryingHolds DEF FailsEarly, Refuse, Fail
<1> QED BY <1>1, FailsEarlyIInv

LEMMA NoneFitsIInv ==
    ASSUME IInv, NoneFits
    PROVE  IInv'
<1>1. FailsEarly
  BY TryingHolds DEF FailsEarly, NoneFits, Fail
<1> QED BY <1>1, FailsEarlyIInv

LEMMA NotThisIInv ==
    ASSUME IInv, pc = "try", formats # << >>, NEW f, NotThis(f)
    PROVE  IInv'
<1>1. LoadType /\ InOrderOfConfig /\ owned = {} /\ i = 1 /\ ~badFree
  BY TryingHolds
<1>2. /\ formats' = Tail(formats)
      /\ pc' = pc /\ badFree' = badFree /\ image' = image /\ memory' = memory
      /\ mem' = mem /\ owned' = owned /\ i' = i /\ modules' = modules
  BY DEF NotThis
<1>3. formats' \in Seq(Formats)
  BY <1>1, <1>2 DEF LoadType
<1>4. LoadType' /\ InOrderOfConfig'
  BY <1>1, <1>2, <1>3 DEF LoadType, InOrderOfConfig
<1>5. Phase'
  BY <1>1, <1>2 DEF Phase, Early
<1> QED BY <1>4, <1>5 DEF IInv

\* An image in one piece: it is loaded whole, or nothing is held.
LEMMA LoadPieceIInv ==
    ASSUME IInv, pc = "try", formats # << >>,
           NEW a \in Int, NEW size \in Int, NEW off \in Int, NEW len \in Int, len <= size,
           LoadPiece(a, size, off, len),
           image' = image /\ formats' = formats /\ Sound(mem', owned', a, size, off, len)
              => ImageThere'
    PROVE  IInv'
<1>1. LoadType /\ InOrderOfConfig /\ owned = {} /\ i = 1 /\ ~badFree
  BY TryingHolds
<1>2. \/ Refuse("EIO") \/ Refuse("ENOMEM")
      \/ /\ Span(a, size) \subseteq memory \ owned
         /\ owned' = owned \cup Span(a, size)
         /\ mem' = Filled(a, off, len, size)
         /\ pc' = "modules" /\ i' = 1
         /\ UNCHANGED <<image, memory, formats, modules, badFree>>
  BY DEF LoadPiece, PhysAllocAt
<1>3. CASE Refuse("EIO") \/ Refuse("ENOMEM")
  BY <1>3, RefuseIInv
<1>4. CASE /\ Span(a, size) \subseteq memory \ owned
           /\ owned' = owned \cup Span(a, size)
           /\ mem' = Filled(a, off, len, size)
           /\ pc' = "modules" /\ i' = 1
           /\ UNCHANGED <<image, memory, formats, modules, badFree>>
  <2>1. Places(a, size, off, len)
    BY <1>4 DEF Places
  <2>2. /\ Sound(mem', owned', a, size, off, len)
        /\ DOMAIN mem' = 1 .. MaxAddress /\ owned' \subseteq memory
    BY <1>1, <2>1, PlacesPlaced DEF Placed
  <2>3. image' = image /\ memory' = memory /\ formats' = formats /\ modules' = modules
        /\ badFree' = badFree /\ i' = 1 /\ pc' = "modules"
    BY <1>4
  <2>4. ImageThere'
    BY <2>2, <2>3
  <2>5. LoadType' /\ InOrderOfConfig'
    BY <1>1, <2>2, <2>3 DEF LoadType, InOrderOfConfig
  <2>6. i' <= Len(modules') + 1 /\ ModulesThere(i - 1)'
    BY <1>1, <2>3 DEF LoadType, ModulesThere
  <2>7. Phase'
    BY <1>1, <2>3, <2>4, <2>6 DEF Phase, Early
  <2> QED BY <2>5, <2>7 DEF IInv
<1> QED BY <1>2, <1>3, <1>4

\* The addresses of a multiboot header that was found valid: no more is read than
\* memory is allocated for.
LEMMA MultibootFits ==
    ASSUME image \in Images, AddressesValid, BssValid
    PROVE  /\ image.mb.load \in Int /\ BssEnd - image.mb.load \in Int /\ Offset \in Int
           /\ Min2(LoadEnd - image.mb.load, image.size) \in Int
           /\ Min2(LoadEnd - image.mb.load, image.size) <= BssEnd - image.mb.load
<1>1. /\ image.mb.offset \in Nat /\ image.mb.header \in Nat /\ image.mb.load \in Nat
      /\ image.mb.loadEnd \in Nat /\ image.mb.bssEnd \in Nat /\ image.size \in Nat
  BY ImageIs
<1>2. Offset \in Int
  BY <1>1 DEF Offset
<1>3. LoadEnd \in Int
  BY <1>1, <1>2 DEF LoadEnd
<1>4. BssEnd \in Int /\ (BssEnd = LoadEnd \/ BssEnd >= image.mb.load + image.size)
  BY <1>1, <1>3 DEF BssEnd, BssValid
<1> QED BY <1>1, <1>2, <1>3, <1>4 DEF Min2

LEMMA LoadMultibootIInv ==
    ASSUME IInv, LoadMultiboot
    PROVE  IInv'
<1>1. pc = "try" /\ formats # << >> /\ Head(formats) = "multiboot" /\ image \in Images
  BY DEF LoadMultiboot, Trying, IInv, LoadType
<1>2. CASE NotThis("multiboot") \/ Refuse("ECORRUPT")
  BY <1>1, <1>2, NotThisIInv, RefuseIInv
<1>3. CASE /\ AddressesValid /\ BssValid
           /\ LoadPiece(image.mb.load, BssEnd - image.mb.load, Offset,
                        Min2(LoadEnd - image.mb.load, image.size))
  <2>1. ASSUME image' = image, formats' = formats,
               Sound(mem', owned', image.mb.load, BssEnd - image.mb.load, Offset,
                     Min2(LoadEnd - image.mb.load, image.size))
        PROVE  ImageThere'
    <3>1. BssEnd' = BssEnd /\ Offset' = Offset /\ LoadEnd' = LoadEnd
      BY <2>1 DEF BssEnd, Offset, LoadEnd
    <3> QED BY <1>1, <2>1, <3>1 DEF ImageThere
  <2>2. /\ image.mb.load \in Int /\ BssEnd - image.mb.load \in Int /\ Offset \in Int
        /\ Min2(LoadEnd - image.mb.load, image.size) \in Int
        /\ Min2(LoadEnd - image.mb.load, image.size) <= BssEnd - image.mb.load
    BY <1>1, <1>3, MultibootFits
  <2> QED BY <1>1, <1>3, <2>1, <2>2, LoadPieceIInv
<1> QED BY <1>2, <1>3 DEF LoadMultiboot

LEMMA LoadBinaryIInv ==
    ASSUME IInv, LoadBinary
    PROVE  IInv'
<1>1. pc = "try" /\ formats # << >> /\ Head(formats) = "binary" /\ image \in Images
  BY DEF LoadBinary, Trying, IInv, LoadType
<1>2. CASE NotThis("binary")
  BY <1>1, <1>2, NotThisIInv
<1>3. CASE LoadPiece(image.address, image.size, 0, image.size)
  <2>1. ASSUME image' = image, formats' = formats,
               Sound(mem', owned', image.address, image.size, 0, image.size)
        PROVE  ImageThere'
    BY <1>1, <2>1 DEF ImageThere
  <2>2. image.address \in Int /\ image.size \in Int /\ image.size <= image.size
    BY <1>1, ImageIs
  <2> QED BY <1>1, <1>3, <2>1, <2>2, LoadPieceIInv
<1> QED BY <1>2, <1>3 DEF LoadBinary

\* The segments are about to be loaded, and each fits the memory it will have.
StartsSegments ==
    /\ pc = "try" /\ formats # << >>
    /\ Head(formats) \in {"elf", "coff"}
    /\ RawFits => \A k \in 1 .. Len(image.segs) :
                     RawSize(image.segs[k]) <= MemSize(image.segs[k])
    /\ pc' = "segments" /\ i' = 1
    /\ UNCHANGED <<image, memory, mem, owned, formats, modules, badFree>>

LEMMA StartsSegmentsIInv ==
    ASSUME IInv, StartsSegments
    PROVE  IInv'
<1>1. LoadType /\ InOrderOfConfig /\ owned = {} /\ i = 1 /\ ~badFree
  BY TryingHolds DEF StartsSegments
<1>2. /\ formats # << >> /\ Head(formats) \in {"elf", "coff"}
      /\ RawFits => \A k \in 1 .. Len(image.segs) :
                        RawSize(image.segs[k]) <= MemSize(image.segs[k])
      /\ pc' = "segments" /\ i' = 1
      /\ image' = image /\ memory' = memory /\ mem' = mem /\ owned' = owned
      /\ formats' = formats /\ modules' = modules /\ badFree' = badFree
  BY DEF StartsSegments
<1>3. LoadType' /\ InOrderOfConfig'
  BY <1>1, <1>2 DEF LoadType, InOrderOfConfig
<1>4. Segmented'
  <2>1. Len(image.segs) \in Nat
    BY <1>1, ImageIs DEF LoadType
  <2> QED BY <1>2, <2>1 DEF Segmented, MemSize, RawSize
<1>5. SegmentsThere(i - 1)' /\ HeldBySegments'
  BY <1>1, <1>2 DEF SegmentsThere, HeldBySegments
<1>6. Phase'
  BY <1>1, <1>2, <1>4, <1>5 DEF Phase, Early
<1> QED BY <1>3, <1>6 DEF IInv

LEMMA LoadELFIInv ==
    ASSUME IInv, LoadELF
    PROVE  IInv'
<1>1. pc = "try" /\ formats # << >> /\ Head(formats) = "elf"
  BY DEF LoadELF, Trying
<1>2. CASE NotThis("elf") \/ Refuse("ECORRUPT")
  BY <1>1, <1>2, NotThisIInv, RefuseIInv
<1>3. CASE /\ image.format = "elf" /\ ElfValid
           /\ pc' = "segments" /\ i' = 1
           /\ UNCHANGED <<image, memory, mem, owned, formats, modules, errno, stray, badFree>>
  <2>1. \A k \in 1 .. Len(image.segs) : RawSize(image.segs[k]) <= MemSize(image.segs[k])
    BY <1>3 DEF ElfValid, RawSize, MemSize
  <2>2. StartsSegments
    BY <1>1, <1>3, <2>1 DEF StartsSegments
  <2> QED BY <2>2, StartsSegmentsIInv
<1> QED BY <1>2, <1>3 DEF LoadELF

LEMMA LoadCOFFIInv ==
    ASSUME IInv, LoadCOFF
    PROVE  IInv'
<1>1. pc = "try" /\ formats # << >> /\ Head(formats) = "coff" /\ image \in Images
  BY DEF LoadCOFF, Trying, IInv, LoadType
<1>2. CASE NotThis("coff") \/ Refuse("ECORRUPT")
  BY <1>1, <1>2, NotThisIInv, RefuseIInv
<1>3. CASE /\ image.format \in {"coff", "pe"}
           /\ pc' = "segments" /\ i' = 1
           /\ UNCHANGED <<image, memory, mem, owned, formats, modules, errno, stray, badFree>>
  <2>1. ASSUME RawFits, NEW k \in 1 .. Len(image.segs)
        PROVE  RawSize(image.segs[k]) <= MemSize(image.segs[k])
    <3>1. image.segs[k].filesz \in Nat
      <4>1. image.segs \in Seq(Segment)
        BY <1>1, ImageIs
      <4>2. image.segs[k] \in Segment
        BY <4>1
      <4> QED BY <4>2 DEF Segment
    <3>2. CASE image.format = "coff"
      BY <3>1, <3>2 DEF RawSize, MemSize
    <3>3. CASE image.format = "pe"
      BY <1>1, <2>1, <3>3 DEF RawFits, RawSize, MemSize
    <3> QED BY <1>3, <3>2, <3>3
  <2>2. StartsSegments
    BY <1>1, <1>3, <2>1 DEF StartsSegments
  <2> QED BY <2>2, StartsSegmentsIInv
<1> QED BY <1>2, <1>3 DEF LoadCOFF

----------------------------------------------------------------------------
(* Before the formats *)

\* The steps up to the formats hold nothing.
LEMMA EarlyHolds ==
    ASSUME IInv, pc \in Early
    PROVE  LoadType /\ InOrderOfConfig /\ owned = {} /\ formats = << >> /\ i = 1 /\ ~badFree
BY DEF IInv, Phase, Early

\* A step from one of them to another.
StaysEarly ==
    /\ pc \in Early
    /\ pc' \in Early \ {"open"}
    /\ image.type # "bootsector"
    /\ UNCHANGED <<image, loadVars>>

LEMMA StaysEarlyIInv ==
    ASSUME IInv, StaysEarly
    PROVE  IInv'
<1>1. LoadType /\ InOrderOfConfig /\ owned = {} /\ formats = << >> /\ i = 1 /\ ~badFree
  BY EarlyHolds DEF StaysEarly
<1>2. /\ pc' \in Early /\ image' = image /\ memory' = memory /\ mem' = mem /\ owned' = owned
      /\ formats' = formats /\ i' = i /\ modules' = modules /\ badFree' = badFree
      /\ image.type # "bootsector"
  BY DEF StaysEarly, loadVars
<1>3. LoadType' /\ InOrderOfConfig'
  BY <1>1, <1>2 DEF LoadType, InOrderOfConfig
<1>4. Phase'
  BY <1>1, <1>2 DEF Phase, Early
<1> QED BY <1>3, <1>4 DEF IInv

LEMMA OpenIInv ==
    ASSUME IInv, CannotOpen \/ ReadHeader \/ LoadBootsector
    PROVE  IInv'
<1>1. pc = "open" /\ pc \in Early
  BY DEF CannotOpen, ReadHeader, LoadBootsector, Early
<1>2. LoadType /\ InOrderOfConfig /\ owned = {} /\ formats = << >> /\ i = 1 /\ ~badFree
  BY <1>1, EarlyHolds
<1>3. CASE CannotOpen
  <2>1. FailsEarly
    BY <1>2, <1>3 DEF FailsEarly, CannotOpen, Fail
  <2> QED BY <2>1, FailsEarlyIInv
<1>4. CASE ReadHeader
  <2>1. /\ image.type # "bootsector" /\ UNCHANGED <<image, loadVars>>
        /\ pc' \in {"a20", "header", "failed"}
    BY <1>4 DEF ReadHeader
  <2>2. CASE pc' = "failed"
    <3>1. FailsEarly
      BY <1>2, <2>1, <2>2 DEF FailsEarly, loadVars
    <3> QED BY <3>1, FailsEarlyIInv
  <2>3. CASE pc' \in {"a20", "header"}
    <3>1. StaysEarly
      BY <1>1, <2>1, <2>3 DEF StaysEarly, Early
    <3> QED BY <3>1, StaysEarlyIInv
  <2> QED BY <2>1, <2>2, <2>3
<1>5. CASE LoadBootsector
  <2>1. /\ image.type = "bootsector" /\ pc' \in {"run", "failed"}
        /\ UNCHANGED <<image, memory, mem, owned, formats, i, modules, badFree>>
    BY <1>5 DEF LoadBootsector, Fail
  <2>2. CASE pc' = "failed"
    <3>1. FailsEarly
      BY <1>2, <2>1, <2>2 DEF FailsEarly
    <3> QED BY <3>1, FailsEarlyIInv
  <2>3. CASE pc' = "run"
    <3>1. /\ image' = image /\ memory' = memory /\ mem' = mem /\ owned' = owned
          /\ formats' = formats /\ i' = i /\ modules' = modules /\ badFree' = badFree
      BY <2>1
    <3>2. LoadType' /\ InOrderOfConfig'
      BY <1>2, <3>1 DEF LoadType, InOrderOfConfig
    <3>3. Phase'
      BY <1>2, <2>1, <2>3, <3>1 DEF Phase, Early
    <3> QED BY <3>2, <3>3 DEF IInv
  <2> QED BY <2>1, <2>2, <2>3
<1> QED BY <1>3, <1>4, <1>5

LEMMA LoadImageIInv ==
    ASSUME IInv, LoadImage
    PROVE  IInv'
<1>1. pc = "start" /\ pc \in Early /\ image.type # "bootsector"
  BY DEF LoadImage, IInv, Phase, Early
<1>2. LoadType /\ InOrderOfConfig /\ owned = {} /\ i = 1 /\ ~badFree
  BY <1>1, EarlyHolds
<1>3. /\ formats' = InOrder(image.type) /\ pc' = "try"
      /\ image' = image /\ memory' = memory /\ mem' = mem /\ owned' = owned
      /\ i' = i /\ modules' = modules /\ badFree' = badFree
  BY DEF LoadImage
<1>4. image.type \in {"auto", "relocatable", "binary", "multiboot"}
  BY <1>1, <1>2, ImageIs DEF LoadType
<1>5. formats' \in Seq(Formats)
  <2>1. CASE image.type = "auto"
    BY <1>3, <2>1 DEF InOrder, Formats
  <2>2. CASE image.type = "relocatable"
    BY <1>3, <2>2 DEF InOrder, Formats
  <2>3. CASE image.type = "binary"
    BY <1>3, <2>3 DEF InOrder, Formats
  <2>4. CASE image.type = "multiboot"
    BY <1>3, <2>4 DEF InOrder, Formats
  <2> QED BY <1>4, <2>1, <2>2, <2>3, <2>4
<1>6. LoadType' /\ InOrderOfConfig'
  BY <1>2, <1>3, <1>5 DEF LoadType, InOrderOfConfig
<1>7. Phase'
  BY <1>2, <1>3 DEF Phase, Early
<1> QED BY <1>6, <1>7 DEF IInv

\* The questions to the machine, and the A20 gate.
LEMMA SystemIInv ==
    ASSUME IInv, System, UNCHANGED loadVars
    PROVE  IInv'
<1>1. /\ pc \in Early \ {"open"} /\ pc' \in (Early \ {"open"}) \cup {"failed"}
      /\ image' = image
  BY DEF System, GetSystemInformation, GetVbeInfo, LookAtMode, SetVbeMode, GetVbeModeInfo,
         CheckHardware, TryA20, EnableA20Gate, Goes, Early
<1>2. image.type # "bootsector"
  BY <1>1 DEF IInv, Phase
<1>3. CASE pc' = "failed"
  <2>1. owned = {} /\ ~badFree
    BY <1>1, EarlyHolds
  <2>2. FailsEarly
    BY <1>1, <1>3, <2>1 DEF FailsEarly, loadVars
  <2> QED BY <2>2, FailsEarlyIInv
<1>4. CASE pc' \in Early \ {"open"}
  <2>1. StaysEarly
    BY <1>1, <1>2, <1>4 DEF StaysEarly
  <2> QED BY <2>1, StaysEarlyIInv
<1> QED BY <1>1, <1>3, <1>4

----------------------------------------------------------------------------
(* The theorems *)

LEMMA InitIInv ==
    ASSUME Init
    PROVE  IInv
<1>1. /\ image \in Images /\ memory \in Memories /\ owned = {} /\ formats = << >> /\ i = 1
      /\ DOMAIN mem = 1 .. MaxAddress /\ pc = "open" /\ badFree = FALSE
      /\ modules = [k \in 1 .. Len(image.modules) |-> [src |-> k, start |-> 0, end |-> 0]]
  BY DEF Init
<1>2. Len(image.modules) \in Nat
  BY <1>1, ImageIs
<1>3. /\ modules \in Seq(ModuleSet) /\ Len(modules) = Len(image.modules)
      /\ \A k \in 1 .. Len(image.modules) : modules[k].src = k
  BY <1>1, <1>2 DEF ModuleSet
<1>4. LoadType
  BY <1>1, <1>3 DEF LoadType
<1>5. InOrderOfConfig
  BY <1>2, <1>3 DEF InOrderOfConfig
<1>6. Phase
  BY <1>1 DEF Phase, Early
<1> QED BY <1>4, <1>5, <1>6 DEF IInv

LEMMA StutterIInv ==
    ASSUME IInv, UNCHANGED vars
    PROVE  IInv'
<1>1. /\ image' = image /\ pc' = pc /\ memory' = memory /\ mem' = mem /\ owned' = owned
      /\ formats' = formats /\ i' = i /\ modules' = modules /\ badFree' = badFree
  BY DEF vars, loadVars
<1>2. LoadType' /\ InOrderOfConfig'
  BY <1>1 DEF IInv, LoadType, InOrderOfConfig
<1>3. ImageThere' = ImageThere /\ Segmented' = Segmented /\ HeldBySegments' = HeldBySegments
  BY <1>1 DEF ImageThere, Segmented, HeldBySegments, SegmentsThere, SoundSegment, ToLoad,
              WideElf, Elf, MemSize, RawSize, Freed, BssEnd, Offset, LoadEnd
<1>4. SegmentsThere(i - 1)' = SegmentsThere(i - 1)
  BY <1>1 DEF SegmentsThere, SoundSegment, ToLoad, WideElf, Elf, MemSize, RawSize
<1>5. /\ ModulesThere(i - 1)' = ModulesThere(i - 1)
      /\ ModulesThere(Len(modules))' = ModulesThere(Len(modules))
      /\ Elf' = Elf
  BY <1>1 DEF ModulesThere, SoundModule, Elf
<1>6. Phase'
  BY <1>1, <1>3, <1>4, <1>5 DEF IInv, Phase
<1> QED BY <1>2, <1>6 DEF IInv

LEMMA NextIInv ==
    ASSUME IInv, [Next]_vars
    PROVE  IInv'
<1>1. CASE Load
  BY <1>1, OpenIInv, LoadImageIInv, NoneFitsIInv, LoadMultibootIInv, LoadELFIInv, LoadCOFFIInv,
     LoadBinaryIInv DEF Load
<1>2. CASE Segments
  BY <1>2, SkipSegmentIInv, LoadSegmentIInv, LoadNowhereIInv, SegmentFailsIInv,
     AllSegmentsIInv DEF Segments
<1>3. CASE Modules
  BY <1>3, LoadModuleIInv, DropModuleIInv, RunIInv DEF Modules
<1>4. CASE System /\ UNCHANGED loadVars
  BY <1>4, SystemIInv
<1>5. CASE UNCHANGED vars
  BY <1>5, StutterIInv
<1> QED BY <1>1, <1>2, <1>3, <1>4, <1>5 DEF Next

LEMMA AlwaysIInv ==
    Spec => []IInv
<1>1. Init => IInv
  BY InitIInv
<1>2. IInv /\ [Next]_vars => IInv'
  BY NextIInv
<1> QED BY <1>1, <1>2, PTL DEF Spec

\* What is proved of the image, said of its pieces.
LEMMA ThereIsIntact ==
    ASSUME RawFits, IInv
    PROVE  ImageIntact
<1> SUFFICES ASSUME pc = "run", formats # << >>, ~WideElf, NEW p \in Pieces
             PROVE  Sound(mem, owned, p.a, p.size, p.off, p.len)
  BY DEF ImageIntact, InMemory, Running, Sound
<1>1. ImageThere
  BY DEF IInv, Phase
<1>2. CASE Head(formats) = "multiboot"
  BY <1>1, <1>2 DEF ImageThere, Pieces
<1>3. CASE Head(formats) = "binary"
  BY <1>1, <1>3 DEF ImageThere, Pieces
<1>4. CASE Head(formats) \notin {"multiboot", "binary"}
  <2>1. SegmentsThere(Len(image.segs))
    BY <1>1, <1>4 DEF ImageThere
  <2>2. PICK j \in 1 .. Len(image.segs) :
           /\ Elf => image.segs[j].load
           /\ p = [a |-> image.segs[j].vaddr, size |-> MemSize(image.segs[j]),
                   off |-> image.segs[j].off, len |-> RawSize(image.segs[j])]
    BY <1>4 DEF Pieces
  <2> QED BY <2>1, <2>2 DEF SegmentsThere, SoundSegment, ToLoad
<1> QED BY <1>2, <1>3, <1>4

\* When control passes to the operating system every segment of its image, of any
\* number and size, is complete in memory that belongs to it, and no section or
\* module loaded later was written over it (LoadELF, LoadCOFF, LoadMultiboot,
\* LoadBinary and LoadModules, whatever fails on the way).  It is claimed of ELF images
\* only with program headers of the size of ELF32_PHDR: with larger ones LoadELF may
\* not notice that there is no memory (SegmentsLoaded).
THEOREM ImageIntactHolds ==
    RawFits => (Spec => []ImageIntact)
<1> SUFFICES ASSUME RawFits PROVE Spec => []ImageIntact
  OBVIOUS
<1>1. Spec => []IInv
  BY AlwaysIInv
<1>2. IInv => ImageIntact
  BY ThereIsIntact
<1> QED BY <1>1, <1>2, PTL

\* The modules that LoadModules could load are in the array in the order of the
\* configuration, and each lies complete at the addresses it has there, whichever
\* others left the array.
THEOREM ModulesIntactHolds ==
    Spec => []ModulesIntact
<1>1. Spec => []IInv
  BY AlwaysIInv
<1>2. IInv => ModulesIntact
  BY DEF IInv, Phase, InOrderOfConfig, ModulesThere, SoundModule, ModulesIntact
<1> QED BY <1>1, <1>2, PTL

\* When an image other than an ELF one fails to load, at whatever section and for
\* whatever reason, its memory has been freed again, and nothing that was not held.
THEOREM FailureReleasesHolds ==
    Spec => []FailureReleases
<1>1. Spec => []IInv
  BY AlwaysIInv
<1>2. IInv => FailureReleases
  BY DEF IInv, Phase, FailureReleases
<1> QED BY <1>1, <1>2, PTL

----------------------------------------------------------------------------
(* Graphics *)

\* Kernels that require graphics require a graphics mode: the type of a text mode is
\* compared with the wrong number.
GraphicsModes ==
    \A img \in Images : "graphics" \in img.mb.wants => img.mb.type = 0

Far(n) == Distance(machine.modes[n], image.mb.size)

\* What SetVbeMode knows after some of the modes: none of them will do, or the best.
BestSoFar ==
    /\ looked \in Nat
    /\ \/ best = NoMode /\ \A j \in 1 .. looked : Scanned[j] \notin SuitableModes
       \/ /\ best.mode \in SuitableModes
          /\ best.distance = Far(best.mode)
          /\ \A j \in 1 .. looked :
                Scanned[j] \in SuitableModes => best.distance <= Far(Scanned[j])

Chosen == \A n \in SuitableModes : asked \in SuitableModes /\ Far(asked) <= Far(n)

\* The search for a mode, as far as it has come.
ModeInv ==
    /\ image \in Images
    /\ machine \in Machines
    /\ BestSoFar
    /\ pc \in {"vbe", "setmode", "getmode"} => Wants("graphics")
    /\ pc = "getmode" /\ vbe.control = "held" => Chosen

Told == vbe = [control |-> "held", info |-> "held", mode |-> mode]

Loading == {"a20", "start", "try", "segments", "modules", "run"}

\* How far the answers about graphics have come when LoadImage is there.
Answers ==
    /\ pc \in {"open", "header", "vbe"} =>
          "graphics" \notin flags /\ vbe = [control |-> "none", info |-> "none", mode |-> -1]
    /\ pc \in {"setmode", "getmode"} /\ "graphics" \in flags =>
          machine.vbe /\ vbe = [control |-> "held", info |-> "none", mode |-> -1]
    /\ pc = "check" /\ "graphics" \in flags => Told
    /\ pc \in Loading => Told

GraphicsInv == Graphical => Answers

\* What a machine's modes are.
LEMMA ModeTypes ==
    ASSUME machine \in Machines, image \in Images
    PROVE  /\ image.mb.size \in Nat
           /\ DOMAIN machine.modes \subseteq Nat
           /\ machine.listed \in Seq(DOMAIN machine.modes)
           /\ \A n \in DOMAIN machine.modes :
                 /\ machine.modes[n] \in
                        [supported : BOOLEAN, graphics : BOOLEAN, linear : BOOLEAN, size : Nat]
                 /\ Far(n) \in Nat
<1>1. image.mb.size \in Nat
  BY ParamAssumption
<1>2. /\ DOMAIN machine.modes \subseteq Nat
      /\ machine.listed \in Seq(DOMAIN machine.modes)
      /\ \A n \in DOMAIN machine.modes :
            machine.modes[n] \in
                [supported : BOOLEAN, graphics : BOOLEAN, linear : BOOLEAN, size : Nat]
  BY MachineAssumption
<1>3. \A n \in DOMAIN machine.modes : machine.modes[n].size \in Nat
  BY <1>2
<1>4. \A n \in DOMAIN machine.modes : Far(n) \in Nat
  BY <1>1, <1>3 DEF Far, Distance
<1> QED BY <1>1, <1>2, <1>4, Zenon

\* Every mode that will do is looked at.
LEMMA AllScanned ==
    ASSUME machine \in Machines, image \in Images, NEW n \in SuitableModes
    PROVE  Len(Scanned) \in Nat /\ \E j \in 1 .. Len(Scanned) : Scanned[j] = n
<1> DEFINE oem == [k \in 1 .. 128 |-> k - 1]
           list == machine.listed
<1>1. oem \in Seq(Nat) /\ Len(oem) = 128 /\ \A k \in 1 .. 128 : oem[k] = k - 1
  BY SMT
<1>2. list \in Seq(Nat) /\ n \in Nat
  <2>1. list \in Seq(DOMAIN machine.modes) /\ DOMAIN machine.modes \subseteq Nat
    BY ModeTypes
  <2> QED BY <2>1 DEF SuitableModes
<1>3. n < 128 \/ \E k \in 1 .. Len(list) : list[k] = n
  BY DEF SuitableModes
<1> HIDE DEF oem, list
<1> DEFINE all == oem \o list
           x == Len(oem)
           y == Len(list)
           z == Len(all)
<1>4. /\ z = x + y
      /\ \A k \in 1 .. x : all[k] = oem[k]
      /\ \A k \in 1 .. y : all[x + k] = list[k]
  <2>1. oem \in Seq(Nat) /\ list \in Seq(Nat)
    BY <1>1, <1>2, Zenon
  <2>2. /\ Len(oem \o list) = Len(oem) + Len(list)
        /\ \A k \in 1 .. Len(oem) : (oem \o list)[k] = oem[k]
        /\ \A k \in 1 .. Len(list) : (oem \o list)[Len(oem) + k] = list[k]
    BY <2>1
  <2> QED BY <2>2, Zenon
<1>7. x = 128 /\ y \in Nat
  BY <1>1, <1>2, SMT
<1>8. \A k \in 1 .. x : oem[k] = k - 1
  BY <1>1, Zenon
<1> HIDE DEF all, x, y, z
<1>9. z = x + y
  BY <1>4, Zenon
<1>5. \E j \in 1 .. z : all[j] = n
  <2>1. CASE n < 128
    <3> DEFINE j == n + 1
    <3>1. j \in 1 .. x /\ j \in 1 .. z /\ j - 1 = n
      BY <2>1, <1>2, <1>7, <1>9, SMT
    <3> HIDE DEF j
    <3> QED BY <1>4, <1>8, <3>1, Zenon
  <2>2. CASE \E k \in 1 .. y : list[k] = n
    <3>1. PICK k \in 1 .. y : list[k] = n
      BY <2>2
    <3>2. x + k \in 1 .. z
      BY <1>7, <1>9, SMT
    <3> QED BY <1>4, <3>1, <3>2, Zenon
  <2> QED BY <1>3, <2>1, <2>2 DEF y
<1>6. z \in Nat
  BY <1>7, <1>9, SMT
<1> QED BY <1>5, <1>6, Zenon DEF Scanned, oem, list, all, z

\* The test of SetVbeMode is the right one for graphics modes.
LEMMA SuitableIs ==
    ASSUME machine \in Machines, image \in Images, image.mb.type = 0,
           NEW n \in DOMAIN machine.modes,
           n < 128 \/ \E k \in 1 .. Len(machine.listed) : machine.listed[k] = n
    PROVE  Suitable(machine.modes[n], image.mb.type) <=> n \in SuitableModes
<1> DEFINE m == machine.modes[n]
<1>1. m.supported \in BOOLEAN /\ m.graphics \in BOOLEAN /\ m.linear \in BOOLEAN
  BY ModeTypes
<1>2. n \in SuitableModes <=> m.supported /\ (m.graphics <=> image.mb.type = 0)
                                /\ (m.graphics => m.linear)
  BY DEF SuitableModes
<1> HIDE DEF m
<1>3. Suitable(m, image.mb.type) <=> m.supported /\ m.graphics /\ m.linear
  BY <1>1 DEF Suitable
<1> QED BY <1>1, <1>2, <1>3, Zenon DEF m

\* A mode is on the list or an OEM mode if it is looked at.
LEMMA ScannedIs ==
    ASSUME machine \in Machines, image \in Images, NEW k \in 1 .. Len(Scanned)
    PROVE  \/ Scanned[k] < 128
           \/ \E j \in 1 .. Len(machine.listed) : machine.listed[j] = Scanned[k]
<1> DEFINE oem == [j \in 1 .. 128 |-> j - 1]
           list == machine.listed
<1>1. oem \in Seq(Nat) /\ Len(oem) = 128 /\ \A j \in 1 .. 128 : oem[j] = j - 1
  BY SMT
<1>2. list \in Seq(Nat)
  <2>1. list \in Seq(DOMAIN machine.modes) /\ DOMAIN machine.modes \subseteq Nat
    BY ModeTypes
  <2> QED BY <2>1
<1> HIDE DEF oem, list
<1> DEFINE all == oem \o list
           x == Len(oem)
           y == Len(list)
<1>3. k \in 1 .. x \/ (k - x \in 1 .. y /\ all[k] = list[k - x])
  <2>1. k \in 1 .. Len(oem \o list)
    BY Zenon DEF Scanned, oem, list
  <2>2. oem \in Seq(Nat) /\ list \in Seq(Nat)
    BY <1>1, <1>2, Zenon
  <2>3. \/ k \in 1 .. Len(oem)
        \/ k - Len(oem) \in 1 .. Len(list) /\ (oem \o list)[k] = list[k - Len(oem)]
    BY <2>1, <2>2
  <2> QED BY <2>3, Zenon
<1>4. k \in 1 .. x => all[k] = oem[k]
  <2>1. oem \in Seq(Nat) /\ list \in Seq(Nat)
    BY <1>1, <1>2, Zenon
  <2>2. k \in 1 .. Len(oem) => (oem \o list)[k] = oem[k]
    BY <2>1
  <2> QED BY <2>2, Zenon
<1>5. x = 128 /\ \A j \in 1 .. x : oem[j] = j - 1
  BY <1>1, Zenon
<1> HIDE DEF x, y
<1>6. k \in 1 .. x => oem[k] < 128
  <2>1. k \in 1 .. x => oem[k] = k - 1
    BY <1>5, Zenon
  <2>2. x = 128
    BY <1>5, Zenon
  <2> QED BY <2>1, <2>2, SMT
<1>7. all = Scanned
  BY Zenon DEF Scanned, oem, list
<1> HIDE DEF all
<1> QED BY <1>3, <1>4, <1>6, <1>7, Zenon DEF list, y

\* The mode that is looked at next: BestSoFar stays true of one mode more.
LEMMA LookedIsBest ==
    ASSUME machine \in Machines, image \in Images, image.mb.type = 0, BestSoFar, LookAtMode
    PROVE  BestSoFar'
<1>1. PICK k \in looked + 1 .. Len(Scanned) :
          /\ Unknown(looked, k - 1)
          /\ Scanned[k] \in DOMAIN machine.modes
          /\ looked' = k
          /\ best' = Better(Scanned[k])
  BY DEF LookAtMode
<1>2. /\ Scanned' = Scanned /\ SuitableModes' = SuitableModes
      /\ \A n : Far(n)' = Far(n)
  BY DEF LookAtMode, Scanned, SuitableModes, Far
<1> DEFINE n == Scanned[k]
<1>3. looked \in Nat /\ k \in Nat /\ k \in 1 .. Len(Scanned) /\ looked < k
  BY <1>1 DEF BestSoFar, Scanned
<1>4. \A j \in 1 .. k : j \in 1 .. looked \/ j = k \/ Scanned[j] \notin SuitableModes
  <2> SUFFICES ASSUME NEW j \in 1 .. k, j \notin 1 .. looked, j # k
               PROVE  Scanned[j] \notin SuitableModes
    OBVIOUS
  <2>1. j \in looked + 1 .. k - 1
    BY <1>3
  <2> QED BY <1>1, <2>1 DEF Unknown, SuitableModes
<1>5. Suitable(machine.modes[n], image.mb.type) <=> n \in SuitableModes
  <2>1. n < 128 \/ \E j \in 1 .. Len(machine.listed) : machine.listed[j] = n
    BY <1>3, ScannedIs
  <2> QED BY <1>1, <2>1, SuitableIs
<1>6. \A m \in SuitableModes : Far(m) \in Nat
  BY ModeTypes DEF SuitableModes
<1>7. best' = IF n \in SuitableModes /\ (best.distance < 0 \/ Far(n) < best.distance)
              THEN [mode |-> n, distance |-> Far(n)] ELSE best
  BY <1>1, <1>5, Zenon DEF Better, Far
<1>8. NoMode.distance < 0
  BY DEF NoMode
<1> DEFINE Good(j) == Scanned[j] \in SuitableModes
<1>9. \/ best = NoMode /\ \A j \in 1 .. looked : ~Good(j)
      \/ /\ best.mode \in SuitableModes
         /\ best.distance = Far(best.mode)
         /\ \A j \in 1 .. looked : Good(j) => best.distance <= Far(Scanned[j])
  BY DEF BestSoFar
<1>10. \/ best' = NoMode /\ \A j \in 1 .. k : ~Good(j)
       \/ /\ best'.mode \in SuitableModes
          /\ best'.distance = Far(best'.mode)
          /\ \A j \in 1 .. k : Good(j) => best'.distance <= Far(Scanned[j])
  <2>1. CASE n \notin SuitableModes
    <3>1. best' = best
      BY <1>7, <2>1
    <3>2. \A j \in 1 .. k : Good(j) => j \in 1 .. looked
      BY <1>4, <2>1
    <3> QED BY <1>9, <3>1, <3>2, Zenon
  <2>2. CASE n \in SuitableModes /\ (best.distance < 0 \/ Far(n) < best.distance)
    <3>1. best' = [mode |-> n, distance |-> Far(n)]
      BY <1>7, <2>2
    <3>2. best'.mode = n /\ best'.distance = Far(n)
      BY <3>1
    <3>3. \A j \in 1 .. k : Good(j) => Far(n) <= Far(Scanned[j])
      <4> SUFFICES ASSUME NEW j \in 1 .. k, Good(j) PROVE Far(n) <= Far(Scanned[j])
        OBVIOUS
      <4>1. CASE j = k
        BY <4>1, <1>6, <2>2
      <4>2. CASE j \in 1 .. looked
        <5>1. /\ best.mode \in SuitableModes
              /\ best.distance = Far(best.mode)
              /\ best.distance <= Far(Scanned[j])
          BY <1>9, <4>2
        <5>2. Far(best.mode) \in Nat /\ Far(Scanned[j]) \in Nat /\ Far(n) \in Nat
          BY <1>6, <5>1, <2>2
        <5> QED BY <2>2, <5>1, <5>2
      <4> QED BY <1>4, <4>1, <4>2
    <3> QED BY <2>2, <3>2, <3>3
  <2>3. CASE n \in SuitableModes /\ ~(best.distance < 0 \/ Far(n) < best.distance)
    <3>1. best' = best
      BY <1>7, <2>3
    <3>2. best # NoMode
      BY <1>8, <2>3
    <3>3. /\ best.mode \in SuitableModes
          /\ best.distance = Far(best.mode)
          /\ \A j \in 1 .. looked : Good(j) => best.distance <= Far(Scanned[j])
      BY <1>9, <3>2
    <3>4. best.distance <= Far(n)
      <4>1. best.distance \in Nat /\ Far(n) \in Nat
        BY <1>6, <2>3, <3>3
      <4> QED BY <2>3, <4>1
    <3>5. \A j \in 1 .. k : Good(j) => best.distance <= Far(Scanned[j])
      BY <1>4, <3>3, <3>4
    <3> QED BY <3>1, <3>3, <3>5, Zenon
  <2> QED BY <2>1, <2>2, <2>3
<1>11. looked' \in Nat
  BY <1>1, <1>3
<1>12. Far(best'.mode) = Far(best.mode)' /\ \A j : Far(Scanned[j]) = Far(Scanned[j])'
  BY <1>2 DEF Far
<1> QED BY <1>1, <1>2, <1>10, <1>11, <1>12, Zenon DEF BestSoFar

\* When no known mode is left, the best so far is the best.
LEMMA BestIsChosen ==
    ASSUME machine \in Machines, image \in Images, BestSoFar, Unknown(looked, Len(Scanned)),
           NEW n \in SuitableModes
    PROVE  best.mode \in SuitableModes /\ Far(best.mode) <= Far(n)
<1>1. PICK j \in 1 .. Len(Scanned) : Scanned[j] = n
  BY AllScanned
<1>2. j \in 1 .. looked
  <2>1. Len(Scanned) \in Nat /\ looked \in Nat
    BY AllScanned DEF BestSoFar
  <2>2. j \notin looked + 1 .. Len(Scanned)
    BY <1>1 DEF Unknown, SuitableModes
  <2> QED BY <2>1, <2>2
<1> QED BY <1>1, <1>2 DEF BestSoFar

\* The loader's own steps ask no questions, and a kernel that requires graphics gets
\* past the header only by way of the answers.
LEMMA LoadMoves ==
    ASSUME Load \/ Segments \/ Modules
    PROVE  /\ image' = image
           /\ \/ /\ pc = "open"
                 /\ pc' \in {"failed", "header", "a20", "run"}
                 /\ Graphical => pc' \in {"failed", "header"}
              \/ pc \in Loading /\ pc' \in Loading \cup {"failed"}
<1>1. image' = image
  BY DEF Load, Segments, Modules, CannotOpen, ReadHeader, LoadImage, LoadBootsector, NoneFits,
         LoadMultiboot, LoadELF, LoadCOFF, LoadBinary, SkipSegment, LoadSegment, LoadNowhere,
         SegmentFails, AllSegments, LoadModule, DropModule, Run, NotThis, Refuse, LoadPiece
<1>2. \/ /\ pc = "open"
         /\ pc' \in {"failed", "header", "a20", "run"}
         /\ Graphical => pc' \in {"failed", "header"}
      \/ pc \in Loading /\ pc' \in Loading \cup {"failed"}
  BY DEF Load, Segments, Modules, CannotOpen, ReadHeader, LoadImage, LoadBootsector, NoneFits,
         LoadMultiboot, LoadELF, LoadCOFF, LoadBinary, SkipSegment, LoadSegment, LoadNowhere,
         SegmentFails, AllSegments, LoadModule, DropModule, Run, NotThis, Refuse, LoadPiece,
         Trying, Fail, Graphical, Loading
<1> QED BY <1>1, <1>2

\* The search: each of its steps, and those that have nothing to do with it.
LEMMA NextModeInv ==
    ASSUME GraphicsModes, ModeInv, [Next]_vars
    PROVE  ModeInv'
<1>1. image' = image /\ machine' = machine
  <2>1. CASE Load \/ Segments \/ Modules
    BY <2>1, LoadMoves DEF Next, System, sysVars, vars, GetSystemInformation, GetVbeInfo,
       LookAtMode, SetVbeMode, GetVbeModeInfo, CheckHardware, TryA20, EnableA20Gate
  <2>2. CASE System
    BY <2>2 DEF System, GetSystemInformation, GetVbeInfo, LookAtMode, SetVbeMode,
                GetVbeModeInfo, CheckHardware, TryA20, EnableA20Gate, sysVars
  <2>3. CASE UNCHANGED vars
    BY <2>3 DEF vars, sysVars
  <2> QED BY <2>1, <2>2, <2>3 DEF Next
<1>2. /\ SuitableModes' = SuitableModes /\ Scanned' = Scanned
      /\ (\A n : Far(n)' = Far(n)) /\ Wants("graphics")' = Wants("graphics")
  BY <1>1 DEF SuitableModes, Scanned, Far, Wants
<1>3. image \in Images /\ machine \in Machines /\ BestSoFar
  BY DEF ModeInv
<1>4. ASSUME looked' = looked, best' = best PROVE BestSoFar'
  BY <1>2, <1>3, <1>4 DEF BestSoFar, Far
<1>5. ASSUME asked' = asked PROVE Chosen' = Chosen
  BY <1>2, <1>5 DEF Chosen, Far
<1>6. CASE GetSystemInformation \/ GetVbeInfo
  <2>1. /\ looked' = looked /\ best' = best
        /\ pc' = "setmode" => pc = "vbe"
        /\ pc' = "vbe" => Wants("graphics")
        /\ pc' \in {"vbe", "setmode", "check"}
    BY <1>6 DEF GetSystemInformation, GetVbeInfo, Goes
  <2> QED BY <1>1, <1>2, <1>4, <2>1 DEF ModeInv
<1>7. CASE LookAtMode
  <2>1. pc = "setmode" /\ pc' = pc
    BY <1>7 DEF LookAtMode
  <2>2. image.mb.type = 0
    BY <1>3, <2>1 DEF ModeInv, GraphicsModes, Wants
  <2>3. BestSoFar'
    BY <1>3, <1>7, <2>2, LookedIsBest
  <2> QED BY <1>1, <1>2, <2>1, <2>3 DEF ModeInv
<1>8. CASE SetVbeMode
  <2>1. pc = "setmode" /\ pc' = "getmode" /\ vbe' = vbe /\ looked' = looked /\ best' = best
    BY <1>8 DEF SetVbeMode, Goes
  <2>2. ASSUME vbe.control = "held" PROVE Chosen'
    <3>1. asked' = best.mode /\ Unknown(looked, Len(Scanned))
      BY <1>8, <2>2 DEF SetVbeMode
    <3>2. \A n \in SuitableModes : asked' \in SuitableModes /\ Far(asked') <= Far(n)
      BY <1>3, <3>1, BestIsChosen
    <3> QED BY <1>2, <3>2 DEF Chosen, Far
  <2> QED BY <1>1, <1>2, <1>4, <2>1, <2>2 DEF ModeInv
<1>9. CASE GetVbeModeInfo \/ CheckHardware \/ TryA20 \/ EnableA20Gate
  <2>1. /\ looked' = looked /\ best' = best
        /\ pc' \notin {"vbe", "setmode", "getmode"}
    BY <1>9 DEF GetVbeModeInfo, CheckHardware, TryA20, EnableA20Gate, Goes, sysVars
  <2> QED BY <1>1, <1>4, <2>1 DEF ModeInv
<1>10. CASE (Load \/ Segments \/ Modules) /\ UNCHANGED sysVars
  <2>1. /\ looked' = looked /\ best' = best
        /\ pc' \notin {"vbe", "setmode", "getmode"}
    BY <1>10, LoadMoves DEF sysVars, Loading
  <2> QED BY <1>1, <1>4, <2>1 DEF ModeInv
<1>11. CASE UNCHANGED vars
  <2>1. UNCHANGED <<pc, vbe, looked, best, asked>>
    BY <1>11 DEF vars, sysVars
  <2> QED BY <1>1, <1>2, <1>4, <1>5, <2>1 DEF ModeInv
<1> QED BY <1>6, <1>7, <1>8, <1>9, <1>10, <1>11 DEF Next, System

\* If kernels that require graphics require a graphics mode: on every machine, with any
\* modes in any order, the number that SetVbeMode puts in CX is that of a mode which
\* will do if there is one, and none is closer to what the kernel wants (multiboot.c
\* 47-105).  It says nothing of the mode that is then set.
THEOREM ClosestFoundHolds ==
    GraphicsModes => (Spec => []ClosestFound)
<1> SUFFICES ASSUME GraphicsModes PROVE Spec => []ClosestFound
  OBVIOUS
<1>1. Init => ModeInv
  BY DEF Init, SystemInit, ModeInv, BestSoFar
<1>2. ModeInv /\ [Next]_vars => ModeInv'
  BY NextModeInv
<1>3. ModeInv => ClosestFound
  BY DEF ModeInv, Chosen, Far, ClosestFound
<1> QED BY <1>1, <1>2, <1>3, PTL DEF Spec

\* The loader's own steps keep the answers.
LEMMA LoadAnswers ==
    ASSUME GraphicsInv, Load \/ Segments \/ Modules, UNCHANGED sysVars
    PROVE  GraphicsInv'
<1>1. image' = image /\ UNCHANGED <<machine, flags, vbe, mode>>
  BY LoadMoves DEF sysVars
<1>2. Told' = Told /\ Graphical' = Graphical
  BY <1>1 DEF Told, Graphical, Wants
<1>3. ASSUME Graphical, Answers PROVE Answers'
  BY <1>1, <1>2, <1>3, LoadMoves DEF Answers, Loading
<1> QED BY <1>2, <1>3 DEF GraphicsInv

\* The questions build them up.
LEMMA SystemAnswers ==
    ASSUME ~ModeMayFail, GraphicsInv, System
    PROVE  GraphicsInv'
<1>1. image' = image /\ machine' = machine /\ Graphical' = Graphical
  BY DEF System, GetSystemInformation, GetVbeInfo, LookAtMode, SetVbeMode, GetVbeModeInfo,
         CheckHardware, TryA20, EnableA20Gate, sysVars, Graphical, Wants
<1> SUFFICES ASSUME Graphical PROVE Answers'
  BY <1>1 DEF GraphicsInv
<1>2. Answers /\ "graphics" \in image.mb.wants
  BY DEF GraphicsInv, Graphical, Wants
<1>3. CASE GetSystemInformation
  <2>1. /\ pc = "header" /\ pc' = "vbe"
        /\ "graphics" \notin flags => "graphics" \notin flags'
        /\ vbe' = vbe
    BY <1>2, <1>3 DEF GetSystemInformation, Goes, Wants
  <2> QED BY <1>2, <2>1 DEF Answers, Loading
<1>4. CASE GetVbeInfo
  <2>1. /\ pc = "vbe" /\ pc' = "setmode"
        /\ "graphics" \in flags' =>
              \/ "graphics" \in flags
              \/ machine.vbe /\ vbe' = [vbe EXCEPT !.control = "held"]
    <3>1. pc = "vbe" /\ pc' = "setmode"
      BY <1>4 DEF GetVbeInfo, Goes
    <3>2. CASE machine.vbe /\ vbe' = [vbe EXCEPT !.control = "held"]
      BY <3>1, <3>2, Zenon
    <3>3. CASE flags' = flags
      <4>1. "graphics" \in flags' => "graphics" \in flags
        BY <3>3
      <4> QED BY <3>1, <4>1, Zenon
    <3> QED BY <1>4, <3>2, <3>3, Zenon DEF GetVbeInfo
  <2>2. vbe = [control |-> "none", info |-> "none", mode |-> -1] =>
            [vbe EXCEPT !.control = "held"] = [control |-> "held", info |-> "none", mode |-> -1]
    OBVIOUS
  <2> QED BY <1>1, <1>2, <2>1, <2>2 DEF Answers, Loading
<1>5. CASE LookAtMode \/ SetVbeMode
  <2>1. /\ pc = "setmode" /\ pc' \in {"setmode", "getmode"}
        /\ flags' = flags /\ vbe' = vbe
    BY <1>5 DEF LookAtMode, SetVbeMode, Goes
  <2> QED BY <1>1, <1>2, <2>1 DEF Answers, Loading
<1>6. CASE GetVbeModeInfo
  <2>1. /\ pc = "getmode" /\ pc' = "check" /\ flags' = flags /\ mode' = mode
        /\ machine.vbe => vbe' = [vbe EXCEPT !.info = "held", !.mode = mode]
    BY <1>6 DEF GetVbeModeInfo, Goes
  <2>2. vbe = [control |-> "held", info |-> "none", mode |-> -1] =>
            [vbe EXCEPT !.info = "held", !.mode = mode]
                = [control |-> "held", info |-> "held", mode |-> mode]
    <3>1. vbe = [control |-> "held", info |-> "none", mode |-> -1] =>
            [vbe EXCEPT !.info = "held"] = [control |-> "held", info |-> "held", mode |-> -1]
      OBVIOUS
    <3>2. [[control |-> "held", info |-> "held", mode |-> -1] EXCEPT !.mode = mode]
            = [control |-> "held", info |-> "held", mode |-> mode]
      OBVIOUS
    <3> QED BY <3>1, <3>2, Zenon
  <2> QED BY <1>2, <2>1, <2>2 DEF Answers, Told, Loading
<1>7. CASE CheckHardware \/ TryA20 \/ EnableA20Gate
  <2>1. UNCHANGED <<vbe, mode>>
    BY <1>7 DEF CheckHardware, TryA20, EnableA20Gate, sysVars
  <2>2. Told' = Told
    BY <2>1 DEF Told
  <2>3. CASE CheckHardware
    <3>1. pc = "check" /\ pc' = IF Fulfilled THEN "a20" ELSE "failed"
      BY <2>3 DEF CheckHardware, Goes
    <3>2. Fulfilled => "graphics" \in flags
      BY <1>2, Zenon DEF Fulfilled, Wants
    <3> QED BY <1>2, <2>2, <3>1, <3>2 DEF Answers, Loading
  <2>4. CASE TryA20 \/ EnableA20Gate
    <3>1. pc \in Loading /\ pc' \in Loading
      BY <2>4 DEF TryA20, EnableA20Gate, Goes, Loading
    <3> QED BY <1>2, <2>2, <3>1 DEF Answers, Loading
  <2> QED BY <1>7, <2>3, <2>4
<1> QED BY <1>3, <1>4, <1>5, <1>6, <1>7 DEF System

\* If GetVbeModeInfo succeeds wherever there is VBE: on every machine, whatever else
\* fails, a kernel that requires graphics starts only with both blocks of information,
\* and they are about the mode that the adapter is in, whichever that is (multiboot.c
\* 112-188, 206-228; loader.c 570-605).
THEOREM GraphicsAsToldHolds ==
    ~ModeMayFail => (Spec => []GraphicsAsTold)
<1> SUFFICES ASSUME ~ModeMayFail PROVE Spec => []GraphicsAsTold
  OBVIOUS
<1>1. Init => GraphicsInv
  BY DEF Init, SystemInit, GraphicsInv, Answers, Loading
<1>2. GraphicsInv /\ [Next]_vars => GraphicsInv'
  <2> SUFFICES ASSUME GraphicsInv, [Next]_vars PROVE GraphicsInv'
    OBVIOUS
  <2>1. CASE UNCHANGED vars
    <3>1. UNCHANGED <<image, pc, machine, flags, vbe, mode>>
      BY <2>1 DEF vars, sysVars
    <3>2. Told' = Told /\ Graphical' = Graphical
      BY <3>1 DEF Told, Graphical, Wants
    <3> QED BY <3>1, <3>2 DEF GraphicsInv, Answers
  <2> QED BY <2>1, LoadAnswers, SystemAnswers DEF Next
<1>3. GraphicsInv => GraphicsAsTold
  BY DEF GraphicsInv, Answers, Loading, Told, GraphicsAsTold
<1> QED BY <1>1, <1>2, <1>3, PTL DEF Spec
=============================================================================
