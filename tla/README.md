# A TLA+ verification of osldr

osldr is a stage-2 boot loader for x86 machines: it reads `boot.ini` from a FAT
volume, shows a boot menu, loads a kernel in one of several formats (ELF, PE,
COFF, Multiboot, flat binary, boot sector) with its Multiboot modules, and
starts it. It is one sequential C program over the BIOS. What makes it hard to
test is not threads but what surrounds it: sectors that cannot be read, memory
that runs out at any allocation, disks and memory maps with arbitrary contents,
keys and clock ticks that arrive at any point of a polling loop, and data
structures (two allocators, a cache, a table of drives, an open file) that must
survive every sequence of calls.

All paths below are relative to the repository; `mem.c` stands for
`src/mem.c` and so on.

## 1. The system

| Part | State | Operations | Must hold |
|---|---|---|---|
| Physical memory manager, `mem.c` 7-199 | list of free regions at or above 1 MB | `PhysInit`, `AddToPhysList`, `PhysAlloc`, `PhysFree` | no byte handed out twice; only real memory; nothing lost |
| Memory information, `mem.c` 201-287 | `MULTIBOOT_INFO`: sizes, map, flags | `GetConventionalMemoryMap`, `GetSystemMemoryMap` | a flag stands for information that is complete and true |
| Heap, `stdlib.c` | block headers and free list in conventional memory | `HeapInit`, `malloc`, `free`, `realloc` | blocks tile the heap, the list is exact, no block crosses a 64 kB page |
| Drives, `drive.c` | table of recently used drives | `GetDriveParameters`, `ReadDrive`, `ResetDrive` | one entry per drive; the sectors read are those asked for |
| Sector cache, `io.c` 325-484 | LRU cache per device | `ReadSector`, `ReadCache`, `WriteCache` | a request is answered with the device's contents, or with an error |
| Devices and partitions, `io.c` 24-323 | list of open devices | `ParseDevice`, `OpenDevice`, `CreateDevice` | an open device is the partition that was named, inside its drive |
| FAT volumes, `fat.c` 139-612, 775-936 | `FAT_INFO` of a device; a directory search in progress | `FatMount`, `FindDirEntry`, `_OpenFile`, `_Release` | a volume is read as what it was formatted as; a path opens what the directories hold |
| FAT files, `fat.c` 265-331, 614-768 | cursor and cluster of each open file | `GetNextCluster`, `_ReadFile`, `_SetFilePointer` | a file is a sequence of bytes with a cursor |
| Raw devices, `raw.c` | cursor | `_ReadFile`, `_SetFilePointer` | the same |
| File interface, `io.c` 486-543 | - | `OpenFile`, `ReadFile`, `SetFilePointer`, ... | calls reach the right file system |
| Image loader, `loader.c` | segments, allocated memory | `LoadImage` and one function per format | what is started lies intact in memory; a failure gives memory back |
| Multiboot information, `multiboot.c` 9-228 | flags, VBE blocks, video mode | `GetSystemInformation`, APM and VBE queries | a kernel is told what is the case |
| Multiboot modules, `multiboot.c` 234-293 | module array | `LoadModules` | loaded modules lie intact; the list has no failed ones |
| Boot menu, `main.c` 30-225 | selection, window, countdown, screen | `RunBootMenu` | what is marked is what is booted; a countdown that is not stopped ends |
| Clock, `time.c` | two readings of the real-time clock | `time`, `difftime` | the result is a moment of the call |
| Configuration, `config.c`, `strtoul` of `stdlib.c` | list of images, default, timeout | `ParseConfigFile`, `ParseDirective`, `ValidateConfig` | what is accepted is what the file means |
| Startup, `main.c` 236-328, `start.s` | - | `main` | comes to an end; everything is initialised before it is used |
| Machine support, `asm.s`, `start.s` | processor mode, A20 gate | mode switches, `int86`, `EnableA20Gate` | the gate is open when a kernel starts |
| Library and screen, `stdio.c`, `string.s`, `ctype.c`, `conio.c`, `video.c`, `messages.c` | cursor, attributes | output, formatting | - |

How they interact: `main` initialises the heap, asks the BIOS for the memory
maps and builds the physical list (whose nodes are heap blocks), reads the
configuration through the file interface, runs the menu and gives the chosen
image to the loader. The loader reads through `ReadFile` and `SetFilePointer`;
these call FAT or raw functions that were registered when the device was
mounted; they read through `ReadSector`, which reads through `ReadDrive`, which
calls the BIOS. Cache entries, chunk buffers, file buffers and devices are heap
blocks, so every layer may find memory short at any point. There is no
concurrency inside the program; the asynchronous parts are the keyboard and the
clock, seen by the menu, and the drives.

The hazards this leads to are listed in `PROJECT.json`, each at its line, with
the properties that look for it.

## 2. The modules

| Module | Models | State | Actions |
|---|---|---|---|
| `PhysMem` | `mem.c` 7-199 | `PhysMem` list; `phase`, `next`: progress of `PhysInit`; `live`: what callers hold | `InitMapEntry`, `InitMapDone`, `InitSimple`, `PhysAlloc`, `PhysFree` |
| `Heap` | `stdlib.c` 11-288 | `heap` = headers and `HeapList`; `live`; `lost`, `wild` record what went wrong | `malloc`, `free`, `realloc` (`reallocFits`, `reallocGrows`, `reallocMoves`) |
| `BlockDevice` | the promise of `ReadSector` | `busy`, `request`, `answer` | `Call`, `Return` |
| `SectorCache` | `io.c` 325-484 | `Items`, `Time`; the locals of `ReadSector`; the chunk buffer | `Call`, `Check`, `Hit`, `Miss`, `ReadSucceeds`, `ReadFails`, `Store`, `Deliver`, `Done` |
| `ByteFile` | the promise of an open file | `content`, `cursor`, `busy`, `request`, `answer` | `Call`, `ReturnRead`, `ReturnSeek` |
| `FatTable` | `fat.c` 265-331 | none: entries of 12, 16 and 32 bits as nibbles of sectors, and `GetNextCluster` over them | - |
| `FatFile` | `fat.c` 614-768 | extends `FatTable`; `Cursor`, `Cluster`; the locals of `_ReadFile` and `_SetFilePointer` | `CallRead`, `FindRun`, `ReadPiece`, `PieceFails`, `RunDone`, `ReadDone`, `CallSeek`, `SeekRefused`, `SeekStep`, `SeekDone` |
| `FatVolume` | `fat.c` 139-264, 333-612, 775-936 | extends `FatTable`; `fi`; the path and component in progress; the locals of `FindDirEntry` with the long name so far; `blocks`: heap blocks in use | `Mount`, `MountRefused`, `MountVersion`, `MountFails`; `OpenFile`, `Find`, `ReadCluster`, `ScanDeleted`, `ScanLong`, `ScanShort`, `ScanFound`, `ScanNext`, `ScanStops`, `EndOfChain`, `Descend`, `Opened`, `Unexpected`, `Release`, and the failures |
| `RawFile` | `raw.c` | `Cursor` and locals | `CallRead`, `ReadPiece`, `PieceFails`, `Done`, `CallSeek`, `Seek` |
| `Files` | `io.c` 486-543 | composes `FatFile` and `RawFile`: `IsDevice` says which one a FILE is | `CallFile`, `StepFile` |
| `Drive` | `drive.c` 38-217 | `table`, `stale`; locals of `ReadDrive` | `ReadDrive`, `Found`, `Queried`, `Failed`, `ReadExtended`, `ReadTrack`, `ReadReturns` |
| `Devices` | `io.c` 24-323, 491-517 | `Devices` list; locals of `OpenDevice` | `OpenFile`, `FoundOpen`, `Refused`, `OpenWhole`, `ReadMBR`, `TakePrimary`, `EnterExtended`, `Follow`, `ChainEnds`, `While`, `CheckRange`, `Create`, and the failures |
| `Clock` | `time.c` 9-87 | `rtc`, the real-time clock; `call`, `tm1`, `tm2`: progress of `time` | `CallTime`, `ReadClock`, `TimeReturned`, `Tick` |
| `BootMenu` | `main.c` 30-225, 299-317 | extends `Clock`; `Selected`, `windowStart`, `oldSel`, `useTimer`, `nPrevSecs`; `screen` | `Begin`, `LookAtClock`, `Start`, `Press`, `NoKey`, `Draw`, `Timer`, `NoTimer`, `Second` |
| `MemoryInfo` | `mem.c` 201-287 | `mbi`, the continuation value `ebx` | `GetConventionalMemoryMap`, `BeginMap`, `MapEntry`, `EndMap` |
| `Config` | `config.c` 17-335, `stdlib.c` 290-349 | `config`, `inHeader`, the lines still to be parsed | `ReadConfig`, `ParseBlank`, `ParseHeader`, `ParseLine`, `ParseError`, `ValidateConfig`, `NoBuffer`, `ParseNoMemory` |
| `Startup` | `main.c` 236-328, `start.s` 24-40 | composes `MemoryInfo` and `Config`; where `main` is, and the chosen image | `GetMemory`, `HeapInit`, `AskForMap`, `GetMapEntry`, `GotMap`, `OpenConfig`, `NoConfig`, `ParseConfig`, `Parsed`, `OnlyImage`, `Menu`, `MenuReboot`, `LoadImage`, `KeyPressed` |
| `SystemInfo` | `multiboot.c` 9-228, `loader.c` 591-605, `asm.s` 68-196 | `flags`, `vbe` blocks, the adapter's `mode`, the A20 gate | `GetSystemInformation`, `GetVbeInfo`, `LookAtMode` (one mode of the list), `SetVbeMode`, `GetVbeModeInfo`, `CheckHardware`, `TryA20`, `EnableA20Gate` |
| `Loader` | `loader.c` 14-648, `multiboot.c` 234-293 | extends `SystemInfo`; `mem`, `owned`, `formats`, `i`, `modules` | `CannotOpen`, `ReadHeader`, `LoadImage`, `LoadBootsector`, `LoadMultiboot`, `LoadELF`, `LoadCOFF`, `LoadBinary`, `LoadSegment`, `LoadNowhere` (a failed allocation that goes unnoticed), `SkipSegment`, `SegmentFails`, `AllSegments`, `LoadModule`, `DropModule`, `Run`, ... |
| `HeapProofs`, `SectorCacheProofs`, `FatVolumeProofs`, `FilesProofs` (with `FatFile`, `RawFile`), `DiskProofs` (`Drive`, `Devices`), `BootMenuProofs` (with `Clock`), `StartupProofs` (`PhysMem`, `MemoryInfo`, `Config`), `LoaderProofs` (with `SystemInfo`) | - | - | theorems about the modules each extends, with their invariants and proofs (section 4) |

`MC...` modules hold the small instances for TLC. Operators named `Mut...`
state plausible mistakes in the definition that follows them; no
specification uses them, they serve to confirm that each property can fail.

Conventions. A function of the program that completes without its caller seeing
an intermediate state (`PhysAlloc`, `malloc`) is one action. One that loops over
failing input and output has one action per iteration, and `pc` names the loop;
its local variables are variables of the module. Results of the environment
(does this read succeed, how large a buffer does `malloc` give) are chosen with
`\E`. Data is reduced to identity: the contents of a sector are its address,
a byte of a file its cluster and offset, a byte of an image its offset. A
comparison of header fields with constants becomes a flag of the input record.

Numbers. Fixed widths are kept where they matter: 32-bit alignment masks and
pointers in `PhysMem` (`Wrap`), unsigned selections in `BootMenu` (`Word`), the
cache clock (`TimeWrap`), the 16-bit first cluster in `FatFile` (`Word`), the
12-, 16- and 32-bit table entries in `FatTable`, the sector counts of a boot
sector in `FatVolume` (`ULong`), `strtoul`'s result in `Config` (`Word`), the
16-bit block count and ten-bit cylinder in `Drive`. TLC computes with 32 bits
itself, so 2^32 is scaled down everywhere to a number beyond all that are
compared with it.

## 3. The runs

### Passing runs

| Run | Instance | Shows |
|---|---|---|
| `physmem_safety` | 1 MB = 8, 4 GB = 64; a map with low memory, a region across 1 MB, a reserved one, a hole and memory at 4 GB, and the simple size as well; failing mallocs; up to 3 allocations with and without address and alignment | the free list never overlaps itself or what is held, and every pointer is real memory |
| `heap_safety` | pages of 64 bytes, an unaligned start, four pages; five request sizes from one byte to a page; 4 live blocks | headers tile the heap, `PrevSize` is right, the list holds exactly the free blocks, user areas stay within a page, and freeing everything restores the initial heap |
| `cache_refines` | 3 sectors, a cache of 2, two tries per chunk, a clock that wraps at 6; all requests, also beyond the end | `SectorCache` implements `BlockDevice`; nothing stays allocated; without a wrap of the clock the most recent sectors stay; every call returns |
| `files_refine` | clusters and sectors of two bytes, table sectors of four; six files on FAT12, 16 and 32: empty, contiguous, in fragments forward and backward, with partial last clusters and 12-bit entries across two sectors; a raw device of four sectors; every piece may fail | both kinds of files implement `ByteFile`; the cluster always belongs to the cursor; after calls without error the file can be read on; every call returns |
| `fat_volume` | volumes of 4084, 4085, 65524 and 65525 clusters, one and two sectors each; root areas that are full and that end within a sector; directories of several clusters in any order with long names of two, three and five fragments, with and without terminator, orphaned fragments, deleted entries and labels; twelve boot sectors that are no FAT volume's, each for another reason; 17 paths; failures anywhere | volumes are mounted as what they were formatted as, a path opens what a reference definition (`Lookup`) finds in the lists of the directories, blocks are freed on every way out, every call returns |
| `drive_reads` | a table of two entries and four drives: CHS with two geometries, EDD, absent | no drive is listed twice, and the buffer holds consecutive sectors from the one asked for |
| `dev_open` | four disks: a partition beyond the end, logical partitions, two extended entries, a broken and a circular chain; 30 kinds of hard disk paths and ten others; two open devices | an open device is the partition that was named and lies within its drive, opening again gives the same one, and the walk along the chain ends |
| `menu_long` | 16 images in a window of 13; eleven keys (F9, Enter, digits, all movements, an unused one); four moments around midnight, at a leap day, the end of a February without one and of a century; up to three seconds, each at any point within the menu or between two BIOS calls of `time` | only F9 reboots, what is drawn as marked is the selection, `time` returns a moment of the call, a key stops the countdown for good, silence lets it boot |
| `loader_image` | 18 images in all formats, one of them ELF with large program headers, four memories (one too small, one with a hole), ten machines (with and without VBE, each way of opening the A20 gate, one without a keyboard controller), failures at every read and allocation | a kernel that is started is completely in memory (`ImageIntact`, which excepts large program headers), as are its modules; one that requires graphics is told of the mode that the adapter is in; the mode that was found for it is the closest of those the adapter lists, which is not to say that it was set; a failure other than in `LoadELF` frees everything |
| `startup` | eight machines with 8 to 64 MB whose BIOS knows some of the three calls and ends its map in each way or never; all files of up to three lines out of nine, and 13 longer ones; memory short anywhere, reads that stop early | information about memory is true, the configuration is what a reference definition (`Meaning`) says of the lines or is rejected for a reason, `main` ends |

`MCBootMenu` also states as an assumption, which TLC evaluates, that the
conversion of `time.c` counts days as the calendar does, for every day from 1970
to 2110; `MCStartup` states that `strtoul` reads every number of the small files
right (`SmallFilesRead`), which is the hypothesis of a theorem in section 4.

Why the bounds are enough. Each instance has at least one more of everything
than the mechanism can hold or treats alike: one sector more than the cache,
drives than the table, images than the window, entries than a cluster; a first,
a middle and a last region, page, cluster or segment; and all the relations
between neighbours that the code tells apart (touching, apart, across a
boundary). In `FatVolume` short names have two and one characters, fragments two
and entries half a sector, so that a directory of a dozen entries has all the
shapes of a large one; the limits between FAT types are the real ones. `MaxLive`,
`MaxDevices`, `MaxCount`, `MaxSecs`, `HeapRoom` and `MaxAddress` bound what is
otherwise unbounded; they stand in the guards of the actions of callers and the
environment, not in those of the program.

Assumptions of the passing runs. `physmem_safety`: the map reports each byte
once (`DisjointMap`). `heap_safety`: the word behind the heap does not look like
a free block. `files_refine`: first clusters fit 16 bits, reserved bits of
FAT32 entries are zero, and the FAT entry of a number that is no cluster is no
cluster either. `fat_volume`: no chain leads back to itself, no complete set of
fragments without its file, no long name of more than five
fragments, no name in a path that starts with a space or has a longer extension
than fits. `drive_reads`: a drive whose parameters the BIOS does
not report is never reported later. `menu_long`: no key waits before the list is
first drawn, more images than the window holds, and a default in the first
window. `loader_image`: raw data of
sections is no larger than their memory, the description of the current video
mode is to be had where VBE is, graphics modes (type 0) are asked for, and each
machine has a way of opening the A20 gate. `startup`: following the list of
images from address zero comes to an end, and no number is written as a single
0. Most of these are places where the code is weaker; section 5 drops them one at
a time.

Fairness. Calls into a module are never obliged to happen. A call that has begun
runs to its end, as nothing else runs: `WF` of `Step`, the steps of the program
itself, and in `Startup` `WF` of `Main`. In `BootMenu` the loop goes on (`WF` of
`Loop`) and so does the clock (`SF` of `Second`, because it advances between any
two iterations and not only when the program waits; no second passes unseen,
because the wait ends with the timer interrupt eighteen times a second). No
fairness is assumed of the user or of any device: reads may fail for ever, and
calls return nevertheless.

### Violations

Each of these states what a comment of the repository says, and TLC shows a
behaviour of the code that contradicts it.

* `dev_logical`: `OpenDevice` never returns for a logical partition that exists.
  `io.c` 246 is an empty loop `while (part != NULL);` left behind after the
  `for`.
* `fat_short`: `_ReadFile` (`fat.c` 632) compares bytes read with bytes left, so
  a read over several fragments stops early without an error; the loader then
  reports that the file is corrupt.

## 4. What is proved

Each theorem below holds for all values of the constants that satisfy the
assumptions of its module (`ParamAssumption`, `RequestAssumption`,
`PathAssumption`, `DiskAssumption`, `MachineAssumption`, `MomentAssumption`,
`ConfigAssumption` and so on: shapes and signs of the parameters, all of which TLC
evaluates on the instances), for every number and order of calls, and with every
failure that the module allows. Hypotheses beyond these stand in the theorem; each
is a place where the code is weaker, and section 5 shows what can happen without
it.

| Module | Theorems | Hypotheses |
|---|---|---|
| `HeapProofs` | `TypeOKHolds`, `TilingHolds`, `NoPageCrossingHolds` | none |
| | `FreeListExactHolds`, `AllFreedIsInitialHolds` | `~TailFree` |
| `SectorCacheProofs` | `CacheCoherentHolds`, `NoBlockLeakedHolds`, `MostRecentCachedHolds`, `ReadSectorImplementsBlockDevice` | none |
| `DiskProofs` | `OneEntryPerDriveHolds`, `DeviceIsPartitionHolds`, `ReturnsWantedHolds` | none |
| | `ReadsWhatWasAskedHolds` | `Unready \subseteq Absent` |
| `FilesProofs` | `RawFileImplementsByteFile` | none |
| | `FatFileImplementsByteFile`, `TracksCursor` (`ClusterTracksCursor`) | `GarbageEnds`, `FirstFits` |
| | `ReadsOn` (`ReadyToRead`) | the same, and `Reserved = 0` |
| `FatVolumeProofs` | `NothingKeptHolds` | `NoLeadingSpace` |
| | `MountedAsFormattedHolds` | `AllFormatted` |
| `BootMenuProofs` | `KeyStopsCountdownHolds` (an action property) | none |
| | `RebootRequestedHolds` | `PageDownFits` |
| | `MarkedIsSelectedHolds` | `PageDownFits`, `EndFits`, `Default < windowSize`, `~EarlyKeys` |
| | `TimeIsOfTheCallHolds` | `Since1970` |
| `StartupProofs` | `TypeOKHolds`, `FreeListDisjointHolds`, `NoDoubleAllocationHolds`, `OnlyUsableMemoryHolds` | `DisjointMap` |
| | `MemoryInfoIsTrueHolds` | none |
| | `ConfigIsMeaningHolds` | `NumbersRead` |
| `LoaderProofs` | `ModulesIntactHolds`, `FailureReleasesHolds` | none |
| | `ImageIntactHolds` | `RawFits`; the property itself excepts large program headers |
| | `GraphicsAsToldHolds` | `~ModeMayFail` |
| | `ClosestFoundHolds` | `GraphicsModes` |

Two of these hypotheses say what the property is about and not where the code is
weaker: `AllFormatted`, that the disks are FAT volumes formatted by the rules of
the file system (what else a boot sector may hold, and that it is refused, is for
TLC), and `Since1970`. `GraphicsModes` says that a graphics mode is what is asked
for; section 6 says why a text mode is never found.

Almost none of the properties is inductive as it stands. In each module `IInv` is
the invariant that is, and the proof has one lemma per action.

**PhysMem.** `DisjointMap` says that no listed region is empty, that regions are
disjoint after clamping to 1 MB, and that the simple size, if there is a map too,
repeats a part of the region that begins at 1 MB, which is how the BIOS reports
it. `IInv` adds that no listed region is empty (an empty one inside another would
be joined and shrink it), that the list lies within `RAM`, that held regions are
disjoint from every listed one, and, while `PhysInit` runs (a failed `malloc` ends
it), that every entry of the map already seen lies inside one listed region and
every entry to come avoids the list. The lemmas follow the code: `JoinIsUnion`,
`PushPost` and `JoinPost` (the two branches of `AddToPhysList`), `AddDisjoint` and
`AddRepeated`, `ShrinkPost`, `UnlinkPost` and `CarveLemma` (what `PhysAlloc` leaves
of the region it cuts), `StartIsULong` and `RoundUpFacts` (32-bit arithmetic).

**Heap.** `Good` says of the headers and the list: the blocks tile the heap
(`Tiled`, in both directions), none crosses a page and one that begins a page has
the flag ALIGNED (`Paged`), the flagged blocks are those that HeapInit flagged and
all initial blocks are still there (`Original`), two free neighbours are separated
by the beginning of a page (`Merged`), and the list holds the free blocks, each
once. `Paged` and `Original` are what keeps a merge within a page: a block without
the flag does not begin a page, so the page of its predecessor is its own.
`Merged` and `Original` give `AllFreedIsInitial`: with nothing in use every block
but the first follows a free one, so it is flagged, so it is an initial one, and
two tilings by the same blocks are the same (`TilingIsUnique`). `Owners` relates
this to who asked for what. `SpliceIs`, `AbsorbIs` and `Flagged` say what the three
ways of changing headers do, `CutShape`, `AbsorbShape` and `FlaggedShape` that they
keep the shape; `MergeNextIs` and `MergePrevIs` follow the two halves of free, with
`Loose` and `MergedBut` for the states in between. `InitialShape` is the same for
HeapInit, whose block sizes come from divisions by the page size.

**SectorCache.** `IInv` says where a call of ReadSector stands: what has been
delivered are the first sectors of the request (`Delivered`), the chunk buffer
holds the ones that follow and the cache none of them (`Chunking`), the allocated
blocks are the cache items
and the buffer (`Blocks`). The refinement maps `busy`, `request` and `answer` to
`pc` and the locals; every step is a `Call`, a `Return` or a stutter.
`MostRecentCached` needs a second invariant, `Recent`: access times are distinct
and below the clock, and whatever was accessed later than a cached sector is cached
too. That a finite set of times has a largest one is proved by the well-ordering of
the naturals (`MaxIs`).

**Drive.** `TableInv` and `CallType` give the table its shape, `TrueGeometry` says
that entries hold what the drive reports (which is where the hypothesis is
needed), and `Calling` that the sector in the buffer after the last one is the next
to be read, whatever number of sectors of the track the last read took.

**Devices.** `Scanning` says that the entry in hand is the one the tables list
under the number reached (a primary, or the i-th of the chain), `Checking` that the
range is that entry's, `Unique` and `Answered` speak of the list and the result.

**FatFile and RawFile.** `FatInv` has five parts: the shapes of the locals
(`FatType`); what has been read is the file from where the call began to the cursor
(`Reading`); the run of clusters in hand lies back to back on the volume and is what
follows in the file (`Running`); the cluster is the one the cursor is in, or an end
mark behind the last one (`Tracking`); and a seek goes forward in whole clusters
(`Seeking`). Underneath are lemmas about the table: a 12-bit entry is put together
from the right three nibbles although it begins in the middle of a byte and may
span two sectors, a 16- or 32-bit one from four or eight. `GarbageEnds` and
`FirstFits` are needed for `Tracking` after a failed seek and after one backward
(section 5). The refinement maps `busy`, `request` and `answer` to `pc` and the
locals and the cursor to `Cursor`; every step is a `Call`, a `Return` or a stutter,
and the answer is correct because `Reading` says so for each piece. `RawInv` is the
same without a chain.

**FatVolume.** `BlocksInv` counts the heap blocks at each place of a mount, a search
and a walk along a path, with one lemma for each group of actions.
`NoLeadingSpace` is what makes the pointer that `Trim` returns the one that
`malloc` gave. `FormattedAs` states the rules of the file system for a volume of n
clusters without the code's arithmetic; the lemmas show that `FatMount`'s divisions
find n again, and from n the type, and from the type the tables, the root directory
and the data. `MountInv` says that the device keeps that layout through all later
calls, and that one without it has failed for lack of memory or a sector.

**BootMenu.** `Selects`: the selection is an image and Enter or the timer leads to
it. `Window`: the selection is in view, the window is full or at the top. `Drawn`:
the screen is what the last drawing made of selection and window, and there was
one. The attempt to prove `MarkedIsSelected` for every default failed for a good
reason: `windowStart` begins at 0 whatever the default is (`main.c` 36), so an
image beyond the first window is selected without being marked.

**Clock.** `Saw(p, k)` says that the first k of the four looks of a call saw the
clock at p, and the others see it where it is, at most one second later. So if both
readings have the same date, midnight did not lie between the two looks of the
first, and if not, it did not lie between those of the second, which `time` then
takes. It remains that its arithmetic gives one more for the next second, over
every end of a minute, day, month, year and century. Leap years and days of months are counted as
cardinalities of sets, and the sums of `time.c` are shown to be those numbers by
taking the least argument at which they would differ (`LeastIs`, `SameSums`), for
which the well-ordering of the naturals is enough. `time_t` has 64 bits, so nothing
wraps.

**Startup.** `SizeIsTrue`, `Growing` and `MapComplete` follow the loop that reads the
memory map: what has been stored is a beginning of what the BIOS tells, the flag
appears when all of it is there, and none of it is changed afterwards by reading
the configuration, the menu or the loader.

**Config.** The reference definition `Meaning` looks at the file as a whole: the
section of a line is the number of headers up to it, a property is what the last
line of the section that gives it says, the modules are ordered by how many lines
come before each. `ConfigInv` says that the parser has made of the first n lines
what they mean (`Means`), that n is where it is, and, when it has finished, that
ValidateConfig finds the default under the number that `Meaning` gives it. As all
parts of `Meaning` are cardinalities and maxima over lines, one more line changes
each in a way that one lemma states (`GivesMore`, `TypedMore`, `TimeoutStep`,
`AtStep`, `DefaultStep`, `CleanStep`, `ImagesPushed`), and no induction over the
file is needed. What `strtoul` makes of a string of digits is a fold, about which
nothing can be proved for all strings: `NumbersRead` is the premise that it reads
the numbers of the files right. It is false for a number written as a single `0`
(section 5) and for some that do not fit 32 bits, and TLC confirms it for the
files of the run.

**Loader.** `Phase` says for each place in LoadImage which segments are complete in
memory that is owned (`SegmentsThere`), what is held beyond them, and how many
modules are there; `InOrderOfConfig` that the array is a subsequence of the
configuration. Writing elsewhere keeps what is there (`Places`, `Placed`), since
PhysAlloc hands out memory that is not owned. Only the contents of a PE image
depend on `RawFits`; what is held and freed does not. `WideElf` is where
`SegmentsThere` says nothing: `LoadNowhere` passes over a segment that has no
memory, and its lemma shows that it does so for no other image.

**Graphics.** Two separate invariants. `ModeInv` follows SetVbeMode along the list of
modes (`BestSoFar`): among those looked at, none will do, or the one remembered is
the closest, so at the end of the list it is the one that is asked for. Nothing
connects it to the mode that is then set, as the code does not either (`loader_mode`).
`GraphicsInv` says that the flag for graphics is set only where VBE has answered all
questions (`Answers`), the last of which `~ModeMayFail` is about, as its failure is
not looked at, and that the last answer is about the mode the adapter is in.

What stays with TLC. Liveness (`MainReturns`, `EveryOpenReturns`, `WalkEnds`, the
calls that return, the countdown that ends), as fairness and `ENABLED` are outside
the proof system. What a recursive definition computes, as no induction over data is
available: `OpenIsLookup`, whose reference `Lookup` and whose long names are
recursive in the directory and the path, and what `strtoul` computes for every
string of digits.

## 5. Additional configurations

These describe behaviours that a maintainer should know of. TLC reports a
violation for each.

| Configuration | Module, property | Behaviour |
|---|---|---|
| `physmem_units` | `MCPhysMem`, `NothingLost` | `PhysInit` (`mem.c` 192) adds `MemUpper`, in kilobytes, as bytes: without a map all but a 1024th of memory is missing |
| `physmem_overlap` | `MCPhysMem`, `NoDoubleAllocation` | a region that overlaps two listed ones is joined with the first only |
| `menu_short` | `MCBootMenu`, `RebootRequested` | with fewer images than lines, Page Down computes `nImages - 1 - windowSize` (`main.c` 133) in unsigned arithmetic; Enter then finds no image, which means reboot |
| `fat_fragments` | `MCFatVolume`, `LongNamesOpen` | `FindDirEntry` replaces a first byte 0x05 by 0xE5 ("Some Kanji char replacement", `fat.c` 417-421) before it looks whether the entry is a fragment of a long name, whose first byte is its ordinal: the fifth of six or more fragments (any name of more than 65 characters) breaks the set, and the file is not found by it, although "there are 63 entries allowed" (`fat.c` 122) |
| `fat_reserved` | `MCFiles`, `ReadyToRead` | the reserved bits of FAT32 entries are not masked (`fat.c` 324) |
| `fat_loop` | `MCFatVolume`, `EveryOpenReturns` | a directory whose chain leads back to itself is searched for ever |
| `loader_wide` | `MCLoader`, `SegmentsLoaded` | for program headers larger than `ELF32_PHDR`, which `loader.c` 220 allows, line 282 tests `phdr[i]` where the result of `PhysAlloc` went to `cur`: a failed allocation goes unnoticed, the segment is read to address zero, and the kernel is started without it; line 312 has the same mistake |
| `loader_elf` | `MCLoader`, `EverythingFreed` | when an ELF segment fails, "free everything" (`loader.c` 308-318) runs over `j` and frees segment `i`: those loaded before stay allocated |
| `loader_mode` | `MCLoader`, `BestModeSet` | "BestMode is the best approximation, set it" (`multiboot.c` 102), but line 104 passes it in CX and the BIOS reads BX: the adapter ends in any mode, neither the one found nor the one before; the kernel can rely on no more than `GraphicsAsTold`, that it is told which |
| `loader_a20` | `MCLoader`, `A20Enabled` | the method in the high byte of `EnableA20Gate`'s result (`asm.s` 159) makes it true always: a kernel starts with the gate shut |

The following need a few lines changed in the configuration of a run.

| Run | Changes | Violated | Behaviour |
|---|---|---|---|
| `physmem_safety` | `MemoryMap <- OneRegion`, `HasSimple = FALSE`, `MallocMayFail = FALSE`, `Starts = {0}`, `Sizes = {3, 4}`, `Aligns = {0}`, `MaxLive = 2` | `NothingLost` | `PhysFree` gives back the size asked for, `PhysAlloc` took it rounded up (`mem.c` 110, 163) |
| `heap_safety` | `MemEnd = 168`, `Requests = {16, 48}` | `NothingLost` | `free` does nothing while no block is free (`stdlib.c` 173) |
| `heap_safety` | `TailFree = TRUE` | `OnlyBlocksUnlinked` | freeing the last block looks behind the heap (`stdlib.c` 36) |
| `heap_safety` | `ImageEnd = 20`, `MemEnd = 168`, `Requests = {36, 48}` | `HeapInsideMemory` | rounding up the start moves the end beyond memory (`stdlib.c` 80) |
| `cache_refines` | `MAX_READ_TRY = 1` | `EnomemMeansNoSector` | halving stops before one sector |
| `files_refine` | `Volumes <- HighCluster`, `Word = 4`, `IoMayFail = FALSE` | `ClusterTracksCursor` | seeking back uses 16 bits of the first cluster (`fat.c` 755) |
| `files_refine` | `Volumes <- Fragmented`, `GarbageNext = {5, 268435455}` | `ClusterTracksCursor` | a failed seek leaves a number that is no cluster, and the next one follows it |
| `fat_volume` | `Disks <- Volumes`, `Paths <- SpacePaths`, `IoMayFail = FALSE` | `NothingKept` | `Trim` returns a pointer into the block, which then is not freed |
| `fat_volume` | `Disks <- OrphanDisks`, `IoMayFail = FALSE` | `OpenIsLookup` | a complete set of fragments without its file hides the long name that follows |
| `fat_volume` | `Disks <- Volumes`, `Paths <- OverlongPaths`, `IoMayFail = FALSE` | `OpenIsLookup` | of an extension that is too long the first characters are compared: `ab.cd` opens `AB.C` when the extension has one character |
| `drive_reads` | `Geometry <- TwoDrives`, `Absent = {}`, `Unready = {0}`, `MaxCount = 2` | `EntriesAreReported` | a failed query leaves a stale entry in the table |
| `menu_long` | `Codes = {28, 80}`, `EarlyKeys = TRUE`, `Moments <- NoonOnly` | `MarkedIsSelected` | a waiting key may prevent the first drawing of the mark |
| `menu_long` | `Default = 14`, `Codes = {28, 80}`, `Moments <- NoonOnly` | `MarkedIsSelected` | the window starts at the top whatever the default (`main.c` 36): a default beyond it is selected and not marked |
| `menu_long` | `nImages = 30`, `Codes = {28, 67}`, `Moments <- NoonOnly` | `EnterBoots` | with 27 or more images the range `VK_1` to `VK_1 + nImages - 1` of number keys includes the code of Enter, which then selects image 27 instead of booting |
| `loader_image` | `Images <- GraphicsKernels`, `Machines <- OneMachine`, `ModeMayFail = TRUE` | `GraphicsAsTold` | `GetVbeModeInfo` fails and frees the blocks, its result is not looked at and `MIF_GRAPHICS` stays (`multiboot.c` 228) |
| `loader_image` | `Images <- RoundedKernels`, `Machines <- OneMachine`, nothing fails | `WritesOwned` | raw data larger than the section's memory is written (`loader.c` 461) |
| `startup` | `ConfigFiles <- ZeroFiles`, `MemoryMayFail = FALSE` | `ConfigIsMeaning` | `strtoul` takes a single `0` for no number, so `Timeout = 0` is an error |
| `startup` | `ConfigFiles <- ChosenFiles`, `ChaseEnds = {FALSE}`, no deadlock check | `MainReturns` | without images `ValidateConfig` follows a list from address zero |
| `startup` | `ConfigFiles <- ChosenFiles` | `WholeFile` | a read that stops early is taken for the whole file (`config.c` 231) |

## 6. What is not modelled

Processor state and mode switches (`asm.s`, `start.s`) and BIOS calls themselves
are below the level of this project. Output, formatting, strings and messages
have no influence on any other part. In `Devices`, the sectors that a failed
mount leaves in the heap are not counted. In `Loader`, `PhysAlloc` and
`PhysFree` appear by the contract that `PhysMem` establishes, in `Startup` the
menu and the loader by what they promise; composing them in full would multiply
state spaces without adding an interaction, as each runs after the other has
returned. `Config` starts from lines that are already split into kind, name and
value; the splitting (`config.c` 235-272) writes a zero where the comment sign
would be even if there is none (line 267: to address zero), a byte that the
model does not hold. `SystemInfo` does not model text modes beyond the
comparison at `multiboot.c` 65, which no text mode passes, and the contents of
the APM table.

Known limits of what `FatVolume` looks at: a volume label with the name of a file
before it hides that file, a file with a long name is not found by its short
one, more than 20 fragments overflow `Filename`, and a FAT32 boot sector with
few clusters is typed FAT12 or FAT16. The volumes of the run have none of these.

## 7. Plan

1. Done: all parts of the system that keep state are modelled, from the first
   BIOS call of `main` to the start of a kernel.
2. Done: every safety property of the passing runs but `OpenIsLookup` is proved
   for all values of the constants, and the three refinements with them
   (section 4).
3. Left: `OpenIsLookup`, which would need its reference written over sets of
   entries in the way `Meaning` is written over sets of lines, and lemmas about
   long names split over clusters.
