----------------------------- MODULE FatVolume -----------------------------
(***************************************************************************)
(* A FAT volume from FatMount to an open file (src/src/fat.c, 139-612 and  *)
(* 785-936): the mount decides whether a device holds a FAT file system,   *)
(* of which type, and where its areas are; _OpenFile follows a path        *)
(* through directories, which FindDirEntry reads cluster by cluster while  *)
(* it assembles long names from fragments.                                 *)
(*                                                                         *)
(* Characters are byte values.  8 and 3, the lengths of the parts of a     *)
(* short name, 13, the characters of a fragment, and the size of a         *)
(* directory entry are parameters, so that directories of a few entries    *)
(* take several clusters.                                                  *)
(***************************************************************************)
EXTENDS FatTable, SequencesExt

CONSTANTS
    Disks,          \* the devices there are: see DiskAssumption
    Paths,          \* what is opened: [abs |-> starts with '/', parts |-> names]
    BaseLen, ExtLen,    \* 8 and 3
    FragLen,        \* 13
    EntrySize       \* sizeof(DIR_ENTRY)

NotFat == [FatType |-> 0]       \* the layout of a device without a FAT file system

\* A disk: the sizes its drive reports, the BPB in its first sector, the entries in
\* the sectors of directories (other sectors hold those of `stale`), the links of
\* the allocation table; and, for the properties, what it was formatted as and the
\* lists of its directories.
ASSUME DiskAssumption ==
    /\ {BaseLen, ExtLen, FragLen, EntrySize} \subseteq Nat \ {0}
    /\ \A d \in Disks :
          /\ DOMAIN d = {"bpb", "nBytesPerSector", "nSectors", "sectors", "stale", "links",
                         "layout", "dirs"}
          /\ \A s \in DOMAIN d.sectors : Len(d.sectors[s]) = d.nBytesPerSector \div EntrySize

\* What follows a slash has a first component, which may be empty.
ASSUME PathAssumption ==
    \A r \in Paths : r.abs \in BOOLEAN /\ r.parts \in Seq(Seq(0 .. 255)) /\ r.parts # << >>

VARIABLES
    disk,
    fi,             \* the FAT_INFO of the device, NotFat when it is not mounted
    pc,             \* device, ready; find, read, scan: in FindDirEntry; found; closed
    request, part,  \* the path in progress, its component
    Cluster, Sector, i, nRootEntries,   \* of FindDirEntry, i in entries
    lfn,            \* LastDirEntry, DirEntry, Checksum and Filename
    file,           \* the directory entry of the FILE that was opened, or NoFile
    failed,         \* has memory been short or a sector unreadable?
    blocks          \* heap blocks in use, by name

vars == <<disk, fi, pc, request, part, Cluster, Sector, i, nRootEntries, lfn, file,
          failed, blocks>>

NoFile == [kind |-> "none"]

search == <<Cluster, Sector, i, nRootEntries, lfn>>

bpb == disk.bpb

----------------------------------------------------------------------------
(* FatMount *)

Powers(n) == {2 ^ k : k \in 0 .. n}

\* ULONGs wrap at 2^32; 2^30 is as far beyond every limit they are compared with.
ULong(x) == x % (2 ^ 30)

Legal(b) ==
    /\ b.BytsPerSec \in {512, 1024, 2048, 4096}
    /\ b.SecPerClus \in Powers(7)
    /\ b.SecPerClus * b.BytsPerSec <= 32768
    /\ b.RsvdSecCnt # 0

\* With more than one reserved sector, or no root directory area, it must be FAT32.
Is32(b) == b.RsvdSecCnt > 1 \/ b.RootEntCnt = 0

Consistent(b) ==
    /\ ~(b.RsvdSecCnt > 1 /\ b.RootEntCnt # 0)
    /\ b.TotSec16 # 0 \/ b.TotSec32 # 0
    /\ b.TotSec16 # 0 => ~Is32(b)
    /\ b.Media >= 248 \/ b.Media = 240
    /\ (b.FATSz16 = 0) <=> Is32(b)
    /\ Is32(b) => b.FATSz32 # 0 /\ b.FSVer = 0

IsFat == Legal(bpb) /\ bpb.BytsPerSec = disk.nBytesPerSector /\ Consistent(bpb)

RootDirSectors(b) == (b.RootEntCnt * EntrySize + b.BytsPerSec - 1) \div b.BytsPerSec

FATSz(b) == IF b.FATSz16 # 0 THEN b.FATSz16 ELSE b.FATSz32

TotSec(b) == IF b.TotSec16 # 0 THEN b.TotSec16 ELSE b.TotSec32

DataSec(b) == ULong(TotSec(b) - (b.RsvdSecCnt + b.NumFATs * FATSz(b) + RootDirSectors(b)))

MutTypeOf(b) ==
    LET nClusters == DataSec(b) \div b.SecPerClus IN
    CASE nClusters <= 4085                        -> 12
      [] nClusters > 4085 /\ nClusters <= 65525   -> 16
      [] OTHER                                    -> 32

TypeOf(b) ==
    LET nClusters == DataSec(b) \div b.SecPerClus IN
    CASE nClusters < 4085                         -> 12
      [] nClusters >= 4085 /\ nClusters < 65525   -> 16
      [] OTHER                                    -> 32

FatInfo(b) ==
    LET rootStart == b.RsvdSecCnt + b.NumFATs * FATSz(b) IN
    [FatType |-> TypeOf(b), FatStart |-> b.RsvdSecCnt, RootDirStart |-> rootStart,
     DataStart |-> rootStart + RootDirSectors(b),
     BytsPerClus |-> b.BytsPerSec * b.SecPerClus]

Refused ==
    /\ pc' = "ready"
    /\ UNCHANGED <<disk, fi, request, part, search, file>>

\* The drive's parameters, memory or, in eight tries, the boot sector are not to be
\* had.
MountFails ==
    /\ pc = "device"
    /\ IoMayFail
    /\ failed' = TRUE
    /\ Refused
    /\ UNCHANGED blocks

MountRefused ==
    /\ pc = "device"
    /\ ~IsFat
    /\ Refused
    /\ UNCHANGED <<failed, blocks>>

\* A table of 32-bit entries with another version: the blocks are not freed.
MountVersion ==
    /\ pc = "device"
    /\ IsFat
    /\ TypeOf(bpb) = 32 /\ bpb.FSVer # 0
    /\ blocks' = [blocks EXCEPT !.Bpb = @ + 1, !.fi = @ + 1]
    /\ Refused
    /\ UNCHANGED failed

Mount ==
    /\ pc = "device"
    /\ IsFat
    /\ TypeOf(bpb) = 32 => bpb.FSVer = 0
    /\ fi' = FatInfo(bpb)
    /\ blocks' = [blocks EXCEPT !.Bpb = @ + 1, !.fi = @ + 1]
    /\ pc' = "ready"
    /\ UNCHANGED <<disk, request, part, search, file, failed>>

----------------------------------------------------------------------------
(* Names *)

Space == 32
Dot == 46

ToUpper(ch) == IF ch \in 97 .. 122 THEN ch - 32 ELSE ch

IsAlnum(ch) == ch \in 48 .. 57 \cup 65 .. 90 \cup 97 .. 122

Upper(name) == [k \in DOMAIN name |-> ToUpper(name[k])]

\* The longest prefix, and the longest suffix, of characters in a set.
Leading(name, chars) ==
    CHOOSE n \in 0 .. Len(name) :
        /\ \A k \in 1 .. n : name[k] \in chars
        /\ n < Len(name) => name[n + 1] \notin chars

\* Leading spaces go, and trailing spaces and periods.
Trim(name) ==
    LET rest == SubSeq(name, Leading(name, {Space}) + 1, Len(name))
    IN SubSeq(rest, 1, Len(rest) - Leading(Reverse(rest), {Space, Dot}))

\* Characters beyond 127 are negative, and so less than 32: they are illegal too.
\* The others are " * / : < > ? \ |
ValidateFilename(name) ==
    /\ Len(name) <= 255
    /\ \A k \in DOMAIN name :
          name[k] \in 32 .. 127 \ {34, 42, 47, 58, 60, 62, 63, 92, 124}

\* $ % ' - _ @ ~ ` ! ( ) { } ^ # & and the letters and digits
ShortChar(ch) ==
    IsAlnum(ch) \/ ch \in {36, 37, 39, 45, 95, 64, 126, 96, 33, 40, 41, 123, 125, 94, 35, 38}

NameLen == BaseLen + ExtLen

First(name, n) == SubSeq(name, 1, IF n < Len(name) THEN n ELSE Len(name))

\* The first n characters of a name, padded with spaces.
Padded(name, n) == [k \in 1 .. n |-> IF k \in DOMAIN name THEN name[k] ELSE Space]

\* The short name a name becomes, << >> when it is none.  Without a dot the base may
\* run into the extension, and what does not fit is ignored.
UnicodeToOem(name) ==
    LET base == SubSeq(name, 1, Leading(name, 0 .. 255 \ {Dot}))
        dot  == Len(base) < Len(name)
        ext  == IF dot THEN SubSeq(name, Len(base) + 2, Len(name)) ELSE << >>
        used == IF dot THEN base \o First(ext, ExtLen) ELSE First(base, NameLen)
    IN IF (dot /\ Len(base) > BaseLen) \/ (\E k \in DOMAIN used : ~ShortChar(used[k]))
       THEN << >>
       ELSE Upper(IF dot THEN Padded(base, BaseLen) \o Padded(ext, ExtLen)
                         ELSE Padded(base, NameLen))

CheckSum(name) ==
    FoldLeft(LAMBDA sum, ch : ((sum % 2) * 128 + sum \div 2 + ch) % 256, 0, name)

----------------------------------------------------------------------------
(* FindDirEntry: the entries of a directory *)

\* A directory entry is a short one or a fragment of a long name.
IsLong(e) == e.kind = "long"
IsEnd(e) == e.kind = "end"
IsDeleted(e) == e.kind = "deleted"

\* 5 stands for 0xE5 in the first character, which would mark a deleted entry.
DirName(e) == IF e.name[1] = 5 THEN [e.name EXCEPT ![1] = 229] ELSE e.name

\* The fragments up to the terminating zero.
Assembled(frags) ==
    LET all == FlattenSeq(frags) IN SubSeq(all, 1, Leading(all, 1 .. 255))

NoNames == [Last |-> 0, Dir |-> 0, Chk |-> 0, Filename |-> << >>]

\* In the first byte of any entry 0x05 becomes 0xE5.  In a fragment that byte is the
\* ordinal: the fifth of a set, unless it is the last, becomes the last of 0xA5.
Read5(e) == IF e.ord = 5 /\ ~e.last THEN [e EXCEPT !.ord = 165, !.last = TRUE] ELSE e

\* The fragment is the one that is due: the first of a set, flagged, or the next.
Due(l, e) ==
    /\ (l.Dir # l.Last) # e.last
    /\ LET chk == IF l.Last = 0 THEN e.chk ELSE l.Chk
           dir == IF l.Last = 0 THEN e.ord ELSE l.Dir
       IN /\ dir \in 1 .. 63           \* MAX_ENTRY_VALUE
          /\ e.ord = dir
          /\ e.valid
          /\ e.chk = chk

\* The name after a fragment, which goes to its place in Filename.
LongEntry(l, e) ==
    IF ~Due(l, e) THEN NoNames
    ELSE IF l.Last = 0
    THEN [Last |-> e.ord, Dir |-> e.ord - 1, Chk |-> e.chk,
          Filename |-> [k \in 1 .. e.ord |-> e.frag]]
    ELSE [l EXCEPT !.Dir = @ - 1, !.Filename[e.ord] = e.frag]

MutMatches(l, e, name) ==
    IF l.Last # 0
    THEN Upper(Assembled(l.Filename)) = Upper(name)
    ELSE UnicodeToOem(name) = DirName(e)

\* Is a short entry, after the fragments before it, the one that is sought?
Matches(l, e, name) ==
    IF l.Last # 0 /\ l.Dir = 0 /\ CheckSum(DirName(e)) = l.Chk
    THEN Upper(Assembled(l.Filename)) = Upper(name)
    ELSE UnicodeToOem(name) = DirName(e)

----------------------------------------------------------------------------
(* FindDirEntry: the search *)

Name == Trim(request.parts[part])

\* Trim returns a pointer behind leading spaces: freeing it frees no block.
Kept == IF request.parts[part] # << >> /\ request.parts[part][1] = Space THEN 1 ELSE 0

EndOf == EndCluster(fi.FatType)

\* The entries in the sectors s .. s + SecPerClus - 1.
Entries(s) ==
    FlattenSeq([k \in 1 .. bpb.SecPerClus |->
        IF s + k - 1 \in DOMAIN disk.sectors THEN disk.sectors[s + k - 1] ELSE disk.stale])

ReturnNone ==
    /\ file' = NoFile
    /\ pc' = "ready"
    /\ UNCHANGED <<disk, fi, request, part, search>>

\* There is no memory for the name, or for a cluster.
FindFails ==
    /\ pc = "find"
    /\ IoMayFail
    /\ failed' = TRUE
    /\ \E n \in {0, Kept} : blocks' = [blocks EXCEPT !.Name = @ + n]
    /\ ReturnNone

FindInvalid ==
    /\ pc = "find"
    /\ ~ValidateFilename(Name)
    /\ blocks' = [blocks EXCEPT !.Name = @ + Kept]
    /\ ReturnNone
    /\ UNCHANGED failed

Find ==
    /\ pc = "find"
    /\ ValidateFilename(Name)
    /\ blocks' = [blocks EXCEPT !.Name = @ + 1, !.Buffer = @ + 1]
    /\ Sector' = IF Cluster < 2 THEN fi.RootDirStart ELSE 0
    /\ nRootEntries' = 0
    /\ lfn' = NoNames
    /\ pc' = "read"
    /\ UNCHANGED <<disk, fi, request, part, Cluster, i, file, failed>>

SectorOf == IF Cluster >= 2 THEN fi.DataStart + (Cluster - 2) * bpb.SecPerClus ELSE Sector

Readable == Cluster < EndOf /\ SectorOf + bpb.SecPerClus <= disk.nSectors

ReadCluster ==
    /\ pc = "read"
    /\ Readable
    /\ Sector' = SectorOf
    /\ i' = 0
    /\ pc' = "scan"
    /\ UNCHANGED <<disk, fi, request, part, Cluster, nRootEntries, lfn, file, failed, blocks>>

MutFreeNames == [blocks EXCEPT !.Buffer = @ - 1]

FreeNames == [blocks EXCEPT !.Buffer = @ - 1, !.Name = @ - 1 + Kept]

\* The chain ends, or leads out of the device.
EndOfChain ==
    /\ pc = "read"
    /\ ~Readable
    /\ blocks' = FreeNames
    /\ ReturnNone
    /\ UNCHANGED failed

ReadFails ==
    /\ pc = "read"
    /\ IoMayFail
    /\ failed' = TRUE
    /\ blocks' = FreeNames
    /\ ReturnNone

EntriesPerClus == fi.BytsPerClus \div EntrySize

\* The condition of the loop over the entries of a cluster.
MoreEntries ==
    /\ Cluster >= 2 \/ nRootEntries < bpb.RootEntCnt
    /\ i < EntriesPerClus

Entry == Entries(Sector)[i + 1]

\* The end mark, or all entries of the root directory have been seen.
ScanStops ==
    /\ pc = "scan"
    /\ IF MoreEntries THEN IsEnd(Entry) ELSE i < EntriesPerClus
    /\ blocks' = FreeNames
    /\ ReturnNone
    /\ UNCHANGED failed

\* nRootEntries is only looked at in the root area.
NextEntry ==
    /\ i' = i + 1
    /\ nRootEntries' = IF Cluster < 2 THEN nRootEntries + 1 ELSE nRootEntries
    /\ UNCHANGED <<disk, fi, pc, request, part, Cluster, Sector, file, failed, blocks>>

ScanDeleted ==
    /\ pc = "scan"
    /\ MoreEntries
    /\ IsDeleted(Entry)
    /\ NextEntry
    /\ UNCHANGED lfn

ScanLong ==
    /\ pc = "scan"
    /\ MoreEntries
    /\ IsLong(Entry)
    /\ lfn' = LongEntry(lfn, Read5(Entry))
    /\ NextEntry

ScanShort ==
    /\ pc = "scan"
    /\ MoreEntries
    /\ Entry.kind = "short"
    /\ ~Matches(lfn, Entry, Name)
    /\ lfn' = [lfn EXCEPT !.Last = 0, !.Dir = 0]
    /\ NextEntry

\* A file or directory of that name: it is copied, and the search returns.
ScanFound ==
    /\ pc = "scan"
    /\ MoreEntries
    /\ Entry.kind = "short"
    /\ Matches(lfn, Entry, Name)
    /\ file' = [Entry EXCEPT !.name = DirName(Entry)]
    /\ blocks' = FreeNames
    /\ pc' = "found"
    /\ UNCHANGED <<disk, fi, request, part, search, failed>>

MutScanNext ==
    /\ pc = "scan"
    /\ i = EntriesPerClus
    /\ Sector' = Sector + 1
    /\ Cluster' = Cluster
    /\ pc' = "read"
    /\ UNCHANGED <<disk, fi, request, part, i, nRootEntries, lfn, file, failed, blocks>>

\* The root directory of FAT12 and FAT16 goes on with the next sectors, others where
\* the table says.
ScanNext ==
    /\ pc = "scan"
    /\ i = EntriesPerClus
    /\ \/ /\ Cluster < 2
          /\ Sector' = Sector + bpb.SecPerClus
          /\ UNCHANGED <<Cluster, failed>>
       \/ /\ Cluster >= 2
          /\ \E x \in GetNextCluster(fi.FatType, disk.links, Cluster) :
                Cluster' = x.clus /\ failed' = (failed \/ x.err)
          /\ UNCHANGED Sector
    /\ pc' = "read"
    /\ UNCHANGED <<disk, fi, request, part, i, nRootEntries, lfn, file, blocks>>

----------------------------------------------------------------------------
(* _OpenFile *)

OpenRelative(r) ==
    /\ pc = "ready"
    /\ fi # NotFat
    /\ ~r.abs
    /\ request' = r
    /\ file' = NoFile
    /\ failed' = FALSE
    /\ UNCHANGED <<disk, fi, pc, part, search, blocks>>

OpenFile(r) ==
    /\ pc = "ready"
    /\ fi # NotFat
    /\ r.abs
    /\ request' = r
    /\ part' = 1
    /\ file' = NoFile
    /\ failed' = FALSE
    /\ Cluster' = IF fi.FatType = 32 THEN bpb.RootClus ELSE 0
    /\ pc' = "find"
    /\ UNCHANGED <<disk, fi, Sector, i, nRootEntries, lfn, blocks>>

MakeLong(hi, lo) == hi * 65536 + lo

IsDirectory(e) == "dir" \in e.attr /\ "vol" \notin e.attr
IsFile(e) == "dir" \notin e.attr /\ "vol" \notin e.attr

LastPart == part = Len(request.parts)

\* A directory, and the path goes on.
Descend ==
    /\ pc = "found"
    /\ IsDirectory(file)
    /\ ~LastPart
    /\ Cluster' = MakeLong(file.hi, file.lo)
    /\ part' = part + 1
    /\ file' = NoFile
    /\ pc' = "find"
    /\ UNCHANGED <<disk, fi, request, Sector, i, nRootEntries, lfn, failed, blocks>>

\* A file ends the path: the FILE is given to the caller, who closes it.
Opened ==
    /\ pc = "found"
    /\ IsFile(file)
    /\ LastPart
    /\ pc' = "ready"
    /\ UNCHANGED <<disk, fi, request, part, search, file, failed, blocks>>

OpenedNoMemory ==
    /\ pc = "found"
    /\ IsFile(file)
    /\ LastPart
    /\ IoMayFail
    /\ failed' = TRUE
    /\ ReturnNone
    /\ UNCHANGED blocks

\* A file where a directory must be, a directory where a file must be, or a label.
Unexpected ==
    /\ pc = "found"
    /\ ~(IF LastPart THEN IsFile(file) ELSE IsDirectory(file))
    /\ ReturnNone
    /\ UNCHANGED <<failed, blocks>>

\* _Release: the device is closed.
Release ==
    /\ pc = "ready"
    /\ fi # NotFat
    /\ fi' = NotFat
    /\ blocks' = [blocks EXCEPT !.Bpb = @ - 1, !.fi = @ - 1]
    /\ file' = NoFile
    /\ pc' = "closed"
    /\ UNCHANGED <<disk, request, part, search, failed>>

----------------------------------------------------------------------------

Init ==
    /\ disk \in Disks
    /\ fi = NotFat
    /\ pc = "device"
    /\ request = [abs |-> FALSE, parts |-> << >>]
    /\ part = 0
    /\ Cluster = 0 /\ Sector = 0 /\ i = 0 /\ nRootEntries = 0
    /\ lfn = NoNames
    /\ file = NoFile
    /\ failed = FALSE
    /\ blocks = [Name |-> 0, Buffer |-> 0, Bpb |-> 0, fi |-> 0]

Open == \E r \in Paths : OpenRelative(r) \/ OpenFile(r)

Step ==
    \/ MountFails \/ MountRefused \/ MountVersion \/ Mount
    \/ FindFails \/ FindInvalid \/ Find
    \/ ReadCluster \/ EndOfChain \/ ReadFails
    \/ ScanStops \/ ScanDeleted \/ ScanLong \/ ScanShort \/ ScanFound \/ ScanNext
    \/ Descend \/ Opened \/ OpenedNoMemory \/ Unexpected

\* A call runs to its end.
Spec == Init /\ [][Open \/ Release \/ Step]_vars /\ WF_vars(Step)

----------------------------------------------------------------------------
(* What the directories hold *)

\* The short name of a name: a base of one to eight characters and an extension of
\* up to three.
IsShort(base, ext) ==
    /\ Len(base) \in 1 .. BaseLen
    /\ Len(ext) \in 0 .. ExtLen
    /\ \A k \in DOMAIN base : ShortChar(base[k])
    /\ \A k \in DOMAIN ext : ShortChar(ext[k])

ShortForms(name) ==
    LET Base(k) == SubSeq(name, 1, k - 1)
        Ext(k)  == SubSeq(name, k + 1, Len(name))
    IN {Upper(Padded(Base(k), BaseLen) \o Padded(Ext(k), ExtLen)) :
          k \in {j \in 1 .. Len(name) + 1 : /\ j <= Len(name) => name[j] = Dot
                                           /\ IsShort(Base(j), Ext(j))}}

\* The entries of a directory that are in use.
Live(list) ==
    LET end == SelectInSeq(list, IsEnd)
        InUse(e) == ~IsDeleted(e)
    IN SelectSeq(IF end = 0 THEN list ELSE SubSeq(list, 1, end - 1), InUse)

\* The n entries before a short one hold its long name.
LongNameIs(list, k, n) ==
    /\ n \in 1 .. k - 1
    /\ \A j \in 1 .. n :
          LET e == list[k - j] IN
          /\ IsLong(e)
          /\ e.ord = j
          /\ e.valid
          /\ e.last <=> (j = n)
          /\ e.chk = CheckSum(DirName(list[k]))

Bears(list, k, name) ==
    /\ list[k].kind = "short" /\ "vol" \notin list[k].attr
    /\ \/ DirName(list[k]) \in ShortForms(name)
       \/ \E n \in 1 .. k - 1 :
            /\ LongNameIs(list, k, n)
            /\ Upper(Assembled([j \in 1 .. n |-> list[k - j].frag])) = Upper(name)

\* The entry of a name in the directory that starts at a cluster.
EntryOf(c, name) ==
    IF c \notin DOMAIN disk.dirs THEN NoFile
    ELSE LET list == Live(disk.dirs[c])
             ks   == {k \in DOMAIN list : Bears(list, k, name)}
         IN IF ks = {} THEN NoFile
            ELSE LET e == list[CHOOSE k \in ks : \A j \in ks : k <= j]
                 IN [e EXCEPT !.name = DirName(e)]

\* The entry that the first n components of a path lead to.
Resolved(parts) ==
    LET walk[n \in 0 .. Len(parts)] ==
            IF n = 0
            THEN [kind |-> "short", attr |-> {"dir"}, hi |-> disk.layout.RootClus \div 65536,
                  lo |-> disk.layout.RootClus % 65536]
            ELSE IF walk[n - 1] = NoFile \/ ~IsDirectory(walk[n - 1]) THEN NoFile
            ELSE EntryOf(MakeLong(walk[n - 1].hi, walk[n - 1].lo), Trim(parts[n]))
    IN walk[Len(parts)]

Lookup(r) ==
    IF r.abs /\ Resolved(r.parts) # NoFile /\ IsFile(Resolved(r.parts))
    THEN Resolved(r.parts) ELSE NoFile

----------------------------------------------------------------------------
(* Properties *)

Returned == pc = "ready" /\ fi # NotFat /\ request.parts # << >>

\* However directories are spread over clusters, whatever deleted entries, orphaned
\* fragments and labels they hold: a path opens the file that the directories give
\* for it or, when nothing failed, none only if there is none (fat.c 333-612).
OpenIsLookup ==
    Returned => \/ file = Lookup(request)
                \/ failed /\ file = NoFile

\* A file opens by its long name, of up to 63 fragments (fat.c 122: "there are 63
\* entries allowed").
LongNamesOpen == Returned /\ ~failed /\ Lookup(request) # NoFile => file # NoFile

\* A device is mounted only as what it was formatted as: type, allocation table,
\* root directory and data are found where they are, at the limits between the types
\* too; what is no FAT volume is left alone, what is one is not (fat.c 785-936).
MountedAsFormatted ==
    /\ fi # NotFat => /\ disk.layout # NotFat
                      /\ \A field \in DOMAIN fi : fi[field] = disk.layout[field]
    /\ pc = "ready" /\ fi = NotFat => failed \/ disk.layout = NotFat

\* Between calls the driver holds two blocks for a mounted device and none for
\* another one, whichever search or mount failed where; the exception is a device
\* whose version is only seen to be wrong at the end of FatMount.
NothingKept ==
    pc \in {"device", "ready", "closed"} /\ ~(IsFat /\ bpb.FSVer # 0)
        => LET n == IF fi = NotFat THEN 0 ELSE 1
           IN blocks = [Name |-> 0, Buffer |-> 0, Bpb |-> n, fi |-> n]

\* Every call returns: directories are read to their end and no further.
EveryOpenReturns == (pc \notin {"ready", "closed"}) ~> (pc = "ready")
=============================================================================
