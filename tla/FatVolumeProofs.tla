-------------------------- MODULE FatVolumeProofs --------------------------
(***************************************************************************)
(* Proofs about FatVolume (src/src/fat.c), for every set of devices,       *)
(* whatever their boot sectors, tables and directories hold, and every     *)
(* sequence of paths: what the driver keeps on the heap, and where it      *)
(* finds the areas of a volume.                                            *)
(***************************************************************************)
EXTENDS FatVolume, TLAPS

----------------------------------------------------------------------------
(* Blocks *)

\* Trim returns a pointer into the name that it was given: without leading spaces it
\* is the pointer that malloc returned, and free takes it.
NoLeadingSpace ==
    \A r \in Paths : \A k \in 1 .. Len(r.parts) :
        r.parts[k] # << >> => r.parts[k][1] # Space

\* The component in progress is one of the path's.
InPath ==
    /\ request \in Paths
    /\ part \in 1 .. Len(request.parts)

Searching == {"find", "read", "scan", "found"}

\* A search holds two blocks while it reads a directory, a mounted device two others.
Held ==
    ~(IsFat /\ bpb.FSVer # 0)
        => LET m == IF pc \in {"read", "scan"} THEN 1 ELSE 0
               n == IF fi = NotFat THEN 0 ELSE 1
           IN blocks = [Name |-> m, Buffer |-> m, Bpb |-> n, fi |-> n]

BlocksInv ==
    /\ pc \in Searching => InPath
    /\ pc = "device" => fi = NotFat
    /\ Held

LEMMA NoneKept ==
    ASSUME NoLeadingSpace, InPath
    PROVE  Kept = 0
BY DEF NoLeadingSpace, InPath, Kept

\* FAT12, FAT16 and FAT32 are the only types that a mount finds.
LEMMA MountedIsFat == FatInfo(bpb) # NotFat
<1>1. TypeOf(bpb) # 0
  BY SMT DEF TypeOf
<1> QED BY <1>1, Zenon DEF FatInfo, NotFat

LEMMA InitBlocks == Init => BlocksInv
BY DEF Init, BlocksInv, Held, Searching

\* The blocks of a search that ends, and of one that begins.
LEMMA SearchBlocks ==
    ASSUME NoLeadingSpace, InPath, NEW n \in {0, 1}
    PROVE  /\ blocks = [Name |-> 1, Buffer |-> 1, Bpb |-> n, fi |-> n]
                => FreeNames = [Name |-> 0, Buffer |-> 0, Bpb |-> n, fi |-> n]
           /\ blocks = [Name |-> 0, Buffer |-> 0, Bpb |-> n, fi |-> n]
                => /\ [blocks EXCEPT !.Name = @ + Kept] = blocks
                   /\ [blocks EXCEPT !.Name = @ + 0] = blocks
                   /\ [blocks EXCEPT !.Name = @ + 1, !.Buffer = @ + 1]
                        = [Name |-> 1, Buffer |-> 1, Bpb |-> n, fi |-> n]
<1>1. Kept = 0
  BY NoneKept
<1> DEFINE Block(m) == [Name |-> m, Buffer |-> m, Bpb |-> n, fi |-> n]
<1>2. ASSUME blocks = Block(1) PROVE FreeNames = Block(0)
  <2>1. blocks.Name - 1 + Kept = 0 /\ blocks.Buffer - 1 = 0
    BY <1>1, <1>2
  <2>2. FreeNames = [blocks EXCEPT !.Buffer = 0, !.Name = 0]
    BY <2>1 DEF FreeNames
  <2> QED BY <1>2, <2>2, Zenon
<1>3. ASSUME blocks = Block(0)
      PROVE  /\ [blocks EXCEPT !.Name = @ + Kept] = blocks
             /\ [blocks EXCEPT !.Name = @ + 0] = blocks
             /\ [blocks EXCEPT !.Name = @ + 1, !.Buffer = @ + 1] = Block(1)
  <2>1. blocks.Name + Kept = 0 /\ blocks.Name + 0 = 0 /\ blocks.Name + 1 = 1 /\ blocks.Buffer + 1 = 1
    BY <1>1, <1>3
  <2>2. /\ [blocks EXCEPT !.Name = @ + Kept] = [blocks EXCEPT !.Name = 0]
        /\ [blocks EXCEPT !.Name = @ + 0] = [blocks EXCEPT !.Name = 0]
        /\ [blocks EXCEPT !.Name = @ + 1, !.Buffer = @ + 1]
                = [blocks EXCEPT !.Name = 1, !.Buffer = 1]
    BY <2>1
  <2>3. /\ [blocks EXCEPT !.Name = 0] = blocks
        /\ [blocks EXCEPT !.Name = 1, !.Buffer = 1] = Block(1)
    <3>1. [blocks EXCEPT !.Name = 0] = blocks
      BY <1>3
    <3>2. [blocks EXCEPT !.Name = 1] = [Name |-> 1, Buffer |-> 0, Bpb |-> n, fi |-> n]
      BY <1>3
    <3>3. [[blocks EXCEPT !.Name = 1] EXCEPT !.Buffer = 1] = Block(1)
      <4>1. [[Name |-> 1, Buffer |-> 0, Bpb |-> n, fi |-> n] EXCEPT !.Buffer = 1] = Block(1)
        OBVIOUS
      <4> QED BY <3>2, <4>1, Zenon
    <3> QED BY <3>1, <3>3
  <2> QED BY <2>2, <2>3, Zenon
<1> QED BY <1>2, <1>3, Zenon

\* The blocks of a device that is mounted, and of one that is released.
LEMMA DeviceBlocks ==
    ASSUME NEW x, NEW y, {x, y} = {0, 1},
           blocks = [Name |-> 0, Buffer |-> 0, Bpb |-> x, fi |-> x]
    PROVE  /\ x = 0 => [blocks EXCEPT !.Bpb = @ + 1, !.fi = @ + 1]
                            = [Name |-> 0, Buffer |-> 0, Bpb |-> y, fi |-> y]
           /\ x = 1 => [blocks EXCEPT !.Bpb = @ - 1, !.fi = @ - 1]
                            = [Name |-> 0, Buffer |-> 0, Bpb |-> y, fi |-> y]
<1>1. [blocks EXCEPT !.Bpb = y, !.fi = y] = [Name |-> 0, Buffer |-> 0, Bpb |-> y, fi |-> y]
  <2>1. [blocks EXCEPT !.Bpb = y] = [Name |-> 0, Buffer |-> 0, Bpb |-> y, fi |-> x]
    OBVIOUS
  <2>2. [[blocks EXCEPT !.Bpb = y] EXCEPT !.fi = y] = [Name |-> 0, Buffer |-> 0, Bpb |-> y, fi |-> y]
    <3>1. [[Name |-> 0, Buffer |-> 0, Bpb |-> y, fi |-> x] EXCEPT !.fi = y]
            = [Name |-> 0, Buffer |-> 0, Bpb |-> y, fi |-> y]
      OBVIOUS
    <3> QED BY <2>1, <3>1, Zenon
  <2> QED BY <2>2
<1>2. x = 0 => [blocks EXCEPT !.Bpb = @ + 1, !.fi = @ + 1] = [blocks EXCEPT !.Bpb = y, !.fi = y]
  <2>1. x = 0 => blocks.Bpb + 1 = y /\ blocks.fi + 1 = y
    OBVIOUS
  <2> QED BY <2>1
<1>3. x = 1 => [blocks EXCEPT !.Bpb = @ - 1, !.fi = @ - 1] = [blocks EXCEPT !.Bpb = y, !.fi = y]
  <2>1. x = 1 => blocks.Bpb - 1 = y /\ blocks.fi - 1 = y
    OBVIOUS
  <2> QED BY <2>1
<1> QED BY <1>1, <1>2, <1>3, Zenon

LEMMA MountBlocks ==
    ASSUME BlocksInv, MountFails \/ MountRefused \/ MountVersion \/ Mount \/ Release
    PROVE  BlocksInv'
<1> USE DEF BlocksInv, Held
<1>1. disk' = disk /\ IsFat' = IsFat /\ bpb' = bpb
  BY DEF MountFails, MountRefused, MountVersion, Mount, Release, Refused, IsFat, bpb
<1>2. pc' \notin Searching /\ pc' \notin {"device", "read", "scan"} /\ pc \notin {"read", "scan"}
  BY DEF MountFails, MountRefused, MountVersion, Mount, Release, Refused, Searching
<1>3. CASE MountFails \/ MountRefused
  BY <1>1, <1>2, <1>3 DEF MountFails, MountRefused, Refused
<1>4. CASE MountVersion
  BY <1>1, <1>2, <1>4 DEF MountVersion
<1>5. CASE Mount
  <2>1. fi = NotFat /\ fi' # NotFat
    BY <1>5, MountedIsFat DEF Mount
  <2>2. blocks' = [blocks EXCEPT !.Bpb = @ + 1, !.fi = @ + 1]
    BY <1>5 DEF Mount
  <2> QED BY <1>1, <1>2, <2>1, <2>2, DeviceBlocks
<1>6. CASE Release
  <2>1. fi # NotFat /\ fi' = NotFat /\ blocks' = [blocks EXCEPT !.Bpb = @ - 1, !.fi = @ - 1]
    BY <1>6 DEF Release
  <2> QED BY <1>1, <1>2, <2>1, DeviceBlocks
<1> QED BY <1>3, <1>4, <1>5, <1>6

LEMMA FindBlocks ==
    ASSUME NoLeadingSpace, BlocksInv,
           FindFails \/ FindInvalid \/ Find \/ EndOfChain \/ ReadFails \/ ScanStops \/ ScanFound
    PROVE  BlocksInv'
<1> USE DEF BlocksInv, Held
<1>1. disk' = disk /\ IsFat' = IsFat /\ bpb' = bpb
  BY DEF FindFails, FindInvalid, Find, EndOfChain, ReadFails, ScanStops, ScanFound,
         ReturnNone, IsFat, bpb
<1>2. pc \in Searching /\ InPath
  BY DEF FindFails, FindInvalid, Find, EndOfChain, ReadFails, ScanStops, ScanFound, Searching
<1>3. InPath' /\ fi' = fi /\ pc' # "device"
  BY <1>2 DEF FindFails, FindInvalid, Find, EndOfChain, ReadFails, ScanStops, ScanFound,
              ReturnNone, InPath
<1> DEFINE n == IF fi = NotFat THEN 0 ELSE 1
<1>4. n \in {0, 1}
  OBVIOUS
<1>5. CASE FindFails \/ FindInvalid
  <2>1. pc = "find" /\ pc' = "ready"
    BY <1>5 DEF FindFails, FindInvalid, ReturnNone
  <2>2. blocks' \in {[blocks EXCEPT !.Name = @ + Kept], [blocks EXCEPT !.Name = @ + 0]}
    BY <1>5 DEF FindFails, FindInvalid
  <2> QED BY <1>1, <1>2, <1>3, <1>4, <2>1, <2>2, SearchBlocks
<1>6. CASE Find
  <2>1. pc = "find" /\ pc' = "read"
        /\ blocks' = [blocks EXCEPT !.Name = @ + 1, !.Buffer = @ + 1]
    BY <1>6 DEF Find
  <2> QED BY <1>1, <1>2, <1>3, <1>4, <2>1, SearchBlocks
<1>7. CASE EndOfChain \/ ReadFails \/ ScanStops \/ ScanFound
  <2>1. pc \in {"read", "scan"} /\ pc' \in {"ready", "found"} /\ blocks' = FreeNames
    BY <1>7 DEF EndOfChain, ReadFails, ScanStops, ScanFound, ReturnNone
  <2> QED BY <1>1, <1>2, <1>3, <1>4, <2>1, SearchBlocks
<1> QED BY <1>5, <1>6, <1>7

\* Steps that touch no block: the walk along a directory, and what _OpenFile does.
LEMMA WalkBlocks ==
    ASSUME BlocksInv,
           \/ ReadCluster \/ ScanDeleted \/ ScanLong \/ ScanShort \/ ScanNext
           \/ Descend \/ Opened \/ OpenedNoMemory \/ Unexpected \/ Open \/ UNCHANGED vars
    PROVE  BlocksInv'
<1> USE DEF BlocksInv, Held
<1>1. CASE ReadCluster \/ ScanDeleted \/ ScanLong \/ ScanShort \/ ScanNext
  <2>1. /\ pc \in {"read", "scan"} /\ pc' \in {"read", "scan"}
        /\ UNCHANGED <<disk, fi, request, part, blocks>>
    BY <1>1 DEF ReadCluster, ScanDeleted, ScanLong, ScanShort, ScanNext, NextEntry
  <2> QED BY <2>1 DEF Searching, InPath, IsFat, bpb
<1>2. CASE Descend
  <2>1. /\ pc = "found" /\ pc' = "find" /\ part' = part + 1 /\ part # Len(request.parts)
        /\ UNCHANGED <<disk, fi, request, blocks>>
    BY <1>2 DEF Descend, LastPart
  <2>2. InPath'
    <3>1. request \in Paths /\ part \in 1 .. Len(request.parts)
      BY <2>1 DEF Searching, InPath
    <3>2. Len(request.parts) \in Nat
      BY <3>1, PathAssumption
    <3> QED BY <2>1, <3>1, <3>2 DEF InPath
  <2> QED BY <2>1, <2>2 DEF Searching, IsFat, bpb
<1>3. CASE Opened \/ OpenedNoMemory \/ Unexpected
  <2>1. pc = "found" /\ pc' = "ready" /\ UNCHANGED <<disk, fi, blocks>>
    BY <1>3 DEF Opened, OpenedNoMemory, Unexpected, ReturnNone
  <2> QED BY <2>1 DEF Searching, IsFat, bpb
<1>4. CASE Open
  <2>1. PICK r \in Paths : OpenRelative(r) \/ OpenFile(r)
    BY <1>4 DEF Open
  <2>2. CASE OpenRelative(r)
    BY <2>2 DEF OpenRelative, Searching, IsFat, bpb
  <2>3. CASE OpenFile(r)
    <3>1. pc = "ready" /\ pc' = "find" /\ request' = r /\ part' = 1
          /\ UNCHANGED <<disk, fi, blocks>>
      BY <2>3 DEF OpenFile
    <3>2. InPath'
      <4>1. r.parts \in Seq(Seq(0 .. 255)) /\ r.parts # << >>
        BY PathAssumption
      <4> QED BY <3>1, <4>1 DEF InPath
    <3> QED BY <3>1, <3>2 DEF IsFat, bpb
  <2> QED BY <2>1, <2>2, <2>3
<1>5. CASE UNCHANGED vars
  BY <1>5 DEF vars, Searching, InPath, IsFat, bpb
<1> QED BY <1>1, <1>2, <1>3, <1>4, <1>5

\* If no component of a path begins with a space: between calls the driver holds two
\* blocks for a mounted device and none for another one, whichever mount, search or
\* allocation failed, and whatever the directories hold (fat.c 333-612, 785-936).
THEOREM NothingKeptHolds == NoLeadingSpace => (Spec => []NothingKept)
<1> SUFFICES ASSUME NoLeadingSpace PROVE Spec => []NothingKept
  OBVIOUS
<1>1. BlocksInv /\ [Open \/ Release \/ Step]_vars => BlocksInv'
  BY MountBlocks, FindBlocks, WalkBlocks DEF Step
<1>2. BlocksInv => NothingKept
  BY DEF BlocksInv, Held, NothingKept
<1> QED BY InitBlocks, <1>1, <1>2, PTL DEF Spec

----------------------------------------------------------------------------
(* Mounting *)

\* A volume of n clusters as the rules of the file system have it formatted: what its
\* layout says of its areas agrees with its boot sector; `rest` sectors at its end do
\* not make a cluster.
FormattedAs(b, y, n, rest) ==
    /\ {b.RsvdSecCnt, b.NumFATs, b.RootEntCnt, b.FATSz16, b.FATSz32, b.TotSec16,
        b.TotSec32} \subseteq Nat
    /\ {b.BytsPerSec, b.SecPerClus} \subseteq Nat \ {0}
    /\ {y.FatStart, y.RootDirStart, y.DataStart} \subseteq Nat
    /\ Legal(b)
    /\ b.Media >= 248 \/ b.Media = 240
    \* The number of clusters determines the type.
    /\ y.FatType = IF n < 4085 THEN 12 ELSE IF n < 65525 THEN 16 ELSE 32
    \* FAT32 has reserved sectors and no area for the root directory.
    /\ IF y.FatType = 32
       THEN /\ b.RsvdSecCnt > 1 /\ b.RootEntCnt = 0
            /\ b.FATSz16 = 0 /\ b.FATSz32 # 0
            /\ b.TotSec16 = 0 /\ b.FSVer = 0
       ELSE b.RsvdSecCnt = 1 /\ b.RootEntCnt # 0 /\ b.FATSz16 # 0 /\ b.FATSz32 = 0
    \* The areas follow each other.
    /\ y.FatStart = b.RsvdSecCnt
    /\ y.RootDirStart = y.FatStart + b.NumFATs * (b.FATSz16 + b.FATSz32)
    /\ LET k == y.DataStart - y.RootDirStart
       IN /\ k >= 0
          /\ b.RootEntCnt * EntrySize <= k * b.BytsPerSec
          /\ (k - 1) * b.BytsPerSec < b.RootEntCnt * EntrySize
    /\ y.BytsPerClus = b.BytsPerSec * b.SecPerClus
    \* One of the two fields tells how many sectors there are.
    /\ (b.TotSec16 = 0) # (b.TotSec32 = 0)
    /\ b.TotSec16 + b.TotSec32 = y.DataStart + n * b.SecPerClus + rest
    /\ rest < b.SecPerClus
    /\ n * b.SecPerClus + rest < 2 ^ 30

Volume(d) ==
    /\ d.bpb.BytsPerSec = d.nBytesPerSector
    /\ \E n \in Nat, rest \in Nat : FormattedAs(d.bpb, d.layout, n, rest)

AllFormatted == \A d \in Disks : Volume(d)

LEMMA QuotientIs ==
    ASSUME NEW q \in Nat, NEW r \in Nat, NEW b \in Nat \ {0}, r < b
    PROVE  (q * b + r) \div b = q
<1> DEFINE x == q * b + r
           c == x \div b
<1>1. q * b \in Nat /\ x \in Nat
  OBVIOUS
<1>2. c \in Nat /\ x % b \in 0 .. b - 1 /\ x = b * c + (x % b)
  BY <1>1
<1>3. CASE c < q
  <2>1. q - c - 1 \in Nat
    BY <1>2, <1>3
  <2>2. (q - c - 1) * b >= 0
    BY <2>1
  <2>3. (q - c - 1) * b = q * b - b * c - b
    BY <1>2
  <2> QED BY <1>1, <1>2, <2>2, <2>3
<1>4. CASE c > q
  <2>1. c - q - 1 \in Nat
    BY <1>2, <1>4
  <2>2. (c - q - 1) * b >= 0
    BY <2>1
  <2>3. (c - q - 1) * b = b * c - q * b - b
    BY <1>2
  <2> QED BY <1>1, <1>2, <2>2, <2>3
<1> QED BY <1>2, <1>3, <1>4

\* The least number of sectors that hold a number of bytes.
LEMMA SectorsFor ==
    ASSUME NEW k \in Nat, NEW x \in Nat, NEW b \in Nat \ {0},
           x <= k * b, (k - 1) * b < x
    PROVE  (x + b - 1) \div b = k
<1> DEFINE r == x + b - 1 - k * b
<1>1. k * b \in Nat /\ (k - 1) * b = k * b - b
  OBVIOUS
<1>2. r \in Nat /\ r < b /\ x + b - 1 = k * b + r
  BY <1>1
<1> HIDE DEF r
<1>3. (k * b + r) \div b = k
  BY <1>2, QuotientIs
<1> QED BY <1>2, <1>3, Zenon

\* The numbers that FatMount computes from a boot sector are those of the volume.
LEMMA MountComputes ==
    ASSUME NEW b, NEW y, NEW n \in Nat, NEW rest \in Nat, FormattedAs(b, y, n, rest)
    PROVE  /\ RootDirSectors(b) = y.DataStart - y.RootDirStart
           /\ FATSz(b) = b.FATSz16 + b.FATSz32
           /\ TotSec(b) = b.TotSec16 + b.TotSec32
           /\ DataSec(b) = n * b.SecPerClus + rest
           /\ TypeOf(b) = y.FatType
<1>1. RootDirSectors(b) = y.DataStart - y.RootDirStart
  <2> DEFINE k == y.DataStart - y.RootDirStart
             x == b.RootEntCnt * EntrySize
             s == b.BytsPerSec
  <2>1. k \in Nat /\ x \in Nat /\ s \in Nat \ {0} /\ x <= k * s /\ (k - 1) * s < x
    <3>1. EntrySize \in Nat
      BY DiskAssumption
    <3> QED BY <3>1 DEF FormattedAs
  <2> HIDE DEF k, x, s
  <2>2. (x + s - 1) \div s = k
    BY <2>1, SectorsFor
  <2> QED BY <2>2 DEF k, x, s, RootDirSectors
<1>2. FATSz(b) = b.FATSz16 + b.FATSz32
  BY DEF FormattedAs, FATSz
<1>3. TotSec(b) = b.TotSec16 + b.TotSec32
  BY DEF FormattedAs, TotSec
<1>4. DataSec(b) = n * b.SecPerClus + rest
  <2> DEFINE m == n * b.SecPerClus + rest
  <2>1. m \in Nat /\ m < 2 ^ 30
    BY DEF FormattedAs
  <2>2. y.DataStart = b.RsvdSecCnt + b.NumFATs * FATSz(b) + RootDirSectors(b)
    <3>1. /\ y.RootDirStart = b.RsvdSecCnt + b.NumFATs * (b.FATSz16 + b.FATSz32)
          /\ {y.RootDirStart, y.DataStart} \subseteq Nat
      BY DEF FormattedAs
    <3> QED BY <1>1, <1>2, <3>1
  <2>3. TotSec(b) = y.DataStart + m /\ y.DataStart \in Nat
    BY <1>3 DEF FormattedAs
  <2>4. TotSec(b) - (b.RsvdSecCnt + b.NumFATs * FATSz(b) + RootDirSectors(b)) = m
    <3> HIDE DEF m
    <3>1. TotSec(b) - y.DataStart = m
      BY <2>1, <2>3
    <3> QED BY <2>2, <3>1
  <2> HIDE DEF m
  <2>5. ULong(m) = m
    BY <2>1 DEF ULong
  <2>6. DataSec(b) = m
    BY <2>4, <2>5, Zenon DEF DataSec
  <2> QED BY <2>6 DEF m
<1>5. TypeOf(b) = y.FatType
  <2>1. DataSec(b) \div b.SecPerClus = n
    <3>1. b.SecPerClus \in Nat \ {0} /\ rest < b.SecPerClus
      BY DEF FormattedAs
    <3>2. (n * b.SecPerClus + rest) \div b.SecPerClus = n
      BY <3>1, QuotientIs
    <3> QED BY <1>4, <3>2, Zenon
  <2>2. y.FatType = IF n < 4085 THEN 12 ELSE IF n < 65525 THEN 16 ELSE 32
    BY SMT DEF FormattedAs
  <2> QED BY <2>1, <2>2, SMT DEF TypeOf
<1> QED BY <1>1, <1>2, <1>3, <1>4, <1>5

\* FatMount takes such a volume for what it is.
LEMMA MountAccepts ==
    ASSUME AllFormatted, disk \in Disks
    PROVE  /\ IsFat
           /\ TypeOf(bpb) = 32 => bpb.FSVer = 0
           /\ disk.layout # NotFat
           /\ \A field \in DOMAIN FatInfo(bpb) : FatInfo(bpb)[field] = disk.layout[field]
<1> DEFINE b == disk.bpb
           y == disk.layout
<1>1. PICK n \in Nat, rest \in Nat :
         FormattedAs(b, y, n, rest) /\ b.BytsPerSec = disk.nBytesPerSector
  BY DEF AllFormatted, Volume
<1> HIDE DEF b, y
<1>2. /\ RootDirSectors(b) = y.DataStart - y.RootDirStart
      /\ FATSz(b) = b.FATSz16 + b.FATSz32
      /\ TypeOf(b) = y.FatType
  BY <1>1, MountComputes
<1>3. y.FatType \in {12, 16, 32}
  BY <1>1, SMT DEF FormattedAs
<1>4. Consistent(b)
  <2>1. /\ b.Media >= 248 \/ b.Media = 240
        /\ (b.TotSec16 = 0) # (b.TotSec32 = 0)
    BY <1>1, SMT DEF FormattedAs
  <2>2. CASE y.FatType = 32
    BY <1>1, <2>1, <2>2, SMT DEF FormattedAs, Consistent, Is32
  <2>3. CASE y.FatType # 32
    BY <1>1, <2>1, <2>3, SMT DEF FormattedAs, Consistent, Is32
  <2> QED BY <2>2, <2>3
<1>5. IsFat
  <2>1. Legal(b)
    BY <1>1, SMT DEF FormattedAs
  <2> QED BY <1>1, <1>4, <2>1, Zenon DEF IsFat, bpb, b
<1>6. TypeOf(bpb) = 32 => bpb.FSVer = 0
  <2>1. y.FatType = 32 => b.FSVer = 0
    BY <1>1, SMT DEF FormattedAs
  <2> QED BY <1>2, <2>1, Zenon DEF bpb, b
<1>7. disk.layout # NotFat
  <2>1. y.FatType # 0
    BY <1>3, SMT
  <2>2. NotFat.FatType = 0
    BY Zenon DEF NotFat
  <2> QED BY <2>1, <2>2, Zenon DEF y
<1>8. \A field \in DOMAIN FatInfo(b) : FatInfo(b)[field] = y[field]
  <2>1. /\ b.RsvdSecCnt = y.FatStart
        /\ b.RsvdSecCnt + b.NumFATs * FATSz(b) = y.RootDirStart
        /\ b.BytsPerSec * b.SecPerClus = y.BytsPerClus
        /\ {y.RootDirStart, y.DataStart} \subseteq Nat
    <3>1. /\ y.FatStart = b.RsvdSecCnt
          /\ y.RootDirStart = y.FatStart + b.NumFATs * (b.FATSz16 + b.FATSz32)
          /\ y.BytsPerClus = b.BytsPerSec * b.SecPerClus
          /\ {y.FatStart, y.RootDirStart, y.DataStart} \subseteq Nat
      BY <1>1, SMT DEF FormattedAs
    <3> QED BY <1>2, <3>1, Zenon
  <2>2. b.RsvdSecCnt + b.NumFATs * FATSz(b) + RootDirSectors(b) = y.DataStart
    BY <1>2, <2>1, SMT
  <2>3. FatInfo(b) = [FatType |-> y.FatType, FatStart |-> y.FatStart,
                      RootDirStart |-> y.RootDirStart, DataStart |-> y.DataStart,
                      BytsPerClus |-> y.BytsPerClus]
    BY <1>2, <2>1, <2>2, Zenon DEF FatInfo
  <2>4. DOMAIN FatInfo(b) = {"FatType", "FatStart", "RootDirStart", "DataStart", "BytsPerClus"}
    BY <2>3
  <2>5. /\ FatInfo(b)["FatType"] = y["FatType"]
        /\ FatInfo(b)["FatStart"] = y["FatStart"]
        /\ FatInfo(b)["RootDirStart"] = y["RootDirStart"]
        /\ FatInfo(b)["DataStart"] = y["DataStart"]
        /\ FatInfo(b)["BytsPerClus"] = y["BytsPerClus"]
    BY <2>3
  <2> QED BY <2>4, <2>5, Zenon
<1> QED BY <1>5, <1>6, <1>7, <1>8, Zenon DEF bpb, b, y

\* The device keeps the layout that the mount computed; without one it has answered
\* no call, and an error is the reason.
MountInv ==
    /\ disk \in Disks
    /\ fi \in {NotFat, FatInfo(bpb)}
    /\ pc \in Searching => fi # NotFat
    /\ pc = "ready" /\ fi = NotFat => failed

LEMMA StepMount ==
    ASSUME AllFormatted, MountInv, [Open \/ Release \/ Step]_vars
    PROVE  MountInv'
<1> USE DEF MountInv
<1>1. CASE MountFails
  BY <1>1 DEF MountFails, Refused, Searching, bpb
<1>2. CASE MountRefused \/ MountVersion
  <2>1. IsFat /\ (TypeOf(bpb) = 32 => bpb.FSVer = 0)
    BY MountAccepts
  <2> QED BY <1>2, <2>1 DEF MountRefused, MountVersion
<1>3. CASE Mount
  <2>1. /\ disk' = disk /\ fi' = FatInfo(bpb) /\ pc' = "ready"
    BY <1>3 DEF Mount
  <2>2. FatInfo(bpb)' = FatInfo(bpb)
    BY <2>1, Zenon DEF bpb
  <2> QED BY <2>1, <2>2, MountedIsFat DEF Searching
<1>4. CASE Release
  BY <1>4 DEF Release, Searching, bpb
<1>5. CASE UNCHANGED <<disk, fi>> /\ (fi # NotFat \/ UNCHANGED <<pc, failed>>)
  BY <1>5 DEF Searching, bpb
<1>6. CASE \/ FindFails \/ FindInvalid \/ Find \/ ReadCluster \/ EndOfChain \/ ReadFails
           \/ ScanStops \/ ScanDeleted \/ ScanLong \/ ScanShort \/ ScanFound \/ ScanNext
           \/ Descend \/ Opened \/ OpenedNoMemory \/ Unexpected
  <2>1. UNCHANGED <<disk, fi>> /\ pc \in Searching
    BY <1>6 DEF FindFails, FindInvalid, Find, ReadCluster, EndOfChain, ReadFails, ScanStops,
                ScanDeleted, ScanLong, ScanShort, ScanFound, ScanNext, Descend, Opened,
                OpenedNoMemory, Unexpected, ReturnNone, NextEntry, Searching
  <2> QED BY <1>5, <2>1
<1>7. CASE Open
  <2>1. UNCHANGED <<disk, fi>> /\ fi # NotFat
    BY <1>7 DEF Open, OpenRelative, OpenFile
  <2> QED BY <1>5, <2>1
<1>8. CASE UNCHANGED vars
  BY <1>5, <1>8 DEF vars
<1> QED BY <1>1, <1>2, <1>3, <1>4, <1>6, <1>7, <1>8 DEF Step

\* If the devices are volumes formatted by the rules of the file system, of any type
\* and size, with any number of tables, of entries in the root directory and of
\* sectors left over: a mount finds type, tables, root directory and data where they
\* are, and refuses none of them unless memory or the drive fails (fat.c 785-936).
THEOREM MountedAsFormattedHolds == AllFormatted => (Spec => []MountedAsFormatted)
<1> SUFFICES ASSUME AllFormatted PROVE Spec => []MountedAsFormatted
  OBVIOUS
<1>1. Init => MountInv
  BY DEF Init, MountInv, Searching
<1>2. MountInv /\ [Open \/ Release \/ Step]_vars => MountInv'
  BY StepMount
<1>3. MountInv => MountedAsFormatted
  BY MountAccepts DEF MountInv, MountedAsFormatted
<1> QED BY <1>1, <1>2, <1>3, PTL DEF Spec
=============================================================================
