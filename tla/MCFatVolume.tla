---------------------------- MODULE MCFatVolume ----------------------------
(* Instances of FatVolume for TLC: short names of 2 + 1 characters, fragments of *)
(* two, two directory entries in a sector of 512 bytes.                          *)
EXTENDS FatVolume

EndMark == [kind |-> "end"]
Deleted == [kind |-> "deleted"]

Short(name, attr, c) ==
    [kind |-> "short", name |-> name, attr |-> attr, hi |-> c \div 65536, lo |-> c % 65536]

\* The fragments of a long name: a zero ends it, 0xFF fills the rest.
Frag(name, k) ==
    [j \in 1 .. FragLen |->
        LET p == (k - 1) * FragLen + j
        IN IF p <= Len(name) THEN name[p] ELSE IF p = Len(name) + 1 THEN 0 ELSE 255]

Fragment(name, k, n, chk) ==
    [kind |-> "long", ord |-> k, last |-> k = n, chk |-> chk, frag |-> Frag(name, k),
     valid |-> TRUE]

LongSet(name, short) ==
    LET n == (Len(name) + FragLen - 1) \div FragLen
    IN [k \in 1 .. n |-> Fragment(name, n + 1 - k, n, CheckSum(short))]

\* A volume: its type, sectors per cluster, entries of the root area, clusters, and
\* its directories as chains (<<0>> is the root area) and lists of entries.
Layout(type, spc, rootEnt, n) ==
    LET rsvd  == IF type = 32 THEN 32 ELSE 1
        fatSz == ((n + 2) * (type \div 4) + 1023) \div 1024
        root  == rsvd + 2 * fatSz
        data  == root + (rootEnt + 1) \div 2
    IN [FatType |-> type, FatStart |-> rsvd, RootDirStart |-> root, DataStart |-> data,
        BytsPerClus |-> 512 * spc, RootClus |-> IF type = 32 THEN 2 ELSE 0,
        size |-> fatSz, tot |-> data + n * spc + spc - 1]

Bpb(type, spc, rootEnt, n) ==
    LET y   == Layout(type, spc, rootEnt, n)
        w16 == type # 32 /\ y.tot < 65536
    IN [BytsPerSec |-> 512, SecPerClus |-> spc, RsvdSecCnt |-> y.FatStart, NumFATs |-> 2,
        RootEntCnt |-> rootEnt, Media |-> 248, FSVer |-> 0, RootClus |-> y.RootClus,
        TotSec16 |-> IF w16 THEN y.tot ELSE 0, TotSec32 |-> IF w16 THEN 0 ELSE y.tot,
        FATSz16 |-> IF type = 32 THEN 0 ELSE y.size,
        FATSz32 |-> IF type = 32 THEN y.size ELSE 0]

Stale == Short(<<90, 90, 32>>, {}, 99)

\* Entry k of a directory on the disk: the list, end marks, and beyond the entries
\* of the root area whatever was there.
OnDisk(d, rootEnt, k) ==
    IF d.chain = <<0>> /\ k > rootEnt THEN Stale
    ELSE IF k <= Len(d.list) THEN d.list[k] ELSE EndMark

Disk(type, spc, rootEnt, n, dirs) ==
    LET y == Layout(type, spc, rootEnt, n)
        \* The sectors of a directory, in order.
        Sectors(d) ==
            IF d.chain = <<0>> THEN [s \in 1 .. y.DataStart - y.RootDirStart |-> y.RootDirStart + s - 1]
            ELSE [s \in 1 .. Len(d.chain) * spc |->
                    y.DataStart + (d.chain[((s - 1) \div spc) + 1] - 2) * spc + ((s - 1) % spc)]
        all == UNION {Range(Sectors(d)) : d \in dirs}
        Content(sec) ==
            LET d == CHOOSE x \in dirs : sec \in Range(Sectors(x))
                s == CHOOSE j \in DOMAIN Sectors(d) : Sectors(d)[j] = sec
            IN <<OnDisk(d, rootEnt, 2 * s - 1), OnDisk(d, rootEnt, 2 * s)>>
    IN [bpb |-> Bpb(type, spc, rootEnt, n), nBytesPerSector |-> 512, nSectors |-> y.tot,
        sectors |-> [sec \in all |-> Content(sec)], stale |-> <<Stale, Stale>>,
        links |-> Links(type, {d.chain : d \in dirs} \ {<<0>>}, LastCluster),
        layout |-> y,
        dirs |-> [c \in {d.chain[1] : d \in dirs} |->
                    (CHOOSE d \in dirs : d.chain[1] = c).list]]

----------------------------------------------------------------------------
(* Directories *)

LongName == <<97, 43, 98, 99, 100>>         \* "a+bcd": three fragments
EvenName == <<97, 43, 98, 46>>              \* "a+b.": two, without a terminator
FiveName == <<101, 49, 50, 51, 52, 53, 54, 55, 56, 57>>     \* "e123456789"
SixName == <<102, 49, 50, 51, 52, 53, 54, 55, 56, 57, 48>>  \* "f1234567890"
LongFile(name, short, c) == LongSet(name, short) \o <<Short(short, {}, c)>>

Alias == <<65, 126, 32>>                    \* "A~"
FileABC == Short(<<65, 66, 67>>, {}, 4)     \* "AB.C"
FileB == Short(<<66, 32, 32>>, {}, 6)       \* "B"
DirD(c) == Short(<<68, 32, 32>>, {"dir"}, c)    \* "D"
Label == Short(<<76, 32, 32>>, {"vol"}, 0)      \* "L"
DotDirs == <<Short(<<46, 32, 32>>, {"dir"}, 5), Short(<<46, 46, 32>>, {"dir"}, 0)>>

\* A single fragment, and the first of two, whose files are gone.
Orphan == Fragment(<<122>>, 1, 1, 1)
Half == Fragment(LongName, 2, 2, CheckSum(<<66, 32, 32>>))
\* The fifth of six, without the others.
Fifth == Fragment(SixName, 5, 6, CheckSum(Alias))

RootList(c) ==
    <<Label, Deleted>> \o LongFile(LongName, Alias, 65537) \o <<DirD(c), FileABC>>

SubList ==
    DotDirs \o <<Orphan, FileB>> \o LongFile(EvenName, Alias, 7)
            \o <<Half, Short(<<66, 32, 67>>, {}, 9), FileABC>>

Dir(chain, list) == [chain |-> chain, list |-> list]

\* The root area is full to its last entry, which is the first of its sector; the
\* chains of subdirectories go forward and backward.
Volumes ==
    {Disk(12, 1, 9, 4084, {Dir(<<0>>, RootList(5) \o <<FileB>>), Dir(<<5, 3, 4, 8, 9>>, SubList)}),
     Disk(16, 2, 15, 4085, {Dir(<<0>>, RootList(3) \o <<Fifth>> \o LongFile(FiveName, Alias, 8)),
                           Dir(<<3, 6, 5>>, SubList)}),
     Disk(16, 1, 8, 65524, {Dir(<<0>>, RootList(3)), Dir(<<3, 7, 4, 6, 8>>, SubList)}),
     Disk(32, 1, 0, 65525, {Dir(<<2, 7, 3, 4>>, RootList(5)), Dir(<<5, 6, 10, 9, 8>>, SubList)})}

\* Boot sectors that are none of a FAT volume, each for another reason.
Other(field, v) ==
    LET d == CHOOSE x \in Volumes : x.layout.FatType = 12
    IN [d EXCEPT !.bpb[field] = v, !.layout = NotFat]

Other32(field, v) ==
    LET d == CHOOSE x \in Volumes : x.layout.FatType = 32
    IN [d EXCEPT !.bpb[field] = v, !.layout = NotFat]

NoVolumes ==
    {Other("BytsPerSec", 0), Other("SecPerClus", 3), Other("SecPerClus", 128),
     Other("RsvdSecCnt", 0), Other("RsvdSecCnt", 2), Other("Media", 241),
     Other("FATSz16", 0), Other("TotSec16", 0), Other32("TotSec16", 5),
     Other32("FATSz32", 0), Other32("FSVer", 1),
     [Other("TotSec16", 0) EXCEPT !.bpb.TotSec32 = 70000, !.bpb.FSVer = 17]}

SmallDisks == Volumes \cup NoVolumes

P(parts) == [abs |-> TRUE, parts |-> parts]

SmallPaths ==
    {P(<<LongName>>),                               \* in the root directory
     P(<<FiveName>>),
     P(<<<<65, 43, 66, 67, 68>>>>),                 \* the same in capitals
     P(<<<<97, 98, 46, 99>>>>),                     \* "ab.c"
     P(<<<<100>>, <<65, 66, 46, 67, 32>>>>),        \* "d/AB.C "
     P(<<<<68>>, <<97, 43, 98>>>>),                 \* "D/a+b"
     P(<<<<68>>, <<97, 43, 98, 46>>>>),             \* "D/a+b."
     P(<<<<68>>, <<98>>>>), P(<<<<98>>>>),          \* "D/b", "b"
     P(<<<<68>>, <<98, 46, 99>>>>),                 \* "D/b.c"
     P(<<<<68>>>>), P(<<<<97, 98, 46, 99>>, <<98>>>>),  \* "D", "ab.c/b"
     P(<<<<108>>>>), P(<<<<122, 122>>>>),           \* "l", "zz"
     P(<<<<97, 42>>>>), P(<<<< >>>>),               \* "a*", ""
     [abs |-> FALSE, parts |-> <<<<98>>>>]}

----------------------------------------------------------------------------
(* Further instances *)

\* A complete set of fragments without its file, then a file with a long name.
OrphanDisks ==
    {Disk(12, 1, 8, 100, {Dir(<<0>>, LongSet(EvenName, <<90, 32, 32>>)
                                        \o LongFile(LongName, Alias, 4))})}

\* A file whose long name takes six fragments.
SixDisks == {Disk(16, 2, 8, 4085, {Dir(<<0>>, LongFile(SixName, Alias, 4))})}

\* The chain of a subdirectory leads back to its first cluster.
LoopDisks ==
    {[Disk(16, 1, 8, 5000, {Dir(<<0>>, RootList(3)), Dir(<<3, 7>>, SubList)})
        EXCEPT !.links[7] = 3]}

OverlongPaths == {P(<<<<97, 98, 46, 99, 100>>>>)}   \* "ab.cd"
SpacePaths == {P(<<<<32, 98>>>>)}               \* " b"
SixPaths == {P(<<SixName>>)}
LoopPaths == {P(<<<<68>>, <<122>>>>)}           \* "D/z"
=============================================================================
