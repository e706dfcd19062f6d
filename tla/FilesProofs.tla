---------------------------- MODULE FilesProofs ----------------------------
(***************************************************************************)
(* Proofs about open files for every size of clusters and sectors, every   *)
(* volume, every chain of clusters and every sequence of calls: a file on  *)
(* a FAT volume and a device opened as a file implement ByteFile, and the  *)
(* cluster of a FILE is the one its cursor is in.                          *)
(***************************************************************************)
EXTENDS Files, WellFoundedInduction, TLAPS

\* Where a number that is no cluster would have its entry lies an end mark.
GarbageEnds == \A g \in GarbageNext : g >= EndCluster(32)

\* The numbers of the first clusters fit DIR_FstClusLO.
FirstFits == \A v \in Volumes : FirstCluster(v) < Word

----------------------------------------------------------------------------
(* Arithmetic *)

LEMMA Multiple ==
    ASSUME NEW m \in Nat \ {0}, NEW k \in Int, NEW x \in Int, x = m * k, - m < x, x < m
    PROVE  k = 0
<1>1. CASE k >= 1
  <2>1. m * k >= m
    BY <1>1
  <2> QED BY <2>1
<1>2. CASE k <= -1
  <2>1. m * k <= - m
    BY <1>2
  <2> QED BY <2>1
<1> QED BY <1>1, <1>2

LEMMA DivMod ==
    ASSUME NEW n \in Nat, NEW m \in Nat \ {0}
    PROVE  n \div m \in Nat /\ n % m \in 0 .. m - 1 /\ n = (n \div m) * m + (n % m)
OBVIOUS

\* Quotient and remainder are unique.
LEMMA DivUnique ==
    ASSUME NEW m \in Nat \ {0}, NEW a \in Nat, NEW z \in 0 .. m - 1,
           NEW n, n = a * m + z
    PROVE  n \div m = a /\ n % m = z
<1> DEFINE d == n \div m
           r == n % m
<1>1. n \in Nat /\ d \in Int /\ r \in 0 .. m - 1 /\ n = m * d + r
  OBVIOUS
<1> HIDE DEF d, r
<1>2. m * (d - a) = z - r
  BY <1>1
<1>3. d - a = 0
  BY <1>1, <1>2, Multiple
<1>4. d = a
  BY <1>1, <1>3
<1> QED BY <1>1, <1>4 DEF d, r

LEMMA SmallMod ==
    ASSUME NEW m \in Nat \ {0}, NEW n \in Nat, n < m
    PROVE  n % m = n
<1>1. n = 0 * m + n /\ n \in 0 .. m - 1
  OBVIOUS
<1> QED BY <1>1, DivUnique

\* Moving on from a place: whole units and what is left of them.
LEMMA DivSum ==
    ASSUME NEW m \in Nat \ {0}, NEW n \in Nat, NEW j \in Nat
    PROVE  /\ (n + j) \div m = n \div m + ((n % m) + j) \div m
           /\ (n + j) % m = ((n % m) + j) % m
<1> DEFINE q == n \div m
           r == n % m
           p == (r + j) \div m
           s == (r + j) % m
<1>1. q \in Nat /\ r \in 0 .. m - 1 /\ n = q * m + r
  BY DivMod
<1> HIDE DEF q, r
<1>2. r + j \in Nat
  BY <1>1
<1>3. p \in Nat /\ s \in 0 .. m - 1 /\ r + j = p * m + s
  BY <1>2, DivMod
<1> HIDE DEF p, s
<1>4. n + j = (q + p) * m + s /\ q + p \in Nat
  BY <1>1, <1>3
<1>5. (n + j) \div m = q + p /\ (n + j) % m = s
  <2> DEFINE t == n + j
  <2>1. t = (q + p) * m + s
    BY <1>4
  <2> HIDE DEF t
  <2>2. t \div m = q + p /\ t % m = s
    BY <1>3, <1>4, <2>1, DivUnique
  <2> QED BY <2>2 DEF t
<1> QED BY <1>5 DEF q, r, p, s

\* A nonempty set of naturals has a least element.
LEMMA LeastIs ==
    ASSUME NEW S, S \subseteq Nat, S # {}
    PROVE  \E x \in S : \A y \in S : x <= y
<1> DEFINE R == OpToRel(<, Nat)
<1>1. PICK x \in S : \A y \in S : ~(<<y, x>> \in R)
  BY NatLessThanWellFounded, WFMin
<1>2. \A y \in S : x <= y
  <2> SUFFICES ASSUME NEW y \in S, y < x PROVE FALSE
    OBVIOUS
  <2>1. <<y, x>> \in R
    BY Zenon DEF OpToRel
  <2> QED BY <2>1, <1>1
<1> QED BY <1>2

----------------------------------------------------------------------------
(* The file allocation table *)

\* The numbers that an entry of the table can hold.
Range16(type) == IF type = 12 THEN 4096 ELSE IF type = 16 THEN 65536 ELSE 4294967296

IsTable(type, entry) ==
    /\ type \in FatTypes
    /\ DOMAIN entry = 0 .. LastCluster
    /\ \A c \in 0 .. LastCluster : entry[c] \in Nat /\ entry[c] < Range16(type)

\* The nibbles of an entry are where the format prescribes.
LEMMA NibbleIs ==
    ASSUME NEW type, NEW entry, IsTable(type, entry), NEW c \in 0 .. LastCluster,
           NEW j \in 0 .. Nibbles(type) - 1
    PROVE  NibbleAt(type, entry, Nibbles(type) * c + j) = Nibble(entry[c], j)
<1> DEFINE w == Nibbles(type)
           n == w * c + j
<1>1. c \in Nat /\ w \in {3, 4, 8}
  BY TableAssumption DEF Nibbles, IsTable, FatTypes
<1>2. n \div w = c /\ n % w = j
  <2>1. CASE w = 3
    BY <1>1, <2>1
  <2>2. CASE w = 4
    BY <1>1, <2>2
  <2>3. CASE w = 8
    BY <1>1, <2>3
  <2> QED BY <1>1, <2>1, <2>2, <2>3
<1> HIDE DEF n
<1>3. NibbleAt(type, entry, n) = Nibble(entry[c], j)
  BY <1>2 DEF NibbleAt, IsTable
<1> QED BY <1>3 DEF n

LEMMA NibbleType ==
    ASSUME NEW x \in Nat, NEW k \in 0 .. 7
    PROVE  Nibble(x, k) \in 0 .. 15
BY DEF Nibble

\* A nibble of the table is one, wherever it is.
LEMMA NibbleAtType ==
    ASSUME NEW type, NEW entry, IsTable(type, entry), NEW n \in Nat
    PROVE  NibbleAt(type, entry, n) \in 0 .. 15
<1> DEFINE w == Nibbles(type)
           c == n \div w
<1>1. CASE c \notin DOMAIN entry
  BY <1>1 DEF NibbleAt
<1>2. CASE c \in DOMAIN entry
  <2>1. w \in {3, 4, 8}
    BY DEF Nibbles, IsTable, FatTypes
  <2>2. entry[c] \in Nat
    BY <1>2 DEF IsTable, Range16
  <2>3. n % w \in 0 .. 7
    BY <2>1
  <2>4. NibbleAt(type, entry, n) = Nibble(entry[c], n % w)
    BY <1>2 DEF NibbleAt
  <2> HIDE DEF c, w
  <2> QED BY <2>2, <2>3, <2>4, NibbleType
<1> QED BY <1>1, <1>2

LEMMA SectorSize == FatSecSize \in Nat \ {0} /\ \E f \in Nat \ {0} : FatSecSize = 4 * f
<1>1. FatSecSize \in Nat \ {0} /\ FatSecSize % 4 = 0
  BY TableAssumption
<1>2. FatSecSize = 4 * (FatSecSize \div 4) /\ FatSecSize \div 4 \in Nat \ {0}
  BY <1>1
<1> QED BY <1>1, <1>2

\* The sector and the place in it of a byte of the table.
LEMMA Located ==
    ASSUME NEW pos \in Nat
    PROVE  /\ pos \div FatSecSize \in Nat /\ pos % FatSecSize \in 0 .. FatSecSize - 1
           /\ pos = (pos \div FatSecSize) * FatSecSize + (pos % FatSecSize)
BY TableAssumption, DivMod

\* A byte of a sector of the table.
LEMMA SectorByte ==
    ASSUME NEW type, NEW entry, NEW s \in Nat, NEW k \in 0 .. FatSecSize - 1
    PROVE  FatSector(type, entry, s)[k] = Encoded(type, entry, s * FatSecSize + k)
BY DEF FatSector

\* Two bytes that a cluster's position leads to.
LEMMA WordIs ==
    ASSUME NEW type, NEW entry, NEW pos \in Nat, (pos % FatSecSize) + 1 < FatSecSize
    PROVE  UShort(FatSector(type, entry, pos \div FatSecSize), pos % FatSecSize)
             = Encoded(type, entry, pos) + 256 * Encoded(type, entry, pos + 1)
<1> USE TableAssumption
<1> DEFINE s == pos \div FatSecSize
           o == pos % FatSecSize
<1>1. s \in Nat /\ o \in 0 .. FatSecSize - 1 /\ pos = s * FatSecSize + o
  BY DivMod
<1>2. o + 1 \in 0 .. FatSecSize - 1
  BY <1>1
<1> HIDE DEF s, o
<1>3. FatSector(type, entry, s)[o] = Encoded(type, entry, pos)
  BY <1>1, SectorByte
<1>4. FatSector(type, entry, s)[o + 1] = Encoded(type, entry, pos + 1)
  <2>1. s * FatSecSize + (o + 1) = pos + 1
    BY <1>1
  <2> QED BY <1>1, <1>2, <2>1, SectorByte
<1> QED BY <1>3, <1>4 DEF UShort, s, o

\* A number of four, three or eight nibbles is put together from them.
LEMMA FromNibbles ==
    ASSUME NEW x \in Nat
    PROVE  /\ x < 65536 => Nibble(x, 0) + 16 * Nibble(x, 1) + 256 * (Nibble(x, 2) + 16 * Nibble(x, 3)) = x
           /\ x < 4096 => Nibble(x, 0) + 16 * Nibble(x, 1) + 256 * Nibble(x, 2) = x
BY SMTT(60) DEF Nibble

LEMMA FromEight ==
    ASSUME NEW x \in Nat, x < 4294967296
    PROVE  Nibble(x, 0) + 16 * Nibble(x, 1) + 256 * (Nibble(x, 2) + 16 * Nibble(x, 3))
             + 65536 * (Nibble(x, 4) + 16 * Nibble(x, 5)
                          + 256 * (Nibble(x, 6) + 16 * Nibble(x, 7))) = x
<1> DEFINE lo == x % 65536
           hi == x \div 65536
<1>1. lo \in Nat /\ lo < 65536 /\ hi \in Nat /\ hi < 65536 /\ x = lo + 65536 * hi
  BY SMTT(60)
<1>2. /\ Nibble(x, 0) = Nibble(lo, 0) /\ Nibble(x, 1) = Nibble(lo, 1)
      /\ Nibble(x, 2) = Nibble(lo, 2) /\ Nibble(x, 3) = Nibble(lo, 3)
  BY SMTT(60) DEF Nibble
<1>3. /\ Nibble(x, 4) = Nibble(hi, 0) /\ Nibble(x, 5) = Nibble(hi, 1)
      /\ Nibble(x, 6) = Nibble(hi, 2) /\ Nibble(x, 7) = Nibble(hi, 3)
  BY SMTT(60) DEF Nibble
<1> HIDE DEF lo, hi
<1> QED BY <1>1, <1>2, <1>3, FromNibbles

\* Two bytes of a table of 16-bit entries are one entry, four of 32-bit entries.
LEMMA Decoded16 ==
    ASSUME NEW entry, IsTable(16, entry), NEW c \in 0 .. LastCluster
    PROVE  Decoded(16, entry, c) = entry[c]
<1> DEFINE pos == 2 * c
           e == entry[c]
<1>1. c \in Nat /\ pos \in Nat /\ e \in Nat /\ e < 65536 /\ Nibbles(16) = 4
  BY TableAssumption DEF IsTable, Range16, Nibbles
<1>2. (pos % FatSecSize) + 1 < FatSecSize
  <2>1. PICK f \in Nat \ {0} : FatSecSize = 4 * f
    BY SectorSize
  <2> DEFINE o == pos % FatSecSize
             s == pos \div FatSecSize
  <2>2. s \in Nat /\ o \in 0 .. FatSecSize - 1 /\ pos = s * FatSecSize + o
    <3>1. pos \in Nat
      BY <1>1
    <3> HIDE DEF pos
    <3> QED BY <3>1, Located
  <2> HIDE DEF o, s
  <2>3. o = 2 * (c - s * f * 2)
    BY <2>1, <2>2
  <2>4. c - s * f * 2 \in Int
    BY <1>1, <2>1, <2>2
  <2>5. o + 1 < FatSecSize
    BY <2>1, <2>2, <2>3, <2>4
  <2> QED BY <2>5 DEF o
<1>3. Decoded(16, entry, c) = Encoded(16, entry, pos) + 256 * Encoded(16, entry, pos + 1)
  <2>1. Decoded(16, entry, c) = UShort(FatSector(16, entry, pos \div FatSecSize), pos % FatSecSize)
    BY DEF Decoded, Position
  <2> QED BY <1>1, <1>2, <2>1, WordIs
<1>4. /\ 2 * pos = 4 * c + 0 /\ 2 * pos + 1 = 4 * c + 1
      /\ 2 * (pos + 1) = 4 * c + 2 /\ 2 * (pos + 1) + 1 = 4 * c + 3
  BY <1>1
<1>5. \A j \in 0 .. 3 : NibbleAt(16, entry, 4 * c + j) = Nibble(e, j)
  BY <1>1, NibbleIs
<1>6. /\ Encoded(16, entry, pos) = Nibble(e, 0) + 16 * Nibble(e, 1)
      /\ Encoded(16, entry, pos + 1) = Nibble(e, 2) + 16 * Nibble(e, 3)
  BY <1>4, <1>5 DEF Encoded
<1> HIDE DEF pos, e
<1>7. Decoded(16, entry, c) = e
  BY <1>1, <1>3, <1>6, FromNibbles
<1> QED BY <1>7 DEF e

LEMMA Decoded32 ==
    ASSUME NEW entry, IsTable(32, entry), NEW c \in 0 .. LastCluster
    PROVE  Decoded(32, entry, c) = entry[c]
<1> DEFINE pos == 4 * c
           o == pos % FatSecSize
           s == pos \div FatSecSize
           e == entry[c]
<1>1. c \in Nat /\ pos \in Nat /\ e \in Nat /\ e < 4294967296 /\ Nibbles(32) = 8
  BY TableAssumption DEF IsTable, Range16, Nibbles
<1>2. s \in Nat /\ o \in 0 .. FatSecSize - 4 /\ pos = s * FatSecSize + o
  <2>1. PICK f \in Nat \ {0} : FatSecSize = 4 * f
    BY SectorSize
  <2>2. s \in Nat /\ o \in 0 .. FatSecSize - 1 /\ pos = s * FatSecSize + o
    <3>1. pos \in Nat
      BY <1>1
    <3> HIDE DEF pos
    <3> QED BY <3>1, Located
  <2> HIDE DEF o, s
  <2>3. o = 4 * (c - s * f)
    BY <2>1, <2>2
  <2>4. c - s * f \in Int
    BY <1>1, <2>1, <2>2
  <2> QED BY <2>1, <2>2, <2>3, <2>4
<1>3. \A k \in 0 .. 3 : FatSector(32, entry, s)[o + k] = Encoded(32, entry, pos + k)
  <2> SUFFICES ASSUME NEW k \in 0 .. 3
               PROVE  FatSector(32, entry, s)[o + k] = Encoded(32, entry, pos + k)
    OBVIOUS
  <2> HIDE DEF pos, o, s
  <2>1. o + k \in 0 .. FatSecSize - 1 /\ s * FatSecSize + (o + k) = pos + k
    BY <1>2, TableAssumption
  <2> QED BY <1>2, <2>1, SectorByte
<1>4. Decoded(32, entry, c) = UShort(FatSector(32, entry, s), o) + 65536 * UShort(FatSector(32, entry, s), o + 2)
  BY DEF Decoded, Position
<1>5. /\ UShort(FatSector(32, entry, s), o) = Encoded(32, entry, pos + 0) + 256 * Encoded(32, entry, pos + 1)
      /\ UShort(FatSector(32, entry, s), o + 2) = Encoded(32, entry, pos + 2) + 256 * Encoded(32, entry, pos + 3)
  <2>1. o + 0 = o /\ (o + 2) + 1 = o + 3
    BY <1>2, TableAssumption
  <2> HIDE DEF pos, o, s
  <2> QED BY <1>3, <2>1 DEF UShort
<1>6. \A j \in 0 .. 7 : NibbleAt(32, entry, 8 * c + j) = Nibble(e, j)
  BY <1>1, NibbleIs
<1>7. /\ Encoded(32, entry, pos + 0) = Nibble(e, 0) + 16 * Nibble(e, 1)
      /\ Encoded(32, entry, pos + 1) = Nibble(e, 2) + 16 * Nibble(e, 3)
      /\ Encoded(32, entry, pos + 2) = Nibble(e, 4) + 16 * Nibble(e, 5)
      /\ Encoded(32, entry, pos + 3) = Nibble(e, 6) + 16 * Nibble(e, 7)
  <2>1. /\ 2 * (pos + 0) = 8 * c + 0 /\ 2 * (pos + 0) + 1 = 8 * c + 1
        /\ 2 * (pos + 1) = 8 * c + 2 /\ 2 * (pos + 1) + 1 = 8 * c + 3
        /\ 2 * (pos + 2) = 8 * c + 4 /\ 2 * (pos + 2) + 1 = 8 * c + 5
        /\ 2 * (pos + 3) = 8 * c + 6 /\ 2 * (pos + 3) + 1 = 8 * c + 7
    BY <1>1
  <2> QED BY <1>6, <2>1 DEF Encoded
<1> HIDE DEF pos, o, s, e
<1>8. Decoded(32, entry, c) = e
  BY <1>1, <1>4, <1>5, <1>7, FromEight
<1> QED BY <1>8 DEF e

\* Three nibbles, at an even or an odd place, perhaps in two sectors.
LEMMA Decoded12 ==
    ASSUME NEW entry, IsTable(12, entry), NEW c \in 0 .. LastCluster
    PROVE  Decoded(12, entry, c) = entry[c]
<1> DEFINE pos == c + (c \div 2)
           o == pos % FatSecSize
           s == pos \div FatSecSize
           e == entry[c]
           word == Encoded(12, entry, pos) + 256 * Encoded(12, entry, pos + 1)
<1>1. c \in Nat /\ pos \in Nat /\ e \in Nat /\ e < 4096 /\ Nibbles(12) = 3
  BY TableAssumption DEF IsTable, Range16, Nibbles
<1>2. s \in Nat /\ o \in 0 .. FatSecSize - 1 /\ pos = s * FatSecSize + o
  <2>1. pos \in Nat
    BY <1>1
  <2> HIDE DEF pos
  <2> QED BY <2>1, Located
<1>3. Decoded(12, entry, c) = Twelve(c, word)
  <2>1. Spans(12, c) <=> o = FatSecSize - 1
    BY DEF Spans, Position
  <2>2. CASE o = FatSecSize - 1
    <3>1. Decoded(12, entry, c) = Twelve(c, FatSector(12, entry, s)[o] + 256 * FatSector(12, entry, s + 1)[0])
      BY <2>1, <2>2 DEF Decoded, Position
    <3> HIDE DEF pos, o, s
    <3>2. FatSector(12, entry, s)[o] = Encoded(12, entry, pos)
      BY <1>2, SectorByte
    <3>3. FatSector(12, entry, s + 1)[0] = Encoded(12, entry, pos + 1)
      <4>1. (s + 1) * FatSecSize + 0 = pos + 1 /\ 0 \in 0 .. FatSecSize - 1 /\ s + 1 \in Nat
        BY <1>2, <2>2, TableAssumption
      <4> QED BY <4>1, SectorByte
    <3> QED BY <3>1, <3>2, <3>3
  <2>3. CASE o # FatSecSize - 1
    <3>1. Decoded(12, entry, c) = Twelve(c, UShort(FatSector(12, entry, s), o))
      BY <2>1, <2>3 DEF Decoded, Position
    <3>2. o + 1 < FatSecSize
      <4> HIDE DEF o
      <4> QED BY <1>2, <2>3, TableAssumption
    <3>3. UShort(FatSector(12, entry, s), o) = word
      <4> HIDE DEF pos
      <4> QED BY <1>1, <3>2, WordIs
    <3> QED BY <3>1, <3>3
  <2> QED BY <2>2, <2>3
<1>4. \A j \in 0 .. 2 : NibbleAt(12, entry, 3 * c + j) = Nibble(e, j)
  BY <1>1, NibbleIs
<1>5. Nibble(e, 0) + 16 * Nibble(e, 1) + 256 * Nibble(e, 2) = e
  BY <1>1, FromNibbles
<1>6. CASE c % 2 = 0
  <2>1. /\ 2 * pos = 3 * c + 0 /\ 2 * pos + 1 = 3 * c + 1
        /\ 2 * (pos + 1) = 3 * c + 2 /\ 2 * (pos + 1) + 1 = 3 * c + 3 /\ 3 * c + 3 \in Nat
    BY <1>1, <1>6
  <2> DEFINE last == NibbleAt(12, entry, 3 * c + 3)
  <2>2. last \in 0 .. 15
    BY <2>1, NibbleAtType
  <2>3. word = Nibble(e, 0) + 16 * Nibble(e, 1) + 256 * (Nibble(e, 2) + 16 * last)
    BY <1>4, <2>1 DEF Encoded
  <2>4. word = e + 4096 * last
    <3>1. \A j \in 0 .. 7 : Nibble(e, j) \in 0 .. 15
      BY <1>1, NibbleType
    <3> HIDE DEF word, last, e
    <3> QED BY <3>1, <1>5, <2>2, <2>3
  <2> HIDE DEF word, last, e
  <2>5. word % 4096 = e
    BY <1>1, <2>2, <2>4
  <2> QED BY <1>3, <1>6, <2>5 DEF Twelve, e
<1>7. CASE c % 2 = 1
  <2>1. /\ 2 * pos = 3 * c - 1 /\ 2 * pos + 1 = 3 * c + 0 /\ 3 * c - 1 \in Nat
        /\ 2 * (pos + 1) = 3 * c + 1 /\ 2 * (pos + 1) + 1 = 3 * c + 2
    BY <1>1, <1>7
  <2> DEFINE first == NibbleAt(12, entry, 3 * c - 1)
  <2>2. first \in 0 .. 15
    BY <2>1, NibbleAtType
  <2>3. word = first + 16 * Nibble(e, 0) + 256 * (Nibble(e, 1) + 16 * Nibble(e, 2))
    BY <1>4, <2>1 DEF Encoded
  <2>4. word = first + 16 * e
    <3>1. \A j \in 0 .. 7 : Nibble(e, j) \in 0 .. 15
      BY <1>1, NibbleType
    <3> HIDE DEF word, first, e
    <3> QED BY <3>1, <1>5, <2>2, <2>3
  <2> HIDE DEF word, first, e
  <2>5. word \div 16 = e
    BY <1>1, <2>2, <2>4
  <2> QED BY <1>3, <1>7, <2>5 DEF Twelve, e
<1> QED BY <1>1, <1>6, <1>7

\* GetNextCluster reads back what the format of the table says an entry is.
LEMMA DecodedIs ==
    ASSUME NEW type, NEW entry, IsTable(type, entry), NEW c \in 0 .. LastCluster
    PROVE  Decoded(type, entry, c) = entry[c]
<1>1. type \in {12, 16, 32}
  BY DEF IsTable, FatTypes
<1> QED BY <1>1, Decoded12, Decoded16, Decoded32

----------------------------------------------------------------------------
(* The chain of a file *)

Chain == vol.chain

LEMMA VolumeType ==
    ASSUME vol \in Volumes
    PROVE  /\ vol.type \in {12, 16, 32} /\ vol.size \in Nat
           /\ Chain \in Seq(2 .. LastCluster) /\ Len(Chain) \in Nat
           /\ DOMAIN Chain = 1 .. Len(Chain)
           /\ \A k \in 1 .. Len(Chain) :
                 /\ Chain[k] \in 2 .. LastCluster /\ Chain[k] \in Nat /\ Valid(Chain[k])
           /\ \A k, j \in 1 .. Len(Chain) : Chain[k] = Chain[j] => k = j
           /\ Len(Chain) = (vol.size + BytsPerClus - 1) \div BytsPerClus
<1>1. /\ vol.type \in {12, 16, 32} /\ vol.size \in Nat
      /\ Chain \in Seq(2 .. LastCluster)
      /\ \A k \in DOMAIN Chain : Chain[k] < EndCluster(vol.type)
      /\ \A k, j \in DOMAIN Chain : k # j => Chain[k] # Chain[j]
      /\ Len(Chain) = (vol.size + BytsPerClus - 1) \div BytsPerClus
  BY ParamAssumption DEF Chain, FatTypes
<1>2. Len(Chain) \in Nat /\ DOMAIN Chain = 1 .. Len(Chain)
  BY <1>1
<1>3. ASSUME NEW k \in 1 .. Len(Chain)
      PROVE  Chain[k] \in 2 .. LastCluster /\ Chain[k] \in Nat /\ Valid(Chain[k])
  <2>0. Chain \in Seq(2 .. LastCluster)
    BY <1>1
  <2>1. Chain[k] \in 2 .. LastCluster
    BY <2>0, TableAssumption
  <2>2. Chain[k] < EndCluster(vol.type)
    BY <1>1, <1>2
  <2> QED BY <2>1, <2>2, TableAssumption DEF Valid
<1> QED BY <1>1, <1>2, <1>3

LEMMA EndType ==
    ASSUME vol \in Volumes
    PROVE  /\ EndCluster(vol.type) \in Nat
           /\ vol.type = 12 => EndCluster(vol.type) = 4087
           /\ vol.type = 16 => EndCluster(vol.type) = 65527
           /\ vol.type = 32 => EndCluster(vol.type) = 268435447
           /\ EndCluster(vol.type) <= 268435447
           /\ EndCluster(32) \in Nat /\ EndCluster(vol.type) <= EndCluster(32)
BY VolumeType DEF EndCluster

\* The entry of a cluster of the chain leads to the next one, the last one's and
\* those of all others end it.
LEMMA LinkIs ==
    ASSUME vol \in Volumes, NEW c \in 0 .. LastCluster
    PROVE  LET link == Links(vol.type, {vol.chain}, LastCluster)[c]
           IN  /\ \A k \in 1 .. Len(Chain) :
                     Chain[k] = c => link = IF k < Len(Chain) THEN Chain[k + 1]
                                            ELSE EndCluster(vol.type) + 8
               /\ (\A k \in 1 .. Len(Chain) : Chain[k] # c) => link = EndCluster(vol.type)
<1> DEFINE link == Links(vol.type, {vol.chain}, LastCluster)[c]
           Next(k) == IF k < Len(Chain) THEN Chain[k + 1] ELSE EndCluster(vol.type) + 8
<1>0. DOMAIN Chain = 1 .. Len(Chain)
  BY VolumeType
<1>1. CASE \A k \in 1 .. Len(Chain) : Chain[k] # c
  <2>1. ~ \E ch \in {vol.chain} : \E k \in DOMAIN ch : ch[k] = c
    BY <1>0, <1>1 DEF Chain
  <2>2. link = EndCluster(vol.type)
    BY <2>1, Zenon DEF Links
  <2> QED BY <1>1, <2>2
<1>2. ASSUME NEW k \in 1 .. Len(Chain), Chain[k] = c
      PROVE  link = Next(k)
  <2>1. \E ch \in {vol.chain} : \E j \in DOMAIN ch : ch[j] = c
    BY <1>0, <1>2 DEF Chain
  <2>2. (CHOOSE x \in {vol.chain} : \E j \in DOMAIN x : x[j] = c) = Chain
    BY <2>1 DEF Chain
  <2>3. (CHOOSE j \in DOMAIN Chain : Chain[j] = c) = k
    BY <1>0, <1>2, VolumeType
  <2>4. link = LET ch == CHOOSE x \in {vol.chain} : \E j \in DOMAIN x : x[j] = c
                   j == CHOOSE j \in DOMAIN ch : ch[j] = c
               IN IF j < Len(ch) THEN ch[j + 1] ELSE EndCluster(vol.type) + 8
    BY <2>1, Zenon DEF Links
  <2> QED BY <2>2, <2>3, <2>4, Zenon
<1> QED BY <1>1, <1>2

LEMMA LinkType ==
    ASSUME vol \in Volumes, NEW c \in 0 .. LastCluster
    PROVE  LET link == Links(vol.type, {vol.chain}, LastCluster)[c]
           IN  link \in Nat /\ link <= EndCluster(vol.type) + 8
<1> DEFINE link == Links(vol.type, {vol.chain}, LastCluster)[c]
<1>1. CASE \A k \in 1 .. Len(Chain) : Chain[k] # c
  <2>1. link = EndCluster(vol.type)
    BY <1>1, LinkIs
  <2> QED BY <2>1, EndType
<1>2. CASE \E k \in 1 .. Len(Chain) : Chain[k] = c
  <2>1. PICK k \in 1 .. Len(Chain) : Chain[k] = c
    BY <1>2
  <2>2. link = IF k < Len(Chain) THEN Chain[k + 1] ELSE EndCluster(vol.type) + 8
    BY <2>1, LinkIs
  <2>3. CASE k < Len(Chain)
    <3>1. k + 1 \in 1 .. Len(Chain)
      BY <2>3, VolumeType
    <3>2. Chain[k + 1] \in Nat /\ Chain[k + 1] < EndCluster(vol.type)
      BY <3>1, VolumeType DEF Valid
    <3> QED BY <2>2, <2>3, <3>2, EndType
  <2>4. CASE ~(k < Len(Chain))
    BY <2>2, <2>4, EndType
  <2> QED BY <2>3, <2>4
<1> QED BY <1>1, <1>2

\* What the entries of FAT32 hold beyond the number of a cluster.
Extra == IF vol.type = 32 THEN Reserved * 268435456 ELSE 0

LEMMA ExtraIs == Reserved * 16 ^ 7 = Reserved * 268435456
<1>1. 16 ^ 7 = 268435456
  OBVIOUS
<1> QED BY <1>1

LEMMA TableIs ==
    ASSUME vol \in Volumes
    PROVE  /\ IsTable(vol.type, Table)
           /\ \A c \in 0 .. LastCluster :
                 Table[c] = Links(vol.type, {vol.chain}, LastCluster)[c] + Extra
<1>1. \A c \in 0 .. LastCluster :
         Table[c] = Links(vol.type, {vol.chain}, LastCluster)[c] + Extra
  BY ExtraIs DEF Table, Extra
<1>2. DOMAIN Table = 0 .. LastCluster
  BY DEF Table
<1>3. Reserved \in Nat /\ Reserved <= 6
  BY ParamAssumption
<1>4. ASSUME NEW c \in 0 .. LastCluster
      PROVE  Table[c] \in Nat /\ Table[c] < Range16(vol.type)
  <2> DEFINE link == Links(vol.type, {vol.chain}, LastCluster)[c]
  <2>1. link \in Nat /\ link <= EndCluster(vol.type) + 8 /\ Table[c] = link + Extra
    BY <1>1, LinkType
  <2> HIDE DEF link
  <2> QED BY <2>1, <1>3, EndType, VolumeType DEF Extra, Range16
<1> QED BY <1>1, <1>2, <1>4, VolumeType DEF IsTable, FatTypes

\* What GetNextCluster returns for any number is a cluster only if it is the next
\* one of the chain, and without an error it is.
LEMMA NextIs ==
    ASSUME vol \in Volumes, GarbageEnds, NEW c \in Nat, NEW x \in NextClusters(c)
    PROVE  /\ x.clus \in Nat /\ x.err \in BOOLEAN
           /\ Valid(x.clus) =>
                 \E k \in 1 .. Len(Chain) - 1 : Chain[k] = c /\ x.clus = Chain[k + 1]
           /\ ~x.err /\ Extra = 0 =>
                 \A k \in 1 .. Len(Chain) - 1 : Chain[k] = c => x.clus = Chain[k + 1]
<1>1. DOMAIN Table = 0 .. LastCluster /\ vol.type \in {12, 16, 32}
  BY TableIs, VolumeType DEF IsTable
<1> DEFINE all == Twelve(c, 65535)
<1>a. all = 4095
  BY DEF Twelve
<1> HIDE DEF all
<1>2. \/ x = [clus |-> NoCluster, err |-> TRUE]
      \/ vol.type = 12 /\ x = [clus |-> all, err |-> TRUE]
      \/ c \in 0 .. LastCluster /\ x = [clus |-> Decoded(vol.type, Table, c), err |-> FALSE]
      \/ c \notin 0 .. LastCluster /\ \E g \in GarbageNext : x = [clus |-> g, err |-> FALSE]
  <2> DEFINE found == IF c \in DOMAIN Table THEN {Decoded(vol.type, Table, c)} ELSE GarbageNext
             io == IF IoMayFail THEN {[clus |-> NoCluster, err |-> TRUE]} ELSE {}
             half == IF IoMayFail /\ Spans(vol.type, c) THEN {[clus |-> all, err |-> TRUE]} ELSE {}
  <2>1. x \in {[clus |-> n, err |-> FALSE] : n \in found} \cup io \cup half
    BY SMT DEF NextClusters, GetNextCluster, all
  <2>2. CASE x \in {[clus |-> n, err |-> FALSE] : n \in found}
    BY <1>1, <2>2, Zenon
  <2>3. CASE x \in io
    BY <2>3, Zenon
  <2>4. CASE x \in half
    <3>1. Spans(vol.type, c) /\ x = [clus |-> all, err |-> TRUE]
      BY <2>4, Zenon
    <3> QED BY <3>1 DEF Spans
  <2> HIDE DEF found, io, half
  <2> QED BY <2>1, <2>2, <2>3, <2>4, Zenon
<1>3. CASE x = [clus |-> NoCluster, err |-> TRUE]
  <2>1. x.clus = NoCluster /\ x.err = TRUE
    BY <1>3
  <2>2. NoCluster \in Nat /\ ~Valid(NoCluster)
    BY EndType DEF Valid, NoCluster
  <2> QED BY <2>1, <2>2
<1>4. CASE vol.type = 12 /\ x = [clus |-> all, err |-> TRUE]
  <2>1. x.clus = all /\ x.err = TRUE
    BY <1>4
  <2>2. EndCluster(vol.type) = 4087
    BY <1>4, EndType
  <2>3. all \in Nat /\ ~Valid(all)
    <3>1. all \in Nat
      BY <1>a, SMT
    <3>2. ~(all < EndCluster(vol.type))
      BY <1>a, <2>2, SMT
    <3> QED BY <3>1, <3>2 DEF Valid
  <2> QED BY <2>1, <2>3
<1>5. CASE c \notin 0 .. LastCluster /\ \E g \in GarbageNext : x = [clus |-> g, err |-> FALSE]
  <2>1. x.clus \in GarbageNext /\ x.err = FALSE
    BY <1>5
  <2>2. x.clus \in Nat /\ x.clus >= EndCluster(32)
    BY <2>1, TableAssumption DEF GarbageEnds
  <2>3. ~Valid(x.clus)
    <3>1. /\ EndCluster(vol.type) \in Nat /\ EndCluster(32) \in Nat
          /\ EndCluster(vol.type) <= EndCluster(32)
      BY EndType
    <3> QED BY <2>2, <3>1 DEF Valid
  <2>4. \A k \in 1 .. Len(Chain) - 1 : Chain[k] # c
    BY <1>5, VolumeType
  <2> QED BY <2>1, <2>2, <2>3, <2>4
<1>6. CASE c \in 0 .. LastCluster /\ x = [clus |-> Decoded(vol.type, Table, c), err |-> FALSE]
  <2> DEFINE link == Links(vol.type, {vol.chain}, LastCluster)[c]
  <2>1. x.clus = link + Extra /\ x.err = FALSE
    <3>1. Decoded(vol.type, Table, c) = Table[c]
      BY <1>6, TableIs, DecodedIs
    <3>2. Table[c] = link + Extra
      BY <1>6, TableIs
    <3> QED BY <3>1, <3>2, <1>6
  <2>2. link \in Nat /\ Extra \in Nat
    <3>1. link \in Nat
      BY <1>6, LinkType
    <3>2. Reserved \in Nat /\ Reserved <= 6
      BY ParamAssumption
    <3> QED BY <3>1, <3>2 DEF Extra
  <2>6. x.clus \in Nat /\ x.err \in BOOLEAN
    <3>1. x.err \in BOOLEAN
      BY <2>1, Zenon
    <3> HIDE DEF link
    <3> QED BY <2>1, <2>2, <3>1
  <2>5. Valid(Extra + link) => Extra = 0
    BY <2>2, EndType, ParamAssumption DEF Extra, Valid
  <2>3. CASE \A k \in 1 .. Len(Chain) : Chain[k] # c
    <3>1. link = EndCluster(vol.type)
      BY <1>6, <2>3, LinkIs
    <3> HIDE DEF link
    <3>2. ~Valid(x.clus)
      BY <3>1, <2>1, <2>2, EndType DEF Valid
    <3>3. \A k \in 1 .. Len(Chain) - 1 : Chain[k] # c
      BY <2>3, VolumeType
    <3> QED BY <2>6, <3>2, <3>3
  <2>4. CASE \E k \in 1 .. Len(Chain) : Chain[k] = c
    <3>1. PICK k \in 1 .. Len(Chain) : Chain[k] = c
      BY <2>4
    <3>2. link = IF k < Len(Chain) THEN Chain[k + 1] ELSE EndCluster(vol.type) + 8
      BY <1>6, <3>1, LinkIs
    <3> HIDE DEF link
    <3>3. \A j \in 1 .. Len(Chain) - 1 : Chain[j] = c => j = k /\ k < Len(Chain)
      BY <3>1, VolumeType
    <3>4. Valid(x.clus) => k \in 1 .. Len(Chain) - 1 /\ x.clus = Chain[k + 1]
      <4>1. EndCluster(vol.type) \in Nat
        BY EndType
      <4>2. Valid(x.clus) => Extra = 0 /\ link < EndCluster(vol.type)
        BY <4>1, <2>1, <2>2, <2>5 DEF Valid
      <4>3. Valid(x.clus) => k < Len(Chain)
        BY <4>1, <4>2, <3>2
      <4> QED BY <4>2, <4>3, <3>2, <2>1, <2>2, VolumeType
    <3>5. Extra = 0 => \A j \in 1 .. Len(Chain) - 1 : Chain[j] = c => x.clus = Chain[j + 1]
      BY <3>2, <3>3, <2>1, <2>2
    <3>6. Valid(x.clus) => \E j \in 1 .. Len(Chain) - 1 : Chain[j] = c /\ x.clus = Chain[j + 1]
      BY <3>1, <3>4
    <3> QED BY <2>6, <3>5, <3>6
  <2> QED BY <2>3, <2>4
<1> QED BY <1>2, <1>3, <1>4, <1>5, <1>6

----------------------------------------------------------------------------
(* The invariant of a file on a FAT volume *)

\* The number of the cluster that the cursor is in, from 1.
Index == Cursor \div BytsPerClus + 1

\* No call has met an error, and numbers are what they are in the table.
Exact == clean /\ ~failed /\ Extra = 0

\* A number is the k-th cluster of the file or none; when all is well it is, as
\* long as there is one.
Leads(v, exact, c, k) ==
    /\ c >= 2 /\ c < EndCluster(v.type) => k \in 1 .. Len(v.chain) /\ c = v.chain[k]
    /\ exact /\ k \in 1 .. Len(v.chain) => c = v.chain[k]

\* The k-th cluster of the file and those after it are c and the numbers after c.
Run(v, c, k, n) == \A j \in 0 .. n - 1 : k + j \in 1 .. Len(v.chain) /\ c + j = v.chain[k + j]

FatType ==
    /\ vol \in Volumes
    /\ Cursor \in Nat /\ Cursor <= vol.size /\ start \in Nat /\ start <= vol.size
    /\ Cluster \in Nat /\ nBytes \in Nat /\ nextClus \in Nat /\ nClusters \in Nat
    /\ pc \in {"idle", "read", "run", "seek", "refuse"}
    /\ failed \in BOOLEAN /\ clean \in BOOLEAN /\ ok \in BOOLEAN

\* What has been read is what the file holds from where the call began, and what is
\* still to be read is within the request and the file.
Reading ==
    pc \in {"read", "run"} =>
        /\ request.op = "read" /\ request.n \in Nat /\ ok = TRUE
        /\ start <= Cursor
        /\ Buffer = SubSeq(ContentOf(vol), start + 1, Cursor)
        /\ Cursor + nBytes <= vol.size
        /\ Cursor - start + nBytes <= request.n

\* The rest of a run: clusters that follow each other on the disk as in the file, the
\* last of which the request reaches; then the chain goes on with nextClus.
Running ==
    pc = "run" =>
        /\ Run(vol, Cluster, Index, nClusters)
        /\ nClusters > 0 => nBytes > 0 /\ (nClusters - 1) * BytsPerClus < (Cursor % BytsPerClus) + nBytes
        /\ nClusters = 0 /\ Cursor % BytsPerClus # 0 => Run(vol, Cluster, Index, 1)
        /\ nClusters > 0 \/ Cursor % BytsPerClus = 0 => Leads(vol, Exact, nextClus, Index + nClusters)

Tracking == pc # "run" => Leads(vol, Exact, Cluster, Index)

InFile(t) == 0 <= t /\ t < vol.size

Seeking ==
    /\ pc \in {"seek", "refuse"} =>
          /\ request.op = "seek" /\ IsCall(request) /\ Buffer = << >>
          /\ InFile(SeekTarget) <=> pc = "seek"
    /\ pc = "seek" => Cursor % BytsPerClus = 0 /\ Cursor <= SeekTarget
    /\ pc = "refuse" => Cursor = start

\* The inductive invariant.
FatInv == FatType /\ Reading /\ Running /\ Tracking /\ Seeking

----------------------------------------------------------------------------
(* The bytes of a file *)

LEMMA ClusSize == BytsPerClus \in Nat \ {0}
BY ParamAssumption

LEMMA Here ==
    ASSUME NEW n \in Nat
    PROVE  /\ n \div BytsPerClus \in Nat /\ n % BytsPerClus \in 0 .. BytsPerClus - 1
           /\ n = (n \div BytsPerClus) * BytsPerClus + (n % BytsPerClus)
BY ClusSize, DivMod

\* The cluster a place is in begins before it.
LEMMA Aligned ==
    ASSUME NEW n \in Nat
    PROVE  LET q == n \div BytsPerClus
               r == n % BytsPerClus
           IN /\ q \in Nat /\ q * BytsPerClus \in Nat /\ q * BytsPerClus <= n
              /\ r \in Nat /\ r < BytsPerClus /\ n = q * BytsPerClus + r
<1> DEFINE q == n \div BytsPerClus
           r == n % BytsPerClus
           a == q * BytsPerClus
<1>1. q \in Nat /\ r \in 0 .. BytsPerClus - 1 /\ n = a + r /\ BytsPerClus \in Nat
  BY Here, ClusSize
<1> HIDE DEF q, r
<1>2. a \in Nat
  BY <1>1
<1> HIDE DEF a
<1>3. a <= n /\ r \in Nat /\ r < BytsPerClus
  BY <1>1, <1>2
<1> QED BY <1>1, <1>2, <1>3 DEF q, r, a

\* Every byte of a file is in a cluster of its chain.
LEMMA IndexIn ==
    ASSUME vol \in Volumes, NEW n \in Nat, n < vol.size
    PROVE  n \div BytsPerClus + 1 \in 1 .. Len(Chain)
<1> DEFINE B == BytsPerClus
           q == n \div B
           r == n % B
           m == vol.size + B - 1
           l == m \div B
           t == m % B
<1>1. B \in Nat \ {0} /\ vol.size \in Nat /\ Len(Chain) = l
  BY ClusSize, VolumeType
<1>2. q \in Nat /\ r \in 0 .. B - 1 /\ n = q * B + r
  BY Here
<1>3. m \in Nat
  BY <1>1
<1> HIDE DEF q, r, m
<1>4. l \in Nat /\ t \in 0 .. B - 1 /\ m = l * B + t
  BY <1>3, Here
<1> HIDE DEF l, t, B
<1>5. (q + 1) * B < (l + 1) * B
  <2>1. m = vol.size + B - 1
    BY DEF m, B
  <2>2. (q + 1) * B = q * B + B /\ (l + 1) * B = l * B + B
    BY <1>1, <1>2, <1>4
  <2>3. q * B \in Nat /\ l * B \in Nat
    BY <1>1, <1>2, <1>4
  <2> QED BY <1>1, <1>2, <1>4, <2>1, <2>2, <2>3
<1>6. q + 1 < l + 1
  <2> SUFFICES ASSUME l <= q PROVE FALSE
    BY <1>2, <1>4
  <2>1. (q - l) * B >= 0
    BY <1>1, <1>2, <1>4
  <2>2. (q + 1) * B - (l + 1) * B = (q - l) * B
    BY <1>1, <1>2, <1>4
  <2>3. (q + 1) * B \in Int /\ (l + 1) * B \in Int
    BY <1>1, <1>2, <1>4
  <2> QED BY <2>1, <2>2, <2>3, <1>5
<1> QED BY <1>1, <1>2, <1>4, <1>6 DEF q, B

Bytes == Nat \X Nat

LEMMA ContentIs ==
    ASSUME vol \in Volumes
    PROVE  /\ ContentOf(vol) \in Seq(Bytes) /\ Len(ContentOf(vol)) = vol.size
           /\ \A n \in Nat : n < vol.size =>
                 ContentOf(vol)[n + 1] = <<Chain[n \div BytsPerClus + 1], n % BytsPerClus>>
<1>1. vol.size \in Nat
  BY VolumeType
<1>2. ASSUME NEW k \in 1 .. vol.size
      PROVE  Byte(vol.chain[((k - 1) \div BytsPerClus) + 1], (k - 1) % BytsPerClus) \in Bytes
  <2>1. k - 1 \in Nat /\ k - 1 < vol.size
    BY <1>1
  <2>2. (k - 1) % BytsPerClus \in Nat
    BY <2>1, Here
  <2>3. Chain[(k - 1) \div BytsPerClus + 1] \in Nat
    BY <2>1, IndexIn, VolumeType
  <2> QED BY <2>2, <2>3 DEF Byte, Bytes, Chain
<1>3. ContentOf(vol) \in Seq(Bytes) /\ Len(ContentOf(vol)) = vol.size
  BY <1>1, <1>2 DEF ContentOf
<1>4. ASSUME NEW n \in Nat, n < vol.size
      PROVE  ContentOf(vol)[n + 1] = <<Chain[n \div BytsPerClus + 1], n % BytsPerClus>>
  <2>1. n + 1 \in 1 .. vol.size /\ (n + 1) - 1 = n
    BY <1>1, <1>4
  <2> QED BY <2>1 DEF ContentOf, Byte, Chain
<1> QED BY <1>3, <1>4

\* Names that keep the definitions out of the provers' way.
Part(s, a, b) == SubSeq(s, a + 1, b)
Join(s, t) == s \o t

LEMMA Joined ==
    ASSUME NEW s \in Seq(Bytes), NEW t \in Seq(Bytes), NEW m, NEW n,
           Len(s) = m, m + Len(t) = n
    PROVE  /\ Join(s, t) \in Seq(Bytes) /\ Len(Join(s, t)) = n
           /\ \A j \in 1 .. n : Join(s, t)[j] = IF j <= m THEN s[j] ELSE t[j - m]
BY DEF Join

LEMMA PartIs ==
    ASSUME NEW s \in Seq(Bytes), NEW a \in Nat, NEW b \in Nat, a <= b, b <= Len(s)
    PROVE  /\ Part(s, a, b) \in Seq(Bytes) /\ Len(Part(s, a, b)) = b - a
           /\ \A j \in 1 .. b - a : Part(s, a, b)[j] = s[a + j]
BY DEF Part

LEMMA SameSeq ==
    ASSUME NEW s \in Seq(Bytes), NEW t \in Seq(Bytes), NEW n, Len(s) = n, Len(t) = n,
           \A j \in 1 .. n : s[j] = t[j]
    PROVE  s = t
OBVIOUS

\* The part of s after a up to b goes on with t, up to e.
Continues(s, t, a, b, e) ==
    /\ s \in Seq(Bytes) /\ t \in Seq(Bytes) /\ a \in Nat /\ b \in Nat /\ e \in Nat
    /\ b + Len(t) = e /\ a <= b /\ e <= Len(s)
    /\ \A j \in 1 .. Len(t) : t[j] = s[b + j]

LEMMA Joins ==
    ASSUME NEW s, NEW t, NEW a, NEW b, NEW e, Continues(s, t, a, b, e)
    PROVE  Join(Part(s, a, b), t) = Part(s, a, e)
<1> DEFINE u == Part(s, a, b)
           k == Len(t)
           w == Part(s, a, e)
           m == b - a
           n == e - a
           v == Join(u, t)
<1>a. /\ s \in Seq(Bytes) /\ t \in Seq(Bytes) /\ a \in Nat /\ b \in Nat /\ e \in Nat
      /\ b + Len(t) = e /\ a <= b /\ e <= Len(s)
      /\ \A j \in 1 .. Len(t) : t[j] = s[b + j]
  BY DEF Continues
<1>1. k \in Nat /\ Len(s) \in Nat /\ e \in Nat /\ a <= e /\ e <= Len(s) /\ b <= Len(s)
      /\ m \in Nat /\ n \in Nat /\ m + k = n
  BY <1>a
<1>0. e = b + k /\ m = b - a /\ n = e - a
  BY <1>a
<1>2. u \in Seq(Bytes) /\ Len(u) = m /\ \A j \in 1 .. m : u[j] = s[a + j]
  <2>1. s \in Seq(Bytes) /\ a \in Nat /\ b \in Nat /\ a <= b /\ b <= Len(s)
    BY <1>a, <1>1
  <2> QED BY <2>1, PartIs
<1> HIDE DEF u
<1>3. w \in Seq(Bytes) /\ Len(w) = n /\ \A j \in 1 .. n : w[j] = s[a + j]
  <2>1. s \in Seq(Bytes) /\ a \in Nat /\ e \in Nat /\ a <= e /\ e <= Len(s)
    BY <1>a, <1>1
  <2> QED BY <2>1, PartIs
<1> HIDE DEF w, m, n
<1>4. v \in Seq(Bytes) /\ Len(v) = n /\ \A j \in 1 .. n : v[j] = IF j <= m THEN u[j] ELSE t[j - m]
  <2>1. u \in Seq(Bytes) /\ t \in Seq(Bytes) /\ Len(u) = m /\ m + Len(t) = n
    BY <1>a, <1>1, <1>2
  <2> QED BY <2>1, Joined
<1> HIDE DEF v
<1>5. ASSUME NEW j \in 1 .. n PROVE v[j] = w[j]
  <2>1. CASE j <= m
    <3>1. j \in 1 .. m
      BY <2>1, <1>1
    <3> QED BY <3>1, <2>1, <1>2, <1>3, <1>4
  <2>2. CASE ~(j <= m)
    <3>1. j - m \in 1 .. k /\ b + (j - m) = a + j
      BY <2>2, <1>a, <1>0, <1>1
    <3>2. t[j - m] = s[a + j]
      BY <3>1, <1>a
    <3> QED BY <2>2, <3>2, <1>3, <1>4
  <2> QED BY <2>1, <2>2
<1>6. v = w
  BY <1>3, <1>4, <1>5, SameSeq
<1> QED BY <1>6 DEF v, u, w

----------------------------------------------------------------------------
(* The steps of a file on a FAT volume *)

\* GetNextCluster leads from a cluster of the file to the one after it.
LEMMA NextLeads ==
    ASSUME vol \in Volumes, GarbageEnds, NEW c \in Nat, NEW k \in Nat \ {0}, NEW e0 \in BOOLEAN,
           Leads(vol, e0, c, k), NEW x \in NextClusters(c), NEW exact \in BOOLEAN,
           exact => e0 /\ ~x.err /\ Extra = 0
    PROVE  Leads(vol, exact, x.clus, k + 1)
<1>0. Len(Chain) \in Nat /\ Chain = vol.chain
  BY VolumeType DEF Chain
<1>1. ASSUME Valid(x.clus) PROVE k + 1 \in 1 .. Len(Chain) /\ x.clus = Chain[k + 1]
  <2>1. PICK j \in 1 .. Len(Chain) - 1 : Chain[j] = c /\ x.clus = Chain[j + 1]
    BY <1>1, NextIs
  <2>2. j \in 1 .. Len(Chain) /\ j + 1 \in 1 .. Len(Chain)
    BY <1>0
  <2>3. Valid(c)
    BY <2>1, <2>2, VolumeType
  <2>4. k \in 1 .. Len(Chain) /\ c = Chain[k]
    BY <2>3, <1>0 DEF Leads, Valid
  <2>5. j = k
    BY <2>1, <2>2, <2>4, VolumeType
  <2> QED BY <2>1, <2>2, <2>5
<1>2. ASSUME exact, k + 1 \in 1 .. Len(Chain) PROVE x.clus = Chain[k + 1]
  <2>1. k \in 1 .. Len(Chain) /\ k \in 1 .. Len(Chain) - 1
    BY <1>0, <1>2
  <2>2. e0 /\ ~x.err /\ Extra = 0
    BY <1>2, Zenon
  <2>3. c = Chain[k]
    BY <2>1, <2>2, <1>0 DEF Leads
  <2> QED BY <2>1, <2>2, <2>3, NextIs
<1> QED BY <1>0, <1>1, <1>2 DEF Leads, Valid

LEMMA FirstLeads ==
    ASSUME vol \in Volumes, NEW exact \in BOOLEAN
    PROVE  FirstCluster(vol) \in Nat /\ Leads(vol, exact, FirstCluster(vol), 1)
<1>1. CASE vol.chain = << >>
  BY <1>1 DEF FirstCluster, Leads
<1>2. CASE vol.chain # << >>
  <2>1. 1 \in 1 .. Len(Chain) /\ Chain = vol.chain
    BY <1>2, VolumeType DEF Chain
  <2>2. FirstCluster(vol) = Chain[1]
    BY <1>2, <2>1 DEF FirstCluster
  <2> QED BY <2>1, <2>2, VolumeType DEF Leads
<1> QED BY <1>1, <1>2

\* Clusters that start runs lead.
LEMMA RunLeads ==
    ASSUME vol \in Volumes, NEW c \in Nat, NEW k \in Nat, NEW n \in Nat \ {0},
           Run(vol, c, k, n), NEW exact \in BOOLEAN
    PROVE  Leads(vol, exact, c, k)
<1>1. 0 \in 0 .. n - 1 /\ k + 0 = k /\ c + 0 = c
  OBVIOUS
<1>2. k \in 1 .. Len(vol.chain) /\ c = vol.chain[k]
  BY <1>1 DEF Run
<1> QED BY <1>2 DEF Leads

LEMMA IndexIs ==
    ASSUME FatType
    PROVE  Index \in Nat \ {0} /\ Index = Cursor \div BytsPerClus + 1
<1>1. Cursor \div BytsPerClus \in Nat
  BY Here DEF FatType
<1> QED BY <1>1 DEF Index

LEMMA ExactType == FatType => Exact \in BOOLEAN
BY DEF FatType, Exact

LEMMA ExtraKept == vol' = vol => Extra' = Extra
BY SMT DEF Extra

\* A call that begins makes the errors of the one before history.
LEMMA ExactCall ==
    ASSUME vol' = vol, clean' = (clean /\ ~failed), failed' = FALSE
    PROVE  Exact' = Exact
BY ExtraKept, Zenon DEF Exact

LEMMA ExactKept ==
    ASSUME vol' = vol, clean' = clean, failed' = failed
    PROVE  Exact' = Exact
BY ExtraKept, Zenon DEF Exact

LEMMA CallReadInv ==
    ASSUME FatInv, NEW r \in Requests, CallRead(r)
    PROVE  FatInv'
<1>0. /\ vol \in Volumes /\ vol.size \in Nat /\ Cursor \in Nat /\ Cursor <= vol.size
      /\ r.n \in Nat
  BY RequestAssumption, VolumeType DEF FatInv, FatType, CallRead, IsCall
<1>1. /\ nBytes' \in Nat /\ Cursor + nBytes' <= vol.size /\ nBytes' <= r.n
  BY <1>0 DEF CallRead
<1>2. FatType'
  BY <1>0, <1>1 DEF FatInv, FatType, CallRead
<1>3. Reading'
  <2>1. SubSeq(ContentOf(vol), Cursor + 1, Cursor) = << >>
    BY <1>0, ContentIs
  <2>2. ContentOf(vol)' = ContentOf(vol)
    BY DEF CallRead, ContentOf
  <2> QED BY <1>0, <1>1, <2>1, <2>2 DEF Reading, CallRead
<1>4. Tracking'
  <2>1. Exact' = Exact /\ Index' = Index
    BY ExactCall DEF Index, CallRead
  <2> QED BY <2>1 DEF FatInv, Tracking, CallRead, Idle
<1> QED BY <1>2, <1>3, <1>4 DEF FatInv, Running, Seeking, CallRead

\* The place a seek goes to.
LEMMA TargetType ==
    ASSUME NEW r, IsCall(r), r.op = "seek", NEW cur \in Nat, vol \in Volumes
    PROVE  Target(r, cur) \in Int
BY VolumeType DEF Target, IsCall

LEMMA CallSeekInv ==
    ASSUME FatInv, FirstFits, NEW r \in Requests, CallSeek(r)
    PROVE  FatInv'
<1> DEFINE t == Target(r, Cursor)
           q == Cursor \div BytsPerClus
<1>0. /\ vol \in Volumes /\ vol.size \in Nat /\ Cursor \in Nat /\ Cursor <= vol.size
      /\ IsCall(r) /\ r.op = "seek" /\ q \in Nat /\ q * BytsPerClus \in Nat
      /\ q * BytsPerClus <= Cursor /\ vol' = vol
  <2>1. Cursor \in Nat /\ vol \in Volumes
    BY DEF FatInv, FatType
  <2>2. q \in Nat /\ q * BytsPerClus \in Nat /\ q * BytsPerClus <= Cursor
    BY <2>1, Aligned
  <2>3. vol.size \in Nat
    BY <2>1, VolumeType
  <2> HIDE DEF q
  <2> QED BY <2>1, <2>2, <2>3, RequestAssumption DEF FatInv, FatType, CallSeek
<1>1. t \in Int
  BY <1>0, TargetType
<1>2. SeekTarget' = t
  BY DEF SeekTarget, CallSeek, Target
<1>3. Exact' = Exact /\ Exact \in BOOLEAN
  BY ExactCall, ExactType DEF CallSeek, FatInv
<1>4. Leads(vol, Exact, Cluster, Index)
  BY DEF FatInv, Tracking, CallSeek, Idle
<1> HIDE DEF t
<1>5. CASE t < 0 \/ t >= vol.size
  <2>1. pc' = "refuse" /\ Cursor' = Cursor /\ Cluster' = Cluster
    BY <1>5 DEF CallSeek, t
  <2>2. ~InFile(SeekTarget)'
    BY <1>0, <1>1, <1>2, <1>5 DEF InFile
  <2>3. FatType'
    BY <2>1 DEF FatInv, FatType, CallSeek
  <2>4. Tracking'
    BY <2>1, <1>0, <1>3, <1>4 DEF Tracking, Index
  <2>5. Seeking'
    BY <2>1, <2>2, <1>0 DEF Seeking, CallSeek, IsCall
  <2> QED BY <2>1, <2>3, <2>4, <2>5 DEF FatInv, Reading, Running
<1>6. CASE ~(t < 0 \/ t >= vol.size)
  <2>1. pc' = "seek" /\ Rewind(t)
    BY <1>6 DEF CallSeek, t
  <2>2. InFile(SeekTarget)'
    BY <1>0, <1>1, <1>2, <1>6 DEF InFile
  <2>3. /\ Cursor' \in Nat /\ Cursor' <= Cursor /\ Cursor' <= t /\ Cursor' % BytsPerClus = 0
        /\ Cluster' \in Nat /\ Leads(vol, Exact, Cluster', Index')
    <3>1. CASE t < q * BytsPerClus
      <4>1. Cursor' = 0 /\ Cluster' = FirstCluster(vol) % Word
        BY <3>1, <2>1 DEF Rewind
      <4>2. FirstCluster(vol) \in Nat /\ Leads(vol, Exact, FirstCluster(vol), 1)
        BY <1>0, <1>3, FirstLeads
      <4>3. FirstCluster(vol) % Word = FirstCluster(vol)
        <5>1. FirstCluster(vol) < Word /\ Word \in Nat \ {0}
          BY <1>0, ParamAssumption DEF FirstFits
        <5> QED BY <4>2, <5>1, SmallMod
      <4>4. Index' = 1 /\ Cursor' % BytsPerClus = 0
        BY <4>1, ClusSize DEF Index
      <4> QED BY <4>1, <4>2, <4>3, <4>4, <1>0, <1>1, <1>6
    <3>2. CASE ~(t < q * BytsPerClus)
      <4>1. Cursor' = q * BytsPerClus /\ Cluster' = Cluster
        BY <3>2, <2>1 DEF Rewind
      <4>2. Cursor' \div BytsPerClus = q /\ Cursor' % BytsPerClus = 0
        <5>1. Cursor' = q * BytsPerClus + 0 /\ 0 \in 0 .. BytsPerClus - 1
          BY <4>1, <1>0, ClusSize
        <5> HIDE DEF q
        <5> QED BY <5>1, <1>0, ClusSize, DivUnique
      <4>3. Index' = Index
        BY <4>2 DEF Index
      <4> QED BY <4>1, <4>2, <4>3, <3>2, <1>0, <1>1, <1>4 DEF FatInv, FatType
    <3> QED BY <3>1, <3>2
  <2>4. FatType'
    <3>1. Cursor' <= vol.size
      BY <2>3, <1>0
    <3>2. clean' \in BOOLEAN /\ failed' \in BOOLEAN
      BY DEF FatInv, FatType, CallSeek
    <3> QED BY <2>1, <2>3, <3>1, <3>2, <1>0 DEF FatInv, FatType, CallSeek
  <2>5. Tracking'
    BY <2>1, <2>3, <1>0, <1>3 DEF Tracking
  <2>6. Seeking'
    BY <2>1, <2>2, <2>3, <1>0, <1>2 DEF Seeking, CallSeek, IsCall
  <2> QED BY <2>1, <2>4, <2>5, <2>6 DEF FatInv, Reading, Running
<1> QED BY <1>5, <1>6

LEMMA ReadDoneInv ==
    ASSUME FatInv, ReadDone
    PROVE  FatInv'
<1>1. FatType'
  BY DEF FatInv, FatType, ReadDone
<1>2. Tracking'
  BY ExactKept DEF FatInv, Tracking, Index, ReadDone
<1> QED BY <1>1, <1>2 DEF FatInv, Reading, Running, Seeking, ReadDone

LEMMA PieceFailsInv ==
    ASSUME FatInv, PieceFails
    PROVE  FatInv'
<1>1. FatType'
  BY DEF FatInv, FatType, PieceFails
<1>2. Tracking'
  <2>1. /\ vol \in Volumes /\ Cluster \in Nat /\ Index \in Nat /\ nClusters \in Nat \ {0}
        /\ Run(vol, Cluster, Index, nClusters)
    BY IndexIs DEF FatInv, FatType, Running, PieceFails
  <2>2. Leads(vol, Exact', Cluster, Index)
    <3>1. Exact' \in BOOLEAN
      BY <1>1 DEF Exact, FatType
    <3> HIDE DEF Exact
    <3> QED BY <2>1, <3>1, RunLeads
  <2> QED BY <2>2 DEF Tracking, Index, PieceFails
<1> QED BY <1>1, <1>2 DEF FatInv, Reading, Running, Seeking, PieceFails

LEMMA RunDoneInv ==
    ASSUME FatInv, RunDone
    PROVE  FatInv'
<1>0. /\ vol \in Volumes /\ Cluster \in Nat /\ nextClus \in Nat /\ Index \in Nat
      /\ Exact \in BOOLEAN /\ nClusters = 0
  BY IndexIs, ExactType DEF FatInv, FatType, RunDone
<1>1. Cluster' \in Nat /\ Leads(vol, Exact, Cluster', Index)
  <2>1. CASE Cursor % BytsPerClus = 0
    <3>1. Leads(vol, Exact, nextClus, Index + 0) /\ Index + 0 = Index
      BY <1>0, <2>1 DEF FatInv, Running, RunDone
    <3> QED BY <3>1, <2>1, <1>0 DEF RunDone
  <2>2. CASE Cursor % BytsPerClus # 0
    <3>1. Run(vol, Cluster, Index, 1)
      BY <1>0, <2>2 DEF FatInv, Running, RunDone
    <3>2. Leads(vol, Exact, Cluster, Index)
      BY <1>0, <3>1, RunLeads
    <3> QED BY <3>2, <2>2, <1>0 DEF RunDone
  <2> QED BY <2>1, <2>2
<1>2. FatType'
  BY <1>1 DEF FatInv, FatType, RunDone
<1>3. Tracking'
  BY <1>1, ExactKept DEF Tracking, Index, RunDone
<1>4. Reading'
  BY DEF FatInv, Reading, RunDone, ContentOf
<1> QED BY <1>2, <1>3, <1>4 DEF FatInv, Running, Seeking, RunDone

LEMMA SeekRefusedInv ==
    ASSUME FatInv, SeekRefused
    PROVE  FatInv'
<1>1. FatType'
  BY DEF FatInv, FatType, SeekRefused
<1>2. Tracking'
  BY ExactKept DEF FatInv, Tracking, Index, SeekRefused
<1> QED BY <1>1, <1>2 DEF FatInv, Reading, Running, Seeking, SeekRefused

\* A seek's place is within the file.
LEMMA SeekTargetType ==
    ASSUME FatInv, pc = "seek"
    PROVE  SeekTarget \in Nat /\ SeekTarget < vol.size /\ vol.size \in Nat
           /\ Cursor \in Nat /\ Cursor <= SeekTarget /\ Cursor % BytsPerClus = 0
<1>1. vol \in Volumes /\ start \in Nat /\ Cursor \in Nat
  BY DEF FatInv, FatType
<1>2. IsCall(request) /\ request.op = "seek" /\ InFile(SeekTarget)
      /\ Cursor <= SeekTarget /\ Cursor % BytsPerClus = 0
  BY DEF FatInv, Seeking
<1>3. SeekTarget \in Int
  BY <1>1, <1>2, TargetType DEF SeekTarget
<1>4. vol.size \in Nat
  BY <1>1, VolumeType
<1> QED BY <1>1, <1>2, <1>3, <1>4 DEF InFile

\* From the beginning of a cluster on.
LEMMA FromStart ==
    ASSUME NEW n \in Nat, n % BytsPerClus = 0, NEW j \in Nat
    PROVE  /\ j < BytsPerClus => (n + j) \div BytsPerClus = n \div BytsPerClus
           /\ j = BytsPerClus => /\ (n + j) \div BytsPerClus = n \div BytsPerClus + 1
                                 /\ (n + j) % BytsPerClus = 0
<1> DEFINE q == n \div BytsPerClus
           m == n + j
<1>1. q \in Nat /\ n = q * BytsPerClus /\ BytsPerClus \in Nat \ {0}
  BY Here, ClusSize
<1> HIDE DEF q
<1>2. ASSUME j < BytsPerClus PROVE m \div BytsPerClus = q
  <2>1. m = q * BytsPerClus + j /\ j \in 0 .. BytsPerClus - 1
    BY <1>1, <1>2
  <2> HIDE DEF m
  <2> QED BY <2>1, <1>1, DivUnique
<1>3. ASSUME j = BytsPerClus PROVE m \div BytsPerClus = q + 1 /\ m % BytsPerClus = 0
  <2>1. m = (q + 1) * BytsPerClus + 0 /\ 0 \in 0 .. BytsPerClus - 1 /\ q + 1 \in Nat
    BY <1>1, <1>3
  <2> HIDE DEF m
  <2> QED BY <2>1, <1>1, DivUnique
<1> QED BY <1>2, <1>3 DEF q

LEMMA SeekStepInv ==
    ASSUME FatInv, GarbageEnds, SeekStep
    PROVE  FatInv'
<1>0. /\ vol \in Volumes /\ Cluster \in Nat /\ Index \in Nat \ {0} /\ Exact \in BOOLEAN
      /\ SeekTarget \in Nat /\ SeekTarget < vol.size /\ vol.size \in Nat
      /\ Cursor \in Nat /\ Cursor % BytsPerClus = 0
      /\ Leads(vol, Exact, Cluster, Index)
  BY IndexIs, ExactType, SeekTargetType DEF FatInv, FatType, SeekStep, Tracking
<1>1. PICK x \in NextClusters(Cluster) : Cluster' = x.clus /\ failed' = (failed \/ x.err)
  BY DEF SeekStep
<1>2. x.clus \in Nat /\ x.err \in BOOLEAN
  BY <1>0, NextIs
<1>3. Exact' \in BOOLEAN /\ (Exact' => Exact /\ ~x.err /\ Extra = 0)
  <2>1. Extra' = Extra /\ clean' = clean
    BY ExtraKept DEF SeekStep
  <2>2. failed \in BOOLEAN /\ clean \in BOOLEAN
    BY DEF FatInv, FatType
  <2> QED BY <2>1, <2>2, <1>1, <1>2, Zenon DEF Exact
<1>4. Leads(vol, Exact', Cluster', Index + 1)
  <2> DEFINE e == Exact'
  <2>1. e \in BOOLEAN /\ (e => Exact /\ ~x.err /\ Extra = 0)
    BY <1>3
  <2> HIDE DEF e
  <2>2. Leads(vol, e, x.clus, Index + 1)
    BY <1>0, <2>1, NextLeads
  <2> QED BY <2>2, <1>1 DEF e
<1>5. Index' = Index + 1 /\ Cursor' % BytsPerClus = 0
  <2>1. Cursor' = Cursor + BytsPerClus /\ BytsPerClus \in Nat
    BY ClusSize DEF SeekStep
  <2>2. (Cursor + BytsPerClus) \div BytsPerClus = Cursor \div BytsPerClus + 1
        /\ (Cursor + BytsPerClus) % BytsPerClus = 0
    BY <1>0, <2>1, FromStart
  <2> QED BY <2>1, <2>2 DEF Index
<1>6. Cursor' \in Nat /\ Cursor' <= SeekTarget /\ Cursor' <= vol.size /\ SeekTarget' = SeekTarget
  <2>1. SeekTarget' = SeekTarget
    BY DEF SeekTarget, Target, SeekStep
  <2>2. Cursor' = Cursor + BytsPerClus /\ Cursor + BytsPerClus <= SeekTarget
    BY DEF SeekStep
  <2> QED BY <2>1, <2>2, <1>0, ClusSize
<1>7. FatType'
  <2>1. failed' \in BOOLEAN
    BY <1>1, <1>2 DEF FatInv, FatType
  <2> QED BY <2>1, <1>1, <1>2, <1>6 DEF FatInv, FatType, SeekStep
<1>8. Tracking'
  BY <1>4, <1>5 DEF Tracking, SeekStep
<1>9. Seeking'
  BY <1>5, <1>6 DEF FatInv, Seeking, SeekStep, InFile, IsCall
<1> QED BY <1>7, <1>8, <1>9 DEF FatInv, Reading, Running, SeekStep

LEMMA SeekDoneInv ==
    ASSUME FatInv, SeekDone
    PROVE  FatInv'
<1>0. /\ SeekTarget \in Nat /\ SeekTarget < vol.size /\ vol.size \in Nat
      /\ Cursor \in Nat /\ Cursor <= SeekTarget /\ Cursor % BytsPerClus = 0
  BY SeekTargetType DEF SeekDone
<1>1. FatType'
  BY <1>0 DEF FatInv, FatType, SeekDone
<1>2. Index' = Index
  <2> DEFINE j == SeekTarget - Cursor
  <2>1. j \in Nat /\ j < BytsPerClus /\ SeekTarget = Cursor + j
    BY <1>0, ClusSize DEF SeekDone
  <2> HIDE DEF j
  <2>2. SeekTarget \div BytsPerClus = Cursor \div BytsPerClus
    BY <2>1, <1>0, FromStart
  <2> QED BY <2>2 DEF Index, SeekDone
<1>3. Tracking'
  BY <1>2, ExactKept DEF FatInv, Tracking, SeekDone
<1> QED BY <1>1, <1>3 DEF FatInv, Reading, Running, Seeking, SeekDone

\* The loop that looks for consecutive clusters follows the chain.
LEMMA RunFound ==
    ASSUME vol \in Volumes, GarbageEnds, Cluster \in Nat, NEW k \in 1 .. Len(Chain),
           Cluster = Chain[k], NEW n \in Nat \ {0},
           \A j \in 1 .. n - 1 :
              \E x \in NextClusters(Cluster + j - 1) : Valid(x.clus) /\ x.clus = Cluster + j
    PROVE  Run(vol, Cluster, k, n)
<1> DEFINE Good(j) == k + j \in 1 .. Len(Chain) /\ Cluster + j = Chain[k + j]
           S == {j \in 0 .. n - 1 : ~Good(j)}
<1>1. Good(0)
  <2>1. k + 0 = k /\ Cluster + 0 = Cluster
    BY VolumeType
  <2> QED BY <2>1
<1>2. ASSUME NEW j \in 1 .. n - 1, Good(j - 1) PROVE Good(j)
  <2>1. PICK x \in NextClusters(Cluster + j - 1) : Valid(x.clus) /\ x.clus = Cluster + j
    OBVIOUS
  <2>2. Cluster + j - 1 \in Nat /\ Cluster + j - 1 = Cluster + (j - 1)
    OBVIOUS
  <2>3. PICK i \in 1 .. Len(Chain) - 1 : Chain[i] = Cluster + j - 1 /\ x.clus = Chain[i + 1]
    <3> DEFINE c == Cluster + j - 1
    <3>1. c \in Nat /\ x \in NextClusters(c) /\ Valid(x.clus)
      BY <2>1, <2>2
    <3> HIDE DEF c
    <3>2. \E i \in 1 .. Len(Chain) - 1 : Chain[i] = c /\ x.clus = Chain[i + 1]
      BY <3>1, NextIs
    <3> QED BY <3>2 DEF c
  <2>4. i \in 1 .. Len(Chain) /\ i + 1 \in 1 .. Len(Chain)
    BY VolumeType
  <2>5. i = k + (j - 1)
    BY <2>2, <2>3, <2>4, <1>2, VolumeType
  <2>6. i + 1 = k + j
    BY <2>5, VolumeType
  <2> QED BY <2>1, <2>3, <2>4, <2>6
<1>3. S = {}
  <2> SUFFICES ASSUME S # {} PROVE FALSE
    OBVIOUS
  <2>1. S \subseteq Nat
    OBVIOUS
  <2> HIDE DEF S
  <2>2. PICK j \in S : \A i \in S : j <= i
    BY <2>1, LeastIs
  <2>3. j \in 0 .. n - 1 /\ ~Good(j)
    BY <2>2 DEF S
  <2> HIDE DEF Good
  <2>4. j # 0
    BY <2>3, <1>1
  <2>5. j \in 1 .. n - 1 /\ j - 1 \in 0 .. n - 1 /\ ~(j <= j - 1)
    BY <2>3, <2>4
  <2>6. Good(j - 1)
    BY <2>2, <2>5 DEF S
  <2> QED BY <2>3, <2>5, <2>6, <1>2
<1> QED BY <1>3 DEF Run, Chain

\* A request that reaches n clusters goes beyond the first n - 1.
LEMMA Reaches ==
    ASSUME NEW z \in Nat, NEW n \in Nat \ {0},
           n <= (z + BytsPerClus - 1) \div BytsPerClus
    PROVE  (n - 1) * BytsPerClus < z
<1> DEFINE B == BytsPerClus
           m == z + B - 1
           l == m \div B
           r == m % B
<1>1. B \in Nat \ {0} /\ m \in Nat
  BY ClusSize
<1>2. m = z + B - 1
  OBVIOUS
<1> HIDE DEF m
<1>3. l \in Nat /\ r \in 0 .. B - 1 /\ m = l * B + r
  BY <1>1, Here
<1>4. n <= l
  BY DEF m
<1> HIDE DEF B, l, r
<1>5. (l - n) * B >= 0 /\ (l - n) * B = l * B - n * B /\ (n - 1) * B = n * B - B
  BY <1>1, <1>3, <1>4
<1>6. l * B \in Int /\ n * B \in Int
  BY <1>1, <1>3
<1>7. (n - 1) * B < z
  BY <1>1, <1>2, <1>3, <1>5, <1>6
<1> QED BY <1>7 DEF B

LEMMA FindRunInv ==
    ASSUME FatInv, GarbageEnds, FindRun
    PROVE  FatInv'
<1> DEFINE z == (Cursor % BytsPerClus) + nBytes
<1>0. /\ vol \in Volumes /\ Cluster \in Nat /\ Index \in Nat \ {0} /\ Exact \in BOOLEAN
      /\ nBytes \in Nat /\ pc = "read" /\ failed \in BOOLEAN /\ clean \in BOOLEAN
      /\ LastCluster \in Nat /\ Cursor \in Nat
  BY IndexIs, ExactType, TableAssumption DEF FatInv, FatType, FindRun
<1>1. PICK n \in 1 .. LastCluster : \E x \in NextClusters(Cluster + n - 1) :
          /\ RunLength(n, x.clus)
          /\ nClusters' = n
          /\ nextClus' = x.clus
          /\ failed' = (failed \/ x.err)
  BY DEF FindRun
<1>2. PICK x \in NextClusters(Cluster + n - 1) :
          /\ RunLength(n, x.clus)
          /\ nClusters' = n
          /\ nextClus' = x.clus
          /\ failed' = (failed \/ x.err)
  BY <1>1
<1>3. n \in Nat \ {0} /\ Cluster + n - 1 \in Nat /\ Cluster + n - 1 = Cluster + (n - 1)
  BY <1>0
<1>4. x.clus \in Nat /\ x.err \in BOOLEAN
  BY <1>0, <1>3, NextIs
<1>5. Index \in 1 .. Len(Chain) /\ Cluster = Chain[Index]
  BY <1>0 DEF FatInv, FindRun, More, Valid, Tracking, Leads, Chain
<1>6. Run(vol, Cluster, Index, n)
  BY <1>0, <1>2, <1>3, <1>5, RunFound DEF RunLength
<1>7. nBytes > 0
  <2>1. Cursor - start \in Nat /\ Len(Buffer) = Cursor - start
    <3>1. /\ Cursor \in Nat /\ start \in Nat /\ start <= Cursor /\ Cursor <= vol.size
          /\ Buffer = SubSeq(ContentOf(vol), start + 1, Cursor)
      BY <1>0 DEF FatInv, FatType, Reading
    <3>2. Buffer = Part(ContentOf(vol), start, Cursor)
      BY <3>1 DEF Part
    <3> QED BY <3>1, <3>2, <1>0, ContentIs, PartIs
  <2> QED BY <2>1, <1>0 DEF FindRun, More, Read
<1>8. (n - 1) * BytsPerClus < (Cursor % BytsPerClus) + nBytes
  <2>1. Cursor % BytsPerClus \in Nat
    BY <1>0, Here
  <2>2. z \in Nat
    BY <2>1, <1>0
  <2>3. n <= (z + BytsPerClus - 1) \div BytsPerClus
    <3> DEFINE len == (z + BytsPerClus - 1) \div BytsPerClus
    <3>1. n \in 1 .. len
      BY <1>2 DEF RunLength
    <3>2. z + BytsPerClus - 1 \in Nat
      BY <2>2, ClusSize
    <3>3. len \in Nat
      BY <3>2, Here
    <3> HIDE DEF len
    <3>4. n <= len
      BY <3>1, <3>3
    <3> QED BY <3>4 DEF len
  <2> HIDE DEF z
  <2>4. (n - 1) * BytsPerClus < z
    BY <2>2, <2>3, <1>3, Reaches
  <2> QED BY <2>4 DEF z
<1>9. Exact' \in BOOLEAN /\ (Exact' => Exact /\ ~x.err /\ Extra = 0)
  <2>1. Extra' = Extra /\ clean' = clean
    BY ExtraKept DEF FindRun
  <2> QED BY <2>1, <1>0, <1>2, <1>4, Zenon DEF Exact
<1>10. Leads(vol, Exact', x.clus, Index + n)
  <2> DEFINE e == Exact'
             c == Cluster + n - 1
             k == Index + (n - 1)
  <2>1. e \in BOOLEAN /\ (e => Exact /\ ~x.err /\ Extra = 0)
    BY <1>9
  <2>2. c \in Nat /\ k \in Nat \ {0} /\ k + 1 = Index + n
    BY <1>0, <1>3
  <2>3. k \in 1 .. Len(vol.chain) /\ c = vol.chain[k]
    <3>1. n - 1 \in 0 .. n - 1
      BY <1>3
    <3> QED BY <3>1, <1>3, <1>6 DEF Run
  <2>4. Leads(vol, Exact, c, k)
    BY <2>3 DEF Leads
  <2>5. x \in NextClusters(c)
    OBVIOUS
  <2> HIDE DEF e, c, k
  <2>6. Leads(vol, e, x.clus, k + 1)
    BY <1>0, <2>1, <2>2, <2>4, <2>5, NextLeads
  <2> QED BY <2>6, <2>2 DEF e
<1>11. Index' = Index /\ pc' = "run"
  BY DEF Index, FindRun
<1>12. FatType'
  <2>1. failed' \in BOOLEAN
    BY <1>0, <1>2, <1>4
  <2> QED BY <2>1, <1>2, <1>3, <1>4 DEF FatInv, FatType, FindRun
<1>13. Reading'
  BY <1>0 DEF FatInv, Reading, FindRun, ContentOf
<1>14. Running'
  <2>1. /\ vol' = vol /\ Cluster' = Cluster /\ nBytes' = nBytes /\ Cursor' = Cursor
        /\ nClusters' = n /\ nextClus' = x.clus
    BY <1>2 DEF FindRun
  <2>2. n > 0 /\ n # 0
    BY <1>3
  <2> QED BY <2>1, <2>2, <1>6, <1>7, <1>8, <1>10, <1>11 DEF Running
<1> QED BY <1>11, <1>12, <1>13, <1>14 DEF FatInv, Tracking, Seeking

\* A number of clusters as it is tried is one that there are.
LEMMA TriedIs ==
    ASSUME NEW n \in Nat \ {0}
    PROVE  Tried(n) \subseteq 1 .. n
<1>1. \A c \in 2 .. n : c \in 1 .. n
  OBVIOUS
<1>2. n \in 1 .. n
  OBVIOUS
<1> QED BY <1>1, <1>2, Zenon DEF Tried

\* The bytes of n clusters on the disk are those of the file if the clusters are.
LEMMA PieceIs ==
    ASSUME vol \in Volumes, Cursor \in Nat, Cluster \in Nat, NEW n \in Nat \ {0},
           Run(vol, Cluster, Index, n), NEW len \in Nat,
           (Cursor % BytsPerClus) + len <= n * BytsPerClus, Cursor + len <= vol.size
    PROVE  LET skip == Cursor % BytsPerClus
               piece == SubSeq(ClusterData(Cluster, n), skip + 1, skip + len)
           IN /\ piece \in Seq(Bytes) /\ Len(piece) = len
              /\ \A j \in 1 .. len : piece[j] = ContentOf(vol)[Cursor + j]
<1> DEFINE skip == Cursor % BytsPerClus
           q == Cursor \div BytsPerClus
           e == skip + len
           d == ClusterData(Cluster, n)
           z == n * BytsPerClus
           piece == Part(d, skip, e)
<1>0. skip \in Nat /\ q \in Nat /\ BytsPerClus \in Nat \ {0} /\ skip < BytsPerClus
  BY Here, ClusSize
<1>1. e \in Nat /\ z \in Nat /\ skip <= e /\ e <= z /\ e = skip + len
  <2> HIDE DEF skip
  <2>1. z \in Nat
    BY <1>0
  <2> HIDE DEF z
  <2> QED BY <2>1, <1>0 DEF skip, z
<1>2. d \in Seq(Bytes) /\ Len(d) = z
      /\ \A k \in 1 .. z : d[k] = <<Cluster + (k - 1) \div BytsPerClus, (k - 1) % BytsPerClus>>
  <2> HIDE DEF z
  <2>1. ASSUME NEW k \in 1 .. z
        PROVE  Byte(Cluster + (k - 1) \div BytsPerClus, (k - 1) % BytsPerClus) \in Bytes
    <3>1. k - 1 \in Nat
      BY <1>1
    <3>2. (k - 1) \div BytsPerClus \in Nat /\ (k - 1) % BytsPerClus \in Nat
      BY <3>1, Here
    <3> QED BY <3>2 DEF Byte, Bytes
  <2>2. d = [k \in 1 .. z |-> Byte(Cluster + (k - 1) \div BytsPerClus, (k - 1) % BytsPerClus)]
    BY DEF ClusterData, z
  <2> HIDE DEF d
  <2>3. d \in Seq(Bytes) /\ Len(d) = z
    BY <1>1, <2>1, <2>2
  <2> QED BY <2>2, <2>3 DEF Byte
<1> HIDE DEF skip, q, e, d, z
<1>3. /\ piece \in Seq(Bytes) /\ Len(piece) = e - skip
      /\ \A j \in 1 .. e - skip : piece[j] = d[skip + j]
  <2>1. d \in Seq(Bytes) /\ skip \in Nat /\ e \in Nat /\ skip <= e /\ e <= Len(d)
    BY <1>0, <1>1, <1>2
  <2> QED BY <2>1, PartIs
<1>4. e - skip = len
  BY <1>0, <1>1
<1>5. ASSUME NEW j \in 1 .. len PROVE piece[j] = ContentOf(vol)[Cursor + j]
  <2> DEFINE i == j - 1
             p == (skip + i) \div BytsPerClus
             r == (skip + i) % BytsPerClus
  <2>1. i \in Nat /\ skip + i \in Nat /\ skip + i < z /\ j = i + 1
    BY <1>0, <1>1
  <2>2. /\ (Cursor + i) \div BytsPerClus = q + p
        /\ (Cursor + i) % BytsPerClus = r
    BY <2>1, <1>0, DivSum DEF skip, q
  <2>3. p \in Nat /\ p <= n - 1 /\ r \in Nat
    <3> DEFINE m == skip + i
    <3>1. m \in Nat /\ m < z
      BY <2>1
    <3> HIDE DEF m
    <3>2. /\ m \div BytsPerClus \in Nat /\ (m \div BytsPerClus) * BytsPerClus <= m
          /\ m % BytsPerClus \in Nat
      BY <3>1, Aligned
    <3>3. p = m \div BytsPerClus /\ r = m % BytsPerClus
      BY DEF m
    <3> HIDE DEF p, r
    <3>4. p * BytsPerClus < n * BytsPerClus
      <4> DEFINE a == p * BytsPerClus
      <4>1. a <= m /\ a \in Int
        BY <3>2, <3>3, <1>0
      <4> HIDE DEF a
      <4>2. a < z
        BY <4>1, <3>1, <1>1
      <4> QED BY <4>2 DEF a, z
    <3>5. p <= n - 1
      <4> SUFFICES ASSUME p >= n PROVE FALSE
        BY <3>2, <3>3
      <4>1. (p - n) * BytsPerClus >= 0 /\ (p - n) * BytsPerClus = p * BytsPerClus - n * BytsPerClus
        BY <3>2, <3>3, <1>0
      <4>2. p * BytsPerClus \in Int /\ n * BytsPerClus \in Int
        BY <3>2, <3>3, <1>0
      <4> QED BY <4>1, <4>2, <3>4
    <3> QED BY <3>2, <3>3, <3>5
  <2>4. d[skip + j] = <<Cluster + p, r>>
    <3>1. skip + j \in 1 .. z /\ (skip + j) - 1 = skip + i
      BY <2>1, <1>0, <1>1
    <3> QED BY <3>1, <1>2
  <2>5. ContentOf(vol)[Cursor + j] = <<Chain[q + p + 1], r>>
    <3> DEFINE m == Cursor + i
    <3>1. m \in Nat /\ m < vol.size /\ Cursor + j = m + 1
      BY <2>1, VolumeType
    <3>2. m \div BytsPerClus = q + p /\ m % BytsPerClus = r
      BY <2>2
    <3> HIDE DEF m, p, r
    <3> QED BY <3>1, <3>2, ContentIs
  <2> HIDE DEF p, r
  <2>6. Cluster + p = Chain[q + p + 1]
    <3>1. p \in 0 .. n - 1 /\ Index + p = q + p + 1
      BY <2>3, <1>0 DEF Index, q
    <3> QED BY <3>1 DEF Run, Chain
  <2>7. piece[j] = d[skip + j]
    BY <1>3, <1>4
  <2> QED BY <2>4, <2>5, <2>6, <2>7
<1> QED BY <1>3, <1>4, <1>5 DEF piece, Part, e, d, skip

\* Where a piece of a run ends: after its last cluster, or with the request in the
\* last cluster of the run.
LEMMA PieceEnds ==
    ASSUME Cursor \in Nat, nBytes \in Nat, NEW N \in Nat \ {0}, NEW n \in 1 .. N, NEW len,
           nBytes > 0, (N - 1) * BytsPerClus < (Cursor % BytsPerClus) + nBytes,
           len = Min2(nBytes, n * BytsPerClus - (Cursor % BytsPerClus))
    PROVE  /\ len \in Nat /\ len <= nBytes
           /\ (Cursor % BytsPerClus) + len <= n * BytsPerClus
           /\ \/ /\ (Cursor + len) \div BytsPerClus = Cursor \div BytsPerClus + n
                 /\ (Cursor + len) % BytsPerClus = 0
                 /\ N - n > 0 => nBytes - len > 0 /\ (N - n - 1) * BytsPerClus < nBytes - len
              \/ /\ n = N
                 /\ (Cursor + len) \div BytsPerClus = Cursor \div BytsPerClus + N - 1
                 /\ (Cursor + len) % BytsPerClus # 0
<1> DEFINE B == BytsPerClus
           skip == Cursor % B
           q == Cursor \div B
           m == Cursor + len
           nB == n * B
           NB == (N - 1) * B
           qB == q * B
<1>0. /\ B \in Nat \ {0} /\ skip \in Nat /\ skip < B /\ q \in Nat
      /\ qB \in Nat /\ Cursor = qB + skip /\ n \in Nat /\ n >= 1 /\ n <= N
  BY Aligned, ClusSize
<1>1. NB < skip + nBytes /\ len = IF nBytes <= nB - skip THEN nBytes ELSE nB - skip
  BY DEF Min2
<1> HIDE DEF B, skip, q
<1>2. nB \in Nat /\ NB \in Nat /\ nB >= B
  BY <1>0
<1>3. (q + n) * B = qB + nB /\ (q + (N - 1)) * B = qB + NB /\ (n - 1) * B = nB - B
  BY <1>0
<1>4. (N - 1 - n) * B = NB - nB
  BY <1>0
<1>5. N - 1 - n >= 0 => (N - 1 - n) * B >= 0
  BY <1>0
<1> HIDE DEF nB, NB, qB
<1>6. len \in Nat /\ len <= nBytes /\ skip + len <= nB
  BY <1>0, <1>1, <1>2
<1>7. CASE nB - skip <= nBytes
  <2>1. len = nB - skip
    BY <1>7, <1>0, <1>1, <1>2
  <2>2. m = (q + n) * B + 0 /\ 0 \in 0 .. B - 1 /\ q + n \in Nat
    <3> HIDE DEF m
    <3>1. m = Cursor + len
      BY DEF m
    <3> DEFINE w == (q + n) * B
    <3>2. w = qB + nB
      BY <1>3
    <3> HIDE DEF w
    <3>3. m = w + 0
      BY <3>1, <3>2, <2>1, <1>0, <1>2
    <3> QED BY <3>3, <1>0 DEF w
  <2> HIDE DEF m
  <2>3. m \div B = q + n /\ m % B = 0
    <3> DEFINE a == q + n
    <3>1. m = a * B + 0 /\ a \in Nat /\ 0 \in 0 .. B - 1
      BY <2>2
    <3> HIDE DEF a
    <3>2. m \div B = a /\ m % B = 0
      BY <3>1, <1>0, DivUnique
    <3> QED BY <3>2 DEF a
  <2>4. (N - n - 1) * B < nBytes - len /\ N - n - 1 = N - 1 - n
    <3>1. N - n - 1 = N - 1 - n
      BY <1>0
    <3>2. NB - nB < nBytes - len
      BY <2>1, <1>0, <1>1, <1>2
    <3> QED BY <3>1, <3>2, <1>4
  <2>5. N - n > 0 => nBytes - len > 0
    <3> SUFFICES ASSUME N - n > 0 PROVE nBytes - len > 0
      OBVIOUS
    <3>1. N - 1 - n >= 0
      BY <1>0
    <3> DEFINE w == (N - 1 - n) * B
    <3>2. w >= 0 /\ w = NB - nB
      BY <3>1, <1>5, <1>4
    <3> HIDE DEF w
    <3> QED BY <3>2, <2>1, <1>0, <1>1, <1>2
  <2> QED BY <2>3, <2>4, <2>5, <1>6 DEF m, B, q, skip, nB
<1>8. CASE ~(nB - skip <= nBytes)
  <2>1. len = nBytes
    BY <1>8, <1>0, <1>1, <1>2
  <2>2. n = N
    <3> SUFFICES ASSUME N - 1 - n >= 0 PROVE FALSE
      BY <1>0
    <3> DEFINE w == (N - 1 - n) * B
    <3>2. w >= 0 /\ w = NB - nB
      BY <1>5, <1>4
    <3> HIDE DEF w
    <3> QED BY <3>2, <1>0, <1>1, <1>2, <1>8
  <2>3. nB - B = NB
    BY <2>2, <1>3 DEF NB
  <2> DEFINE r == skip + len - NB
  <2>4. r \in 0 .. B - 1 /\ r # 0
    BY <2>1, <2>3, <1>0, <1>1, <1>2, <1>8
  <2>5. m = (q + (N - 1)) * B + r /\ q + (N - 1) \in Nat
    <3> DEFINE w == (q + (N - 1)) * B
    <3>1. w = qB + NB
      BY <1>3
    <3> HIDE DEF w
    <3>2. m = w + r
      BY <3>1, <1>0, <1>2, <1>6
    <3> QED BY <3>2, <1>0 DEF w
  <2> HIDE DEF m, r
  <2>6. m \div B = q + (N - 1) /\ m % B = r
    <3> DEFINE a == q + (N - 1)
    <3>1. m = a * B + r /\ a \in Nat
      BY <2>5
    <3> HIDE DEF a
    <3>2. m \div B = a /\ m % B = r
      BY <3>1, <2>4, <1>0, DivUnique
    <3> QED BY <3>2 DEF a
  <2>7. q + (N - 1) = q + N - 1
    BY <1>0
  <2> QED BY <2>2, <2>4, <2>6, <2>7, <1>6 DEF m, B, q, skip, nB
<1> QED BY <1>7, <1>8

LEMMA ReadPieceInv ==
    ASSUME FatInv, ReadPiece
    PROVE  FatInv'
<1> DEFINE skip == Cursor % BytsPerClus
<1>0. /\ vol \in Volumes /\ Cluster \in Nat /\ Index \in Nat \ {0} /\ Exact \in BOOLEAN
      /\ nBytes \in Nat /\ pc = "run" /\ Cursor \in Nat /\ nClusters \in Nat \ {0}
      /\ start \in Nat /\ nextClus \in Nat
  BY IndexIs, ExactType DEF FatInv, FatType, ReadPiece
<1>1. PICK n \in Tried(nClusters) :
          LET len == Min2(nBytes, n * BytsPerClus - skip)
          IN /\ n = nClusters \/ IoMayFail
             /\ Buffer' = Buffer \o SubSeq(ClusterData(Cluster, n), skip + 1, skip + len)
             /\ nBytes' = nBytes - len
             /\ nClusters' = nClusters - n
             /\ Advance(len)
  BY DEF ReadPiece
<1> DEFINE len == Min2(nBytes, n * BytsPerClus - skip)
           piece == SubSeq(ClusterData(Cluster, n), skip + 1, skip + len)
<1>2. /\ Buffer' = Buffer \o piece /\ nBytes' = nBytes - len /\ nClusters' = nClusters - n
      /\ Cluster' = Cluster + ((Cursor + len) \div BytsPerClus - Cursor \div BytsPerClus)
      /\ Cursor' = Cursor + len
  BY <1>1 DEF Advance
<1>3. n \in 1 .. nClusters /\ n \in Nat \ {0} /\ n <= nClusters
  <2>1. n \in 1 .. nClusters
    BY <1>0, TriedIs
  <2> QED BY <2>1, <1>0
<1>4. /\ Run(vol, Cluster, Index, nClusters)
      /\ nBytes > 0 /\ (nClusters - 1) * BytsPerClus < skip + nBytes
      /\ Leads(vol, Exact, nextClus, Index + nClusters)
  <2>1. nClusters > 0
    BY <1>0
  <2> QED BY <2>1, <1>0 DEF FatInv, Running
<1>5. /\ len \in Nat /\ len <= nBytes /\ skip + len <= n * BytsPerClus
      /\ \/ /\ (Cursor + len) \div BytsPerClus = Cursor \div BytsPerClus + n
            /\ (Cursor + len) % BytsPerClus = 0
            /\ nClusters - n > 0 =>
                  nBytes - len > 0 /\ (nClusters - n - 1) * BytsPerClus < nBytes - len
         \/ /\ n = nClusters
            /\ (Cursor + len) \div BytsPerClus = Cursor \div BytsPerClus + nClusters - 1
            /\ (Cursor + len) % BytsPerClus # 0
  <2>1. len = Min2(nBytes, n * BytsPerClus - (Cursor % BytsPerClus))
    OBVIOUS
  <2> HIDE DEF len
  <2> QED BY <2>1, <1>0, <1>3, <1>4, PieceEnds
<1>6. vol.size \in Nat /\ Cursor + len <= vol.size
  <2> HIDE DEF len
  <2>1. Cursor + nBytes <= vol.size
    BY <1>0 DEF FatInv, Reading
  <2> QED BY <2>1, <1>0, <1>5, VolumeType
<1>7. /\ piece \in Seq(Bytes) /\ Len(piece) = len
      /\ \A j \in 1 .. len : piece[j] = ContentOf(vol)[Cursor + j]
  <2>1. Run(vol, Cluster, Index, n)
    BY <1>0, <1>3, <1>4 DEF Run
  <2>2. skip + len <= n * BytsPerClus /\ len \in Nat /\ Cursor + len <= vol.size
    BY <1>5, <1>6
  <2> HIDE DEF len
  <2> QED BY <2>1, <2>2, <1>0, <1>3, PieceIs
<1> HIDE DEF len, piece
<1>8. Reading'
  <2>1. /\ request.op = "read" /\ request.n \in Nat /\ ok = TRUE /\ start <= Cursor
        /\ Buffer = SubSeq(ContentOf(vol), start + 1, Cursor)
        /\ Cursor + nBytes <= vol.size /\ Cursor - start + nBytes <= request.n
    BY <1>0 DEF FatInv, Reading
  <2>2. Buffer' = SubSeq(ContentOf(vol), start + 1, Cursor + len)
    <3> DEFINE c == ContentOf(vol)
    <3>1. c \in Seq(Bytes) /\ Len(c) = vol.size
      BY <1>0, ContentIs
    <3>2. \A j \in 1 .. len : piece[j] = c[Cursor + j]
      BY <1>7
    <3>3. Buffer = Part(c, start, Cursor) /\ Buffer' = Join(Buffer, piece)
      BY <2>1, <1>2 DEF Part, Join
    <3> HIDE DEF c
    <3>4. Cursor + len <= Len(c)
      BY <3>1, <1>6
    <3>5. Join(Part(c, start, Cursor), piece) = Part(c, start, Cursor + len)
      <4>1. /\ start \in Nat /\ Cursor \in Nat /\ start <= Cursor
            /\ piece \in Seq(Bytes) /\ Len(piece) = len /\ len \in Nat
        BY <2>1, <1>0, <1>5, <1>7
      <4> DEFINE e == Cursor + len
      <4>2. e \in Nat /\ Cursor + Len(piece) = e /\ e <= Len(c)
            /\ \A j \in 1 .. Len(piece) : piece[j] = c[Cursor + j]
        BY <3>2, <3>4, <4>1
      <4> HIDE DEF e
      <4>3. Join(Part(c, start, Cursor), piece) = Part(c, start, e)
        <5>1. c \in Seq(Bytes) /\ piece \in Seq(Bytes) /\ start \in Nat /\ Cursor \in Nat
              /\ start <= Cursor
          BY <3>1, <4>1
        <5>2. Continues(c, piece, start, Cursor, e)
          BY <5>1, <4>2 DEF Continues
        <5> QED BY <5>2, Joins
      <4> QED BY <4>3 DEF e
    <3> QED BY <3>3, <3>5 DEF c, Part
  <2>3. ContentOf(vol)' = ContentOf(vol)
    BY DEF ReadPiece, ContentOf
  <2>4. request' = request /\ ok' = ok /\ start' = start /\ vol' = vol
    BY DEF ReadPiece
  <2>5. start <= Cursor' /\ Cursor' + nBytes' <= vol.size /\ Cursor' - start + nBytes' <= request.n
    BY <2>1, <1>0, <1>2, <1>5, <1>6
  <2> QED BY <2>1, <2>2, <2>3, <2>4, <2>5, <1>2 DEF Reading
<1>9. vol' = vol /\ nextClus' = nextClus /\ Exact' = Exact /\ pc' = "run"
  BY <1>0, ExactKept DEF ReadPiece
<1>10. CASE /\ (Cursor + len) \div BytsPerClus = Cursor \div BytsPerClus + n
            /\ (Cursor + len) % BytsPerClus = 0
            /\ nClusters - n > 0 =>
                  nBytes - len > 0 /\ (nClusters - n - 1) * BytsPerClus < nBytes - len
  <2>1. Cluster' = Cluster + n /\ Index' = Index + n /\ Cursor' % BytsPerClus = 0
    <3> DEFINE q == Cursor \div BytsPerClus
               d == (Cursor + len) \div BytsPerClus
    <3>1. q \in Nat
      BY <1>0, Here
    <3>2. Cluster' = Cluster + (d - q) /\ Index = q + 1 /\ Index' = d + 1
          /\ Cursor' % BytsPerClus = 0
      BY <1>2, <1>10 DEF Index
    <3>3. d = q + n
      BY <1>10
    <3> HIDE DEF d
    <3> HIDE DEF q
    <3> QED BY <3>1, <3>2, <3>3, <1>0, <1>3
  <2>2. FatType'
    BY <2>1, <1>0, <1>2, <1>3, <1>5, <1>6 DEF FatInv, FatType, ReadPiece
  <2>3. Run(vol, Cluster + n, Index + n, nClusters - n)
    <3> SUFFICES ASSUME NEW j \in 0 .. nClusters - n - 1
                 PROVE  /\ Index + n + j \in 1 .. Len(vol.chain)
                        /\ Cluster + n + j = vol.chain[Index + n + j]
      BY DEF Run
    <3>1. /\ n + j \in 0 .. nClusters - 1
          /\ Index + n + j = Index + (n + j) /\ Cluster + n + j = Cluster + (n + j)
      BY <1>0, <1>3
    <3> QED BY <3>1, <1>4 DEF Run
  <2>4. Index + n + (nClusters - n) = Index + nClusters
    BY <1>0, <1>3
  <2>5. nClusters - n > 0 =>
           nBytes - len > 0 /\ (nClusters - n - 1) * BytsPerClus < 0 + (nBytes - len)
    BY <1>0, <1>5, <1>10
  <2>6. Running'
    BY <2>1, <2>3, <2>4, <2>5, <1>2, <1>4, <1>9 DEF Running
  <2> QED BY <2>2, <2>6, <1>8, <1>9 DEF FatInv, Tracking, Seeking
<1>11. CASE /\ n = nClusters
            /\ (Cursor + len) \div BytsPerClus = Cursor \div BytsPerClus + nClusters - 1
            /\ (Cursor + len) % BytsPerClus # 0
  <2>1. /\ Cluster' = Cluster + (n - 1) /\ Index' = Index + (n - 1)
        /\ Cursor' % BytsPerClus # 0 /\ nClusters' = 0
    <3> DEFINE q == Cursor \div BytsPerClus
               d == (Cursor + len) \div BytsPerClus
    <3>1. q \in Nat
      BY <1>0, Here
    <3>2. Cluster' = Cluster + (d - q) /\ Index = q + 1 /\ Index' = d + 1
          /\ Cursor' % BytsPerClus # 0
      BY <1>2, <1>11 DEF Index
    <3>3. d = q + n - 1
      BY <1>11
    <3> HIDE DEF d
    <3> HIDE DEF q
    <3> QED BY <3>1, <3>2, <3>3, <1>0, <1>2, <1>3, <1>11
  <2>2. FatType'
    BY <2>1, <1>0, <1>2, <1>3, <1>5, <1>6 DEF FatInv, FatType, ReadPiece
  <2>3. Run(vol, Cluster + (n - 1), Index + (n - 1), 1)
    <3> SUFFICES ASSUME NEW j \in 0 .. 1 - 1
                 PROVE  /\ Index + (n - 1) + j \in 1 .. Len(vol.chain)
                        /\ Cluster + (n - 1) + j = vol.chain[Index + (n - 1) + j]
      BY DEF Run
    <3>1. /\ n - 1 \in 0 .. nClusters - 1
          /\ Index + (n - 1) + j = Index + (n - 1) /\ Cluster + (n - 1) + j = Cluster + (n - 1)
      BY <1>0, <1>3
    <3> QED BY <3>1, <1>4 DEF Run
  <2>4. Run(vol, Cluster + (n - 1), Index + (n - 1), 0)
    BY DEF Run
  <2>5. Running'
    BY <2>1, <2>3, <2>4, <1>9 DEF Running
  <2> QED BY <2>2, <2>5, <1>8, <1>9 DEF FatInv, Tracking, Seeking
<1> QED BY <1>5, <1>10, <1>11

LEMMA InitFat == Init => FatInv
<1> SUFFICES ASSUME Init PROVE FatInv
  OBVIOUS
<1>1. vol \in Volumes /\ vol.size \in Nat
  BY VolumeType DEF Init
<1>2. FirstCluster(vol) \in Nat /\ \A e \in BOOLEAN : Leads(vol, e, FirstCluster(vol), 1)
  BY <1>1, FirstLeads
<1>3. FatType
  <2>1. start <= vol.size /\ Cursor <= vol.size
    BY <1>1 DEF Init
  <2>2. failed \in BOOLEAN /\ clean \in BOOLEAN /\ ok \in BOOLEAN
    BY DEF Init
  <2> QED BY <1>1, <1>2, <2>1, <2>2 DEF Init, FatType
<1>4. Index = 1
  <2>1. 0 \div BytsPerClus = 0
    BY ClusSize
  <2> QED BY <2>1 DEF Index, Init
<1>5. Tracking
  BY <1>2, <1>3, <1>4, ExactType DEF Tracking, Init
<1> QED BY <1>3, <1>5 DEF FatInv, Reading, Running, Seeking, Init

\* Every step keeps the invariant.
LEMMA StepFat ==
    ASSUME FatInv, GarbageEnds, FirstFits, Call \/ Step
    PROVE  FatInv'
<1>1. CASE Call
  BY <1>1, CallReadInv, CallSeekInv DEF Call
<1>2. CASE Step
  BY <1>2, FindRunInv, ReadPieceInv, PieceFailsInv, RunDoneInv, ReadDoneInv, SeekStepInv,
     SeekDoneInv, SeekRefusedInv DEF Step
<1> QED BY <1>1, <1>2

LEMMA StutterFat == FatInv /\ UNCHANGED vars => FatInv'
<1> SUFFICES ASSUME FatInv, UNCHANGED vars PROVE FatInv'
  OBVIOUS
<1>1. FatType' /\ Exact' = Exact /\ Index' = Index
  BY ExactKept DEF FatInv, FatType, Index, vars
<1>2. Reading'
  BY DEF FatInv, Reading, ContentOf, vars
<1>3. Running'
  BY <1>1 DEF FatInv, Running, vars
<1>4. Seeking'
  BY DEF FatInv, Seeking, SeekTarget, Target, InFile, IsCall, vars
<1> QED BY <1>1, <1>2, <1>3, <1>4 DEF FatInv, Tracking, vars

LEMMA FileSteps ==
    ASSUME FatInv, GarbageEnds, FirstFits, [CallFile \/ StepFile]_allVars
    PROVE  FatInv'
BY StepFat, StutterFat DEF CallFile, StepFile, allVars

\* A file's cluster is the one its cursor is in, whatever was read, sought or failed
\* before.
THEOREM TracksCursor ==
    ASSUME GarbageEnds, FirstFits
    PROVE  FileSpec => []ClusterTracksCursor
<1>1. FileInit => FatInv
  BY InitFat DEF FileInit
<1>2. FatInv /\ [CallFile \/ StepFile]_allVars => FatInv'
  BY FileSteps
<1>3. FatInv => ClusterTracksCursor
  BY DEF FatInv, Tracking, Leads, ClusterTracksCursor, Idle, Valid, Index
<1> QED BY <1>1, <1>2, <1>3, PTL DEF FileSpec

\* Unless a sector was unreadable a file that is not at its end is ready to be read on,
\* if the table's entries have no bits but those of the numbers.
THEOREM ReadsOn ==
    ASSUME GarbageEnds, FirstFits, Reserved = 0
    PROVE  FileSpec => []ReadyToRead
<1>1. FileInit => FatInv
  BY InitFat DEF FileInit
<1>2. FatInv /\ [CallFile \/ StepFile]_allVars => FatInv'
  BY FileSteps
<1>3. FatInv => ReadyToRead
  <2> SUFFICES ASSUME FatInv, Idle, clean, ~failed, Cursor < vol.size PROVE Valid(Cluster)
    BY DEF ReadyToRead
  <2>1. Extra = 0
    BY SMT DEF Extra
  <2>2. Exact
    BY <2>1, Zenon DEF Exact
  <2>3. vol \in Volumes /\ Cursor \in Nat /\ Leads(vol, Exact, Cluster, Index)
    BY DEF FatInv, FatType, Tracking, Idle
  <2>4. Index \in 1 .. Len(Chain)
    BY <2>3, IndexIn DEF Index
  <2>5. Cluster = Chain[Index]
    BY <2>2, <2>3, <2>4 DEF Leads, Chain
  <2> QED BY <2>3, <2>4, <2>5, VolumeType
<1> QED BY <1>1, <1>2, <1>3, PTL DEF FileSpec

----------------------------------------------------------------------------
(* A file on a FAT volume implements ByteFile *)

\* A step that does not end the call is not seen.
LEMMA Hidden ==
    ASSUME pc # "idle", pc' # "idle", UNCHANGED <<vol, request, start>>
    PROVE  UNCHANGED Promise!vars
BY DEF Promise!vars, Idle, ContentOf

\* The end of a read, with what has been delivered.
LEMMA ReadReturns ==
    ASSUME FatInv, pc \in {"read", "run"}, pc' = "idle",
           UNCHANGED <<vol, Cursor, request, Buffer, ok>>
    PROVE  Promise!Next
<1> DEFINE k == Cursor - start
           c == ContentOf(vol)
<1>1. /\ vol \in Volumes /\ vol.size \in Nat /\ Cursor \in Nat /\ start \in Nat /\ nBytes \in Nat
      /\ Cursor <= vol.size
  BY VolumeType DEF FatInv, FatType
<1>2. /\ request.op = "read" /\ request.n \in Nat /\ ok = TRUE /\ start <= Cursor
      /\ Buffer = SubSeq(c, start + 1, Cursor) /\ Cursor - start + nBytes <= request.n
  BY DEF FatInv, Reading
<1>3. Len(c) = vol.size
  BY <1>1, ContentIs
<1>4. c' = c
  BY DEF ContentOf
<1> HIDE DEF c
<1>5. k \in 0 .. Len(c) /\ k <= request.n /\ start + k = Cursor /\ start + k <= Len(c)
  BY <1>1, <1>2, <1>3
<1> HIDE DEF k
<1>6. Promise!ReturnRead(k)
  BY <1>2, <1>4, <1>5 DEF Promise!ReturnRead, Idle, c
<1> QED BY <1>5, <1>6 DEF Promise!Next, c

LEMMA SeekReturns ==
    ASSUME FatInv, SeekDone \/ SeekRefused
    PROVE  Promise!Next
<1> DEFINE c == ContentOf(vol)
<1>1. vol \in Volumes /\ vol.size \in Nat
  BY VolumeType DEF FatInv, FatType
<1>2. Len(c) = vol.size
  BY <1>1, ContentIs
<1>3. c' = c
  BY DEF ContentOf, SeekDone, SeekRefused
<1>4. Promise!Target(request, start, vol.size) = SeekTarget
  BY DEF Promise!Target, Target, SeekTarget
<1> HIDE DEF c
<1>5. request.op = "seek" /\ Buffer = << >> /\ (InFile(SeekTarget) <=> pc = "seek")
  BY DEF FatInv, Seeking, SeekDone, SeekRefused
<1>6. CASE SeekDone
  <2>1. /\ pc = "seek" /\ pc' = "idle" /\ Cursor' = SeekTarget /\ ok' = TRUE
        /\ Buffer' = << >> /\ request' = request
    BY <1>5, <1>6 DEF SeekDone
  <2>2. 0 <= SeekTarget /\ SeekTarget < vol.size
    BY <1>5, <2>1 DEF InFile
  <2>3. Promise!ReturnSeek
    BY <1>2, <1>3, <1>4, <1>5, <2>1, <2>2 DEF Promise!ReturnSeek, Idle, c
  <2> QED BY <2>3 DEF Promise!Next
<1>7. CASE SeekRefused
  <2>1. /\ pc = "refuse" /\ pc' = "idle" /\ Cursor' = start /\ ok' = FALSE
        /\ Buffer' = << >> /\ request' = request
    BY <1>5, <1>7 DEF SeekRefused, FatInv, Seeking
  <2>2. ~(0 <= SeekTarget /\ SeekTarget < vol.size)
    BY <1>5, <2>1 DEF InFile
  <2>3. Promise!ReturnSeek
    BY <1>2, <1>3, <1>4, <1>5, <2>1, <2>2 DEF Promise!ReturnSeek, Promise!NoAnswer, Idle, c
  <2> QED BY <2>3 DEF Promise!Next
<1> QED BY <1>6, <1>7

LEMMA FatImplements ==
    ASSUME FatInv, Call \/ Step
    PROVE  Promise!Next \/ UNCHANGED Promise!vars
<1>1. ASSUME NEW r \in Requests, CallRead(r) \/ CallSeek(r) PROVE Promise!Next
  <2>1. /\ pc = "idle" /\ pc' # "idle" /\ request' = r /\ start' = Cursor /\ vol' = vol
    BY <1>1 DEF CallRead, CallSeek, Idle
  <2>2. Promise!Call(r)
    BY <2>1 DEF Promise!Call, Promise!NoAnswer, Idle, ContentOf
  <2> QED BY <2>2 DEF Promise!Next
<1>2. CASE FindRun \/ ReadPiece \/ RunDone \/ SeekStep
  BY <1>2, Hidden DEF FindRun, ReadPiece, RunDone, SeekStep
<1>3. CASE ReadDone \/ PieceFails
  BY <1>3, ReadReturns DEF ReadDone, PieceFails
<1>4. CASE SeekDone \/ SeekRefused
  BY <1>4, SeekReturns
<1> QED BY <1>1, <1>2, <1>3, <1>4 DEF Call, Step

LEMMA FileImplements ==
    ASSUME FatInv, [CallFile \/ StepFile]_allVars
    PROVE  [Promise!Next]_(Promise!vars)
<1>1. CASE UNCHANGED vars
  BY <1>1 DEF vars, Promise!vars, Idle, ContentOf
<1> QED BY <1>1, FatImplements DEF CallFile, StepFile, allVars

\* However the file is fragmented, whatever was read or sought before and wherever a
\* sector is unreadable or memory short: the bytes that fat.c's _ReadFile returns are
\* those of the file at the cursor, and _SetFilePointer moves the cursor where it is
\* told or refuses.
THEOREM FatFileImplementsByteFile ==
    ASSUME GarbageEnds, FirstFits
    PROVE  FileSpec => Refines
<1>1. FileInit => FatInv
  BY InitFat DEF FileInit
<1>2. FatInv /\ [CallFile \/ StepFile]_allVars => FatInv'
  BY FileSteps
<1>3. FileInit => Promise!Init
  <2> SUFFICES ASSUME Init PROVE Promise!Init
    BY DEF FileInit
  <2>1. ContentOf(vol) \in Contents
    BY DEF Init, Contents
  <2> QED BY <2>1 DEF Init, Promise!Init, Promise!NoAnswer, Idle
<1>4. FatInv /\ [CallFile \/ StepFile]_allVars => [Promise!Next]_(Promise!vars)
  BY FileImplements
<1> QED BY <1>1, <1>2, <1>3, <1>4, PTL DEF FileSpec, Refines, Promise!Spec

----------------------------------------------------------------------------
(* A device opened as a file *)

LEMMA SecSize == BytsPerSec \in Nat \ {0} /\ DevSectors \in Nat /\ Raw!Size \in Nat
BY RawAssumption DEF Raw!Size

LEMMA RawContentIs ==
    ASSUME NEW first \in Nat, NEW n \in Nat, NEW z, z = n * BytsPerSec
    PROVE  /\ Raw!SectorData(first, n) \in Seq(Bytes) /\ Len(Raw!SectorData(first, n)) = z
           /\ \A j \in Nat : j < z =>
                 Raw!SectorData(first, n)[j + 1] = <<first + j \div BytsPerSec, j % BytsPerSec>>
<1> DEFINE d == Raw!SectorData(first, n)
<1>0. z \in Nat
  BY SecSize
<1>1. d = [k \in 1 .. z |-> <<first + (k - 1) \div BytsPerSec, (k - 1) % BytsPerSec>>]
  BY DEF Raw!SectorData
<1> HIDE DEF d
<1>2. ASSUME NEW k \in 1 .. z
      PROVE  <<first + (k - 1) \div BytsPerSec, (k - 1) % BytsPerSec>> \in Bytes
  <2>1. k - 1 \in Nat
    BY <1>0
  <2>2. (k - 1) \div BytsPerSec \in Nat /\ (k - 1) % BytsPerSec \in Nat
    BY <2>1, SecSize, DivMod
  <2> QED BY <2>2 DEF Bytes
<1>3. d \in Seq(Bytes) /\ Len(d) = z
  BY <1>0, <1>1, <1>2
<1>4. ASSUME NEW j \in Nat, j < z
      PROVE  d[j + 1] = <<first + j \div BytsPerSec, j % BytsPerSec>>
  <2>1. j + 1 \in 1 .. z /\ (j + 1) - 1 = j
    BY <1>0, <1>4
  <2> QED BY <2>1, <1>1
<1> QED BY <1>3, <1>4 DEF d

\* The inductive invariant of a raw device.
RawInv ==
    /\ rCursor \in Nat /\ rCursor <= Raw!Size /\ rStart \in Nat /\ rBytes \in Nat
    /\ rPc \in {"idle", "loop", "seek"}
    /\ rPc = "loop" =>
          /\ rRequest.op = "read" /\ rRequest.n \in Nat /\ rOk = TRUE
          /\ rStart <= rCursor
          /\ rBuffer = SubSeq(Raw!Content, rStart + 1, rCursor)
          /\ rCursor - rStart + rBytes <= rRequest.n
    /\ rPc = "seek" =>
          /\ IsCall(rRequest) /\ rRequest.op = "seek"
          /\ rCursor = rStart /\ rBuffer = << >>

LEMMA RawCallInv ==
    ASSUME RawInv, NEW r \in RawRequests, Raw!CallRead(r) \/ Raw!CallSeek(r)
    PROVE  RawInv'
<1>1. CASE Raw!CallRead(r)
  <2>1. rCursor \in Nat /\ rCursor <= Raw!Size /\ r.n \in Nat
    BY <1>1, RawAssumption DEF RawInv, Raw!CallRead, IsCall
  <2>2. /\ rCursor' = rCursor /\ rStart' = rCursor /\ rBytes' = r.n /\ rPc' = "loop"
        /\ rRequest' = r /\ r.op = "read" /\ rOk' = TRUE /\ rBuffer' = << >>
    BY <1>1 DEF Raw!CallRead
  <2>3. SubSeq(Raw!Content, rCursor + 1, rCursor) = << >>
    <3>1. Raw!Content \in Seq(Bytes)
      BY SecSize, RawContentIs DEF Raw!Content
    <3> QED BY <3>1, <2>1
  <2>4. Raw!Content' = Raw!Content /\ Raw!Size' = Raw!Size
    BY DEF Raw!Content, Raw!SectorData, Raw!Size
  <2>5. rCursor - rCursor + r.n <= r.n
    BY <2>1
  <2> QED BY <2>1, <2>2, <2>3, <2>4, <2>5 DEF RawInv
<1>2. CASE Raw!CallSeek(r)
  <2>1. /\ rCursor' = rCursor /\ rStart' = rCursor /\ rBytes' = rBytes /\ rPc' = "seek"
        /\ rRequest' = r /\ r.op = "seek" /\ rBuffer' = << >>
    BY <1>2 DEF Raw!CallSeek
  <2>2. IsCall(r) /\ Raw!Size' = Raw!Size
    BY RawAssumption DEF Raw!Size
  <2> QED BY <2>1, <2>2 DEF RawInv, IsCall
<1> QED BY <1>1, <1>2

\* A read of nothing less than a byte touches a sector.
LEMMA NeededIs ==
    ASSUME RawInv, rBytes > 0
    PROVE  Raw!Needed \in Nat \ {0}
<1> DEFINE B == BytsPerSec
           skip == rCursor % B
           m == skip + rBytes + B - 1
           l == m \div B
<1>1. B \in Nat \ {0} /\ rCursor \in Nat /\ rBytes \in Nat
  BY SecSize DEF RawInv
<1>2. skip \in Nat
  BY <1>1, DivMod
<1> HIDE DEF skip
<1>3. m \in Nat /\ m >= B
  BY <1>1, <1>2
<1> HIDE DEF m
<1> DEFINE r == m % B
<1>4. l \in Nat /\ r \in 0 .. B - 1 /\ m = l * B + r
  BY <1>1, <1>3, DivMod
<1> HIDE DEF l, r
<1>5. l # 0
  <2> SUFFICES ASSUME l = 0 PROVE FALSE
    OBVIOUS
  <2>1. l * B = 0
    BY <1>1
  <2> QED BY <2>1, <1>1, <1>3, <1>4
<1> QED BY <1>4, <1>5 DEF Raw!Needed, l, m, skip, B

LEMMA RawTriedIs ==
    ASSUME NEW n \in Nat \ {0}
    PROVE  Raw!Tried(n) \subseteq 1 .. n
<1>1. \A c \in 2 .. n : c \in 1 .. n
  OBVIOUS
<1>2. n \in 1 .. n
  OBVIOUS
<1> QED BY <1>1, <1>2, Zenon DEF Raw!Tried

\* The bytes of n sectors of the device, from the cursor on.
LEMMA RawPieceIs ==
    ASSUME rCursor \in Nat, NEW n \in Nat \ {0}, NEW len \in Nat,
           (rCursor % BytsPerSec) + len <= n * BytsPerSec, Raw!Sector + n <= DevSectors
    PROVE  LET skip == rCursor % BytsPerSec
               piece == SubSeq(Raw!SectorData(Raw!Sector, n), skip + 1, skip + len)
           IN /\ piece \in Seq(Bytes) /\ Len(piece) = len /\ rCursor + len <= Raw!Size
              /\ \A j \in 1 .. len : piece[j] = Raw!Content[rCursor + j]
<1> DEFINE B == BytsPerSec
           skip == rCursor % B
           q == rCursor \div B
           e == skip + len
           d == Raw!SectorData(q, n)
           z == n * B
           piece == Part(d, skip, e)
           size == DevSectors * B
<1>0. skip \in Nat /\ q \in Nat /\ B \in Nat \ {0} /\ rCursor = q * B + skip
      /\ DevSectors \in Nat /\ q = Raw!Sector
  <2>1. B \in Nat \ {0} /\ DevSectors \in Nat
    BY SecSize
  <2>2. skip \in 0 .. B - 1 /\ q \in Nat /\ rCursor = q * B + skip
    BY <2>1, DivMod
  <2>3. skip \in Nat
    BY <2>1, <2>2
  <2> QED BY <2>1, <2>2, <2>3 DEF Raw!Sector
<1>a. skip + len <= n * B /\ q + n <= DevSectors
  BY DEF Raw!Sector
<1> HIDE DEF skip, q, B
<1>b. z \in Nat /\ size \in Nat /\ q * B \in Nat
  BY <1>0
<1>c. (q + n) * B = q * B + z /\ (DevSectors - (q + n)) * B = size - (q + n) * B
  BY <1>0
<1>d. (DevSectors - (q + n)) * B >= 0
  BY <1>0, <1>a
<1>1. e \in Nat /\ skip <= e /\ e <= z /\ e = skip + len /\ rCursor + len <= size
  <2> DEFINE x == q * B
             y == (q + n) * B
             w == (DevSectors - (q + n)) * B
  <2>1. x \in Nat /\ y = x + z /\ w = size - y /\ w >= 0 /\ rCursor = x + skip
    BY <1>0, <1>b, <1>c, <1>d
  <2>2. skip + len <= z
    BY <1>a
  <2> HIDE DEF x, y, w, z, size
  <2> QED BY <2>1, <2>2, <1>0, <1>b
<1>2. d \in Seq(Bytes) /\ Len(d) = z
      /\ \A i \in Nat : i < z => d[i + 1] = <<q + i \div B, i % B>>
  <2>1. z = n * BytsPerSec
    BY DEF B
  <2>2. q \in Nat /\ n \in Nat
    BY <1>0
  <2> HIDE DEF z
  <2>3. d \in Seq(Bytes) /\ Len(d) = z
    BY <2>1, <2>2, RawContentIs
  <2>4. \A i \in Nat : i < z => d[i + 1] = <<q + i \div B, i % B>>
    BY <2>1, <2>2, RawContentIs DEF B
  <2> QED BY <2>3, <2>4
<1>3. \A i \in Nat : i < size => Raw!Content[i + 1] = <<0 + i \div B, i % B>>
  BY <1>0, RawContentIs DEF B, Raw!Content
<1> HIDE DEF e, d, z, size
<1>4. /\ piece \in Seq(Bytes) /\ Len(piece) = e - skip
      /\ \A j \in 1 .. e - skip : piece[j] = d[skip + j]
  <2>1. d \in Seq(Bytes) /\ skip \in Nat /\ e \in Nat /\ skip <= e /\ e <= Len(d)
    BY <1>0, <1>1, <1>2
  <2> QED BY <2>1, PartIs
<1>5. e - skip = len
  BY <1>0, <1>1
<1>6. ASSUME NEW j \in 1 .. len PROVE piece[j] = Raw!Content[rCursor + j]
  <2> DEFINE i == j - 1
             p == (skip + i) \div B
             r == (skip + i) % B
  <2>1. i \in Nat /\ skip + i \in Nat /\ skip + i < z /\ j = i + 1 /\ rCursor + i \in Nat
        /\ rCursor + i < size
    BY <1>0, <1>1, <1>b
  <2>2. (rCursor + i) \div B = q + p /\ (rCursor + i) % B = r
    BY <2>1, <1>0, DivSum DEF skip, q
  <2>3. p \in Nat
    <3> DEFINE m == skip + i
    <3>1. m \in Nat
      BY <2>1
    <3> HIDE DEF m
    <3>2. m \div B \in Nat
      BY <3>1, <1>0, DivMod
    <3> QED BY <3>2 DEF m
  <2>4. d[skip + j] = <<q + p, r>>
    <3>1. skip + j = (skip + i) + 1
      BY <2>1, <1>0
    <3> QED BY <3>1, <2>1, <1>2
  <2>5. Raw!Content[rCursor + j] = <<q + p, r>>
    <3>1. rCursor + j = (rCursor + i) + 1
      BY <2>1, <1>0
    <3>2. Raw!Content[(rCursor + i) + 1] = <<0 + (rCursor + i) \div B, (rCursor + i) % B>>
      BY <2>1, <1>3
    <3> HIDE DEF p, r
    <3>3. 0 + (q + p) = q + p
      BY <2>3, <1>0
    <3> QED BY <3>1, <3>2, <3>3, <2>2
  <2>6. piece[j] = d[skip + j]
    BY <1>4, <1>5
  <2> QED BY <2>4, <2>5, <2>6
<1> QED BY <1>0, <1>1, <1>4, <1>5, <1>6 DEF piece, Part, e, d, skip, B, size, Raw!Size

LEMMA RawReadPieceInv ==
    ASSUME RawInv, Raw!ReadPiece
    PROVE  RawInv'
<1> DEFINE skip == rCursor % BytsPerSec
           c == Raw!Content
<1>0. /\ rCursor \in Nat /\ rCursor <= Raw!Size /\ rStart \in Nat /\ rBytes \in Nat
      /\ rPc = "loop" /\ rBytes > 0 /\ rRequest.op = "read" /\ rRequest.n \in Nat
      /\ rOk = TRUE /\ rStart <= rCursor /\ rBuffer = SubSeq(c, rStart + 1, rCursor)
      /\ rCursor - rStart + rBytes <= rRequest.n
  BY DEF RawInv, Raw!ReadPiece
<1>1. PICK n \in Raw!Tried(Raw!Needed) :
          LET len == Raw!Min2(rBytes, n * BytsPerSec - skip)
          IN /\ Raw!Sector + n <= DevSectors
             /\ rBuffer' = rBuffer \o SubSeq(Raw!SectorData(Raw!Sector, n), skip + 1, skip + len)
             /\ rBytes' = rBytes - len
             /\ rCursor' = rCursor + len
  BY DEF Raw!ReadPiece
<1> DEFINE len == Raw!Min2(rBytes, n * BytsPerSec - skip)
           piece == SubSeq(Raw!SectorData(Raw!Sector, n), skip + 1, skip + len)
<1>2. /\ Raw!Sector + n <= DevSectors /\ rBuffer' = rBuffer \o piece
      /\ rBytes' = rBytes - len /\ rCursor' = rCursor + len
  BY <1>1
<1>3. n \in Nat \ {0}
  <2> DEFINE m == Raw!Needed
  <2>1. m \in Nat \ {0}
    BY <1>0, NeededIs
  <2> HIDE DEF m
  <2>2. Raw!Tried(m) \subseteq 1 .. m
    BY <2>1, RawTriedIs
  <2>3. n \in 1 .. m
    BY <2>2 DEF m
  <2> QED BY <2>1, <2>3
<1>4. len \in Nat /\ len <= rBytes /\ skip + len <= n * BytsPerSec
  <2> DEFINE z == n * BytsPerSec
  <2>1. BytsPerSec \in Nat \ {0} /\ skip \in 0 .. BytsPerSec - 1
    BY <1>0, SecSize, DivMod
  <2> HIDE DEF skip
  <2>2. z \in Nat /\ z >= BytsPerSec
    BY <2>1, <1>3
  <2>3. len = IF rBytes <= z - skip THEN rBytes ELSE z - skip
    BY DEF Raw!Min2
  <2> HIDE DEF z, len
  <2>4. len \in Nat /\ len <= rBytes /\ skip + len <= z
    BY <2>1, <2>2, <2>3, <1>0
  <2> QED BY <2>4 DEF z
<1> HIDE DEF len
<1>5. /\ piece \in Seq(Bytes) /\ Len(piece) = len /\ rCursor + len <= Raw!Size
      /\ \A j \in 1 .. len : piece[j] = c[rCursor + j]
  BY <1>0, <1>2, <1>3, <1>4, RawPieceIs
<1>6. c \in Seq(Bytes) /\ Len(c) = Raw!Size
  BY SecSize, RawContentIs DEF Raw!Content, Raw!Size
<1> HIDE DEF piece
<1>7. rBuffer' = SubSeq(c, rStart + 1, rCursor + len)
  <2> DEFINE e == rCursor + len
  <2>1. rBuffer = Part(c, rStart, rCursor) /\ rBuffer' = Join(rBuffer, piece)
    BY <1>0, <1>2 DEF Part, Join
  <2>2. e \in Nat /\ rCursor + Len(piece) = e /\ e <= Len(c)
        /\ \A j \in 1 .. Len(piece) : piece[j] = c[rCursor + j]
    BY <1>0, <1>4, <1>5, <1>6
  <2> HIDE DEF e
  <2>3. c \in Seq(Bytes) /\ piece \in Seq(Bytes) /\ rStart \in Nat /\ rCursor \in Nat
        /\ rStart <= rCursor
    BY <1>0, <1>5, <1>6
  <2> HIDE DEF c
  <2>4. Join(Part(c, rStart, rCursor), piece) = Part(c, rStart, e)
    <3>1. Continues(c, piece, rStart, rCursor, e)
      BY <2>2, <2>3 DEF Continues
    <3> QED BY <3>1, Joins
  <2> QED BY <2>1, <2>4 DEF Part, e
<1>8. c' = c /\ Raw!Size' = Raw!Size
  BY DEF Raw!Content, Raw!SectorData, Raw!Size
<1>9. rPc' = rPc /\ rRequest' = rRequest /\ rStart' = rStart /\ rOk' = rOk
  BY DEF Raw!ReadPiece
<1>10. /\ rCursor' \in Nat /\ rCursor' <= Raw!Size /\ rBytes' \in Nat /\ rStart <= rCursor'
       /\ rCursor' - rStart + rBytes' <= rRequest.n
  <2>1. rCursor + len <= Raw!Size
    BY <1>5
  <2> QED BY <2>1, <1>0, <1>2, <1>4
<1> QED BY <1>0, <1>2, <1>7, <1>8, <1>9, <1>10 DEF RawInv

LEMMA RawTargetType ==
    ASSUME NEW r, IsCall(r), r.op = "seek", NEW cur \in Nat
    PROVE  Raw!Target(r, cur) \in Int
BY SecSize DEF Raw!Target, IsCall

LEMMA RawSeekInv ==
    ASSUME RawInv, Raw!Seek
    PROVE  RawInv'
<1> DEFINE t == Raw!Target(rRequest, rCursor)
<1>1. t \in Int /\ Raw!Size \in Nat /\ Raw!Size' = Raw!Size /\ rCursor \in Nat
      /\ rCursor <= Raw!Size
  BY RawTargetType, SecSize DEF RawInv, Raw!Seek, Raw!Size
<1>2. /\ rOk' = Raw!InDevice(t) /\ rCursor' = (IF rOk' THEN t ELSE rCursor) /\ rPc' = "idle"
      /\ rStart' = rStart /\ rBytes' = rBytes
  BY DEF Raw!Seek
<1> HIDE DEF t
<1>3. rCursor' \in Nat /\ rCursor' <= Raw!Size
  <2>1. CASE rOk'
    <3>1. t >= 0 /\ t < Raw!Size /\ rCursor' = t
      BY <2>1, <1>2, Zenon DEF Raw!InDevice
    <3> QED BY <3>1, <1>1
  <2>2. CASE ~rOk'
    BY <2>2, <1>1, <1>2
  <2> QED BY <2>1, <2>2
<1> QED BY <1>1, <1>2, <1>3 DEF RawInv

LEMMA RawStepInv ==
    ASSUME RawInv, Raw!Call \/ Raw!Step
    PROVE  RawInv'
<1>0. Raw!Size' = Raw!Size
  BY DEF Raw!Size
<1>1. CASE Raw!Done \/ Raw!PieceFails
  BY <1>0, <1>1 DEF RawInv, Raw!Done, Raw!PieceFails
<1> QED BY <1>1, RawCallInv, RawReadPieceInv, RawSeekInv DEF Raw!Call, Raw!Step

LEMMA RawFileSteps ==
    ASSUME RawInv, [CallFile \/ StepFile]_allVars
    PROVE  RawInv'
<1>1. CASE UNCHANGED rawVars
  <2>1. Raw!Size' = Raw!Size /\ Raw!Content' = Raw!Content
    BY DEF Raw!Size, Raw!Content, Raw!SectorData
  <2> QED BY <1>1, <2>1 DEF RawInv, rawVars, IsCall
<1> QED BY <1>1, RawStepInv DEF CallFile, StepFile, allVars

\* A step that does not end the call is not seen.
LEMMA RawHidden ==
    ASSUME rPc # "idle", rPc' # "idle", UNCHANGED <<rRequest, rStart>>
    PROVE  UNCHANGED Raw!Promise!vars
<1>1. Raw!Content' = Raw!Content
  BY DEF Raw!Content, Raw!SectorData
<1> QED BY <1>1 DEF Raw!Promise!vars, Raw!Idle

LEMMA RawReadReturns ==
    ASSUME RawInv, rPc = "loop", rPc' = "idle",
           UNCHANGED <<rCursor, rRequest, rBuffer, rOk>>
    PROVE  Raw!Promise!Next
<1> DEFINE k == rCursor - rStart
           c == Raw!Content
<1>1. /\ rCursor \in Nat /\ rStart \in Nat /\ rBytes \in Nat /\ rCursor <= Raw!Size
      /\ rRequest.op = "read" /\ rRequest.n \in Nat /\ rOk = TRUE /\ rStart <= rCursor
      /\ rBuffer = SubSeq(c, rStart + 1, rCursor) /\ rCursor - rStart + rBytes <= rRequest.n
      /\ Raw!Size \in Nat
  BY SecSize DEF RawInv
<1>2. Len(c) = Raw!Size
  BY SecSize, RawContentIs DEF Raw!Content, Raw!Size
<1>3. c' = c
  BY DEF Raw!Content, Raw!SectorData
<1> HIDE DEF c
<1>4. k \in 0 .. Len(c) /\ k <= rRequest.n /\ rStart + k = rCursor /\ rStart + k <= Len(c)
  BY <1>1, <1>2
<1> HIDE DEF k
<1>5. Raw!Promise!ReturnRead(k)
  BY <1>1, <1>3, <1>4 DEF Raw!Promise!ReturnRead, Raw!Idle, c
<1> QED BY <1>4, <1>5 DEF Raw!Promise!Next, c

LEMMA RawSeekReturns ==
    ASSUME RawInv, Raw!Seek
    PROVE  Raw!Promise!Next
<1> DEFINE c == Raw!Content
           t == Raw!Target(rRequest, rCursor)
<1>1. Len(c) = Raw!Size
  BY SecSize, RawContentIs DEF Raw!Content, Raw!Size
<1>2. c' = c
  BY DEF Raw!Content, Raw!SectorData
<1>3. /\ rRequest.op = "seek" /\ rStart = rCursor /\ rBuffer' = << >> /\ rRequest' = rRequest
      /\ rOk' = Raw!InDevice(t) /\ rCursor' = (IF rOk' THEN t ELSE rCursor)
      /\ rPc = "seek" /\ rPc' = "idle"
  BY DEF RawInv, Raw!Seek
<1>4. Raw!Promise!Target(rRequest, rStart, Raw!Size) = t
  BY <1>3 DEF Raw!Promise!Target, Raw!Target
<1> HIDE DEF c, t
<1>5. CASE 0 <= t /\ t < Raw!Size
  <2>1. rOk' = TRUE /\ rCursor' = t
    BY <1>1, <1>3, <1>5 DEF Raw!InDevice
  <2>2. Raw!Promise!ReturnSeek
    BY <1>1, <1>2, <1>3, <1>4, <1>5, <2>1 DEF Raw!Promise!ReturnSeek, Raw!Idle, c
  <2> QED BY <2>2 DEF Raw!Promise!Next
<1>6. CASE ~(0 <= t /\ t < Raw!Size)
  <2>1. rOk' = FALSE /\ rCursor' = rCursor
    BY <1>1, <1>3, <1>6 DEF Raw!InDevice
  <2>2. Raw!Promise!ReturnSeek
    BY <1>1, <1>2, <1>3, <1>4, <1>6, <2>1
       DEF Raw!Promise!ReturnSeek, Raw!Promise!NoAnswer, Raw!Idle, c
  <2> QED BY <2>2 DEF Raw!Promise!Next
<1> QED BY <1>5, <1>6

LEMMA RawImplements ==
    ASSUME RawInv, [CallFile \/ StepFile]_allVars
    PROVE  [Raw!Promise!Next]_(Raw!Promise!vars)
<1>0. Raw!Content' = Raw!Content
  BY DEF Raw!Content, Raw!SectorData
<1>1. CASE UNCHANGED rawVars
  BY <1>0, <1>1 DEF rawVars, Raw!Promise!vars, Raw!Idle
<1>2. ASSUME NEW r \in RawRequests, Raw!CallRead(r) \/ Raw!CallSeek(r) PROVE Raw!Promise!Next
  <2>1. rPc = "idle" /\ rPc' # "idle" /\ rRequest' = r /\ rStart' = rCursor
    BY <1>2 DEF Raw!CallRead, Raw!CallSeek, Raw!Idle
  <2>2. Raw!Promise!Call(r)
    BY <2>1, <1>0 DEF Raw!Promise!Call, Raw!Promise!NoAnswer, Raw!Idle
  <2> QED BY <2>2 DEF Raw!Promise!Next
<1>3. CASE Raw!ReadPiece
  BY <1>3, RawHidden DEF Raw!ReadPiece
<1>4. CASE Raw!Done \/ Raw!PieceFails
  BY <1>4, RawReadReturns DEF Raw!Done, Raw!PieceFails
<1>5. CASE Raw!Seek
  BY <1>5, RawSeekReturns
<1> QED BY <1>1, <1>2, <1>3, <1>4, <1>5 DEF CallFile, StepFile, allVars, Raw!Call, Raw!Step

\* For every device and size of sectors, and however little memory there is for the
\* buffer: the bytes that raw.c's _ReadFile returns are those of the device at the
\* cursor, and seeks outside the device are refused.
THEOREM RawFileImplementsByteFile == FileSpec => RawRefines
<1>1. FileInit => RawInv
  BY SecSize DEF FileInit, Raw!Init, RawInv
<1>2. RawInv /\ [CallFile \/ StepFile]_allVars => RawInv'
  BY RawFileSteps
<1>3. FileInit => Raw!Promise!Init
  BY DEF FileInit, Raw!Init, Raw!Promise!Init, Raw!Promise!NoAnswer, Raw!Idle
<1>4. RawInv /\ [CallFile \/ StepFile]_allVars => [Raw!Promise!Next]_(Raw!Promise!vars)
  BY RawImplements
<1> QED BY <1>1, <1>2, <1>3, <1>4, PTL DEF FileSpec, RawRefines, Raw!Promise!Spec
=============================================================================
