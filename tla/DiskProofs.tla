---------------------------- MODULE DiskProofs ----------------------------
(***************************************************************************)
(* Proofs about drives and the devices on them.                            *)
(*                                                                         *)
(* Drive, for every number of drives, every geometry and every size of the *)
(* table: a drive has one entry, and a read returns the sectors that were  *)
(* asked for.                                                              *)
(*                                                                         *)
(* Devices, for every set of disks, whatever their partition tables hold,  *)
(* and every sequence of paths: an open device is the partition it was     *)
(* opened as, inside its drive, and there is one device for each partition *)
(* and mode.                                                               *)
(***************************************************************************)
EXTENDS Drive, Devices, Integers, TLAPS

----------------------------------------------------------------------------
(* Drives *)

Entries == [drive : Drives, edd : BOOLEAN, heads : Nat, sectors : Nat]

\* The table of drives, whatever its drives report.
TableInv ==
    /\ table \in Seq(Entries)
    /\ stale.heads \in Nat /\ stale.sectors \in Nat
    /\ OneEntryPerDrive

CallType ==
    /\ drivePc \in {"idle", "params", "read"}
    /\ call.sector \in Nat /\ call.n \in Nat
    /\ Sector \in Nat /\ nSectors \in Nat
    /\ Buffer \in Seq(Nat)

\* The entry of a drive that exists has its geometry.  This is where a drive must
\* not fail to report once and answer reads later.
TrueGeometry ==
    \A k \in 1 .. Len(table) :
        table[k].drive \notin Absent =>
            /\ table[k].heads = Geometry[table[k].drive].heads
            /\ table[k].sectors = Geometry[table[k].drive].sectors

\* A call stays on its drive and has read the first Len(Buffer) sectors.
Calling ==
    /\ drivePc # "idle" =>
          /\ call.drive \in Drives
          /\ call.sector + call.n <= TotalSectors(call.drive)
          /\ Sector = call.sector + Len(Buffer)
          /\ Len(Buffer) + nSectors = call.n
    /\ drivePc = "params" => Buffer = << >>
    /\ drivePc = "read" =>
          /\ 1 <= Len(table) /\ pdi.drive = call.drive
          /\ pdi.edd => Buffer = << >>

\* The inductive strengthening of ReadsWhatWasAsked.
DriveInv == TableInv /\ CallType /\ TrueGeometry /\ Calling /\ ReadsWhatWasAsked

----------------------------------------------------------------------------
(* Division *)

LEMMA Multiple ==
    ASSUME NEW m \in Nat \ {0}, NEW x \in Int
    PROVE  /\ x >= 1 => m * x >= m
           /\ x <= -1 => m * x <= -m
OBVIOUS

LEMMA Monotonic ==
    ASSUME NEW m \in Nat, NEW x \in Int, NEW y \in Int, x <= y
    PROVE  x * m <= y * m
<1>1. (y - x) * m >= 0
  OBVIOUS
<1>2. (y - x) * m = y * m - x * m
  OBVIOUS
<1> QED BY <1>1, <1>2

LEMMA DivMod ==
    ASSUME NEW n \in Nat, NEW m \in Nat \ {0}
    PROVE  n \div m \in Nat /\ n % m \in 0 .. m - 1 /\ n = (n \div m) * m + (n % m)
OBVIOUS

\* Quotient and remainder are unique.
LEMMA DivUnique ==
    ASSUME NEW m \in Nat \ {0}, NEW a \in Nat, NEW z \in 0 .. m - 1
    PROVE  (a * m + z) \div m = a /\ (a * m + z) % m = z
<1> DEFINE n == a * m + z
           d == n \div m
           r == n % m
<1>1. n \in Nat /\ d \in Int /\ r \in 0 .. m - 1 /\ n = m * d + r
  OBVIOUS
<1> HIDE DEF d, r
<1>2. m * (d - a) = z - r
  BY <1>1
<1>3. d - a = 0
  BY <1>1, <1>2, Multiple
<1>4. d = a
  BY <1>1, <1>3
<1> QED BY <1>1, <1>4 DEF d, r

\* The address of a sector: cylinder, head and sector of the track designate it.
LEMMA AddressIs ==
    ASSUME NEW H \in Nat \ {0}, NEW S \in Nat \ {0}, NEW C \in Nat \ {0}, NEW lba \in Nat,
           lba < H * S * C,
           NEW q \in Nat, NEW r \in 0 .. S - 1, lba = q * S + r,
           NEW a \in Nat, NEW b \in 0 .. H - 1, q = a * H + b
    PROVE  lba \div (H * S) = a /\ a < C /\ (a * H + b) * S + r = lba
<1>1. lba = a * (H * S) + (b * S + r)
  OBVIOUS
<1>2. H * S \in Nat \ {0} /\ b * S + r \in 0 .. (H * S) - 1
  <2>1. b * S \in Nat /\ H * S \in Nat \ {0}
    BY Multiple
  <2>2. b * S <= (H - 1) * S
    BY Monotonic
  <2>3. (H - 1) * S = H * S - S
    OBVIOUS
  <2> QED BY <2>1, <2>2, <2>3
<1>3. lba \div (H * S) = a
  BY <1>1, <1>2, DivUnique
<1>4. a < C
  <2> SUFFICES ASSUME C <= a PROVE FALSE
    OBVIOUS
  <2>1. C * (H * S) <= a * (H * S)
    BY <1>2, Monotonic
  <2>2. C * (H * S) = H * S * C /\ a * (H * S) \in Int
    BY <1>2
  <2> QED BY <2>1, <2>2, <1>1, <1>2
<1> QED BY <1>3, <1>4

----------------------------------------------------------------------------
(* The table *)

LEMMA Joined ==
    ASSUME NEW S, NEW s \in Seq(S), NEW t \in Seq(S), NEW m, NEW n,
           Len(s) = m, m + Len(t) = n
    PROVE  /\ s \o t \in Seq(S) /\ Len(s \o t) = n
           /\ \A j \in 1 .. n : (s \o t)[j] = IF j <= m THEN s[j] ELSE t[j - m]
OBVIOUS

LEMMA Part ==
    ASSUME NEW S, NEW s \in Seq(S), NEW m \in 1 .. Len(s) + 1, NEW n \in m - 1 .. Len(s)
    PROVE  /\ SubSeq(s, m, n) \in Seq(S) /\ Len(SubSeq(s, m, n)) = n - m + 1
           /\ \A j \in 1 .. n - m + 1 : SubSeq(s, m, n)[j] = s[m + j - 1]
OBVIOUS

LEMMA Rest ==
    ASSUME NEW S, NEW s \in Seq(S), NEW m \in 1 .. Len(s)
    PROVE  /\ SubSeq(s, m + 1, Len(s)) \in Seq(S) /\ Len(SubSeq(s, m + 1, Len(s))) = Len(s) - m
           /\ \A j \in 1 .. Len(s) - m : SubSeq(s, m + 1, Len(s))[j] = s[m + j]
<1>1. m + 1 \in 1 .. Len(s) + 1 /\ Len(s) \in (m + 1) - 1 .. Len(s)
      /\ Len(s) - (m + 1) + 1 = Len(s) - m
      /\ \A j \in 1 .. Len(s) - m : (m + 1) + j - 1 = m + j
  OBVIOUS
<1> DEFINE a == m + 1
           z == Len(s)
           r == SubSeq(s, a, z)
<1>2. a \in 1 .. Len(s) + 1 /\ z \in a - 1 .. Len(s)
  BY <1>1
<1> HIDE DEF a, z
<1>3. /\ r \in Seq(S) /\ Len(r) = z - a + 1
      /\ \A j \in 1 .. z - a + 1 : r[j] = s[a + j - 1]
  BY <1>2, Part
<1> HIDE DEF r
<1>4. /\ r \in Seq(S) /\ Len(r) = Len(s) - m
      /\ \A j \in 1 .. Len(s) - m : r[j] = s[m + j]
  BY <1>1, <1>3 DEF a, z
<1> QED BY <1>4 DEF r, a, z

\* A hit: the entries before the one that was found move back by one.
LEMMA ToFrontIs ==
    ASSUME table \in Seq(Entries), NEW k \in 1 .. Len(table)
    PROVE  /\ ToFront(k) \in Seq(Entries) /\ Len(ToFront(k)) = Len(table)
           /\ \A j \in 1 .. Len(table) :
                 ToFront(k)[j] = table[IF j = 1 THEN k ELSE IF j <= k THEN j - 1 ELSE j]
<1> DEFINE n == Len(table)
           front == <<table[k]>>
           head == SubSeq(table, 1, k - 1)
           tail == SubSeq(table, k + 1, n)
           fh == front \o head
<1>1. n \in Nat /\ k \in 1 .. n /\ table[k] \in Entries
  OBVIOUS
<1>2. front \in Seq(Entries) /\ Len(front) = 1 /\ front[1] = table[k]
  BY <1>1
<1>3. /\ head \in Seq(Entries) /\ Len(head) = k - 1
      /\ \A j \in 1 .. k - 1 : head[j] = table[j]
  <2>1. 1 \in 1 .. n + 1 /\ k - 1 \in 1 - 1 .. n /\ (k - 1) - 1 + 1 = k - 1
        /\ \A j \in 1 .. k - 1 : 1 + j - 1 = j
    BY <1>1
  <2> HIDE DEF n
  <2> QED BY <2>1, Part DEF n
<1>4. /\ tail \in Seq(Entries) /\ Len(tail) = n - k
      /\ \A j \in 1 .. n - k : tail[j] = table[k + j]
  BY Rest
<1> HIDE DEF head, tail, front
<1>5. /\ fh \in Seq(Entries) /\ Len(fh) = k
      /\ \A j \in 1 .. k : fh[j] = IF j <= 1 THEN front[j] ELSE head[j - 1]
  <2>1. /\ front \in Seq(Entries) /\ head \in Seq(Entries)
        /\ Len(front) = 1 /\ 1 + Len(head) = k
    BY <1>1, <1>2, <1>3
  <2> DEFINE one == 1
  <2>2. Len(front) = one /\ one + Len(head) = k
    BY <2>1
  <2> HIDE DEF one
  <2>3. /\ fh \in Seq(Entries) /\ Len(fh) = k
        /\ \A j \in 1 .. k : fh[j] = IF j <= one THEN front[j] ELSE head[j - one]
    BY <2>1, <2>2, Joined
  <2> QED BY <2>3 DEF one
<1>6. ToFront(k) = fh \o tail
  BY DEF ToFront, front, head, tail
<1> HIDE DEF fh
<1>7. /\ fh \o tail \in Seq(Entries) /\ Len(fh \o tail) = n
      /\ \A j \in 1 .. n : (fh \o tail)[j] = IF j <= k THEN fh[j] ELSE tail[j - k]
  <2>1. /\ fh \in Seq(Entries) /\ tail \in Seq(Entries)
        /\ Len(fh) = k /\ k + Len(tail) = n
    BY <1>1, <1>4, <1>5
  <2> HIDE DEF n
  <2> QED BY <2>1, Joined
<1>8. ASSUME NEW j \in 1 .. n
      PROVE  (fh \o tail)[j] = table[IF j = 1 THEN k ELSE IF j <= k THEN j - 1 ELSE j]
  <2>1. CASE j = 1
    BY <2>1, <1>1, <1>2, <1>5, <1>7
  <2>2. CASE j # 1 /\ j <= k
    <3>1. j - 1 \in 1 .. k - 1 /\ j \in 1 .. k /\ ~(j <= 1)
      BY <2>2, <1>1
    <3> QED BY <3>1, <2>2, <1>3, <1>5, <1>7
  <2>3. CASE ~(j <= k)
    <3>1. j - k \in 1 .. n - k /\ k + (j - k) = j /\ j # 1
      BY <2>3, <1>1
    <3> QED BY <3>1, <2>3, <1>4, <1>7
  <2> QED BY <2>1, <2>2, <2>3
<1> QED BY <1>6, <1>7, <1>8

\* A miss: a new entry in front of all, or all but the last.
LEMMA PushedIs ==
    ASSUME table \in Seq(Entries), NEW e \in Entries
    PROVE  /\ <<e>> \o Shifted \in Seq(Entries)
           /\ Len(<<e>> \o Shifted) >= 1
           /\ Len(<<e>> \o Shifted) <= Len(table) + 1
           /\ (<<e>> \o Shifted)[1] = e
           /\ \A j \in 2 .. Len(<<e>> \o Shifted) : (<<e>> \o Shifted)[j] = table[j - 1]
<1>1. /\ Shifted \in Seq(Entries) /\ Len(Shifted) \in Nat /\ Len(Shifted) <= Len(table)
      /\ \A j \in 1 .. Len(Shifted) : Shifted[j] = table[j]
  <2>1. CASE Len(table) = DRIVE_INFO_LENGTH
    <3>1. Len(table) \in Nat \ {0}
      BY <2>1, DriveAssumption
    <3> QED BY <2>1, <3>1 DEF Shifted
  <2>2. CASE Len(table) # DRIVE_INFO_LENGTH
    BY <2>2 DEF Shifted
  <2> QED BY <2>1, <2>2
<1> DEFINE s == Shifted
<1> HIDE DEF s
<1>2. <<e>> \o s \in Seq(Entries) /\ Len(<<e>> \o s) = Len(s) + 1
      /\ (<<e>> \o s)[1] = e
      /\ \A j \in 2 .. Len(s) + 1 : (<<e>> \o s)[j] = s[j - 1]
  BY <1>1 DEF s
<1>3. \A j \in 2 .. Len(s) + 1 : s[j - 1] = table[j - 1]
  BY <1>1 DEF s
<1> QED BY <1>1, <1>2, <1>3 DEF s

LEMMA WithoutLastIs ==
    ASSUME NEW t \in Seq(Entries), Len(t) >= 1
    PROVE  /\ WithoutLast(t) \in Seq(Entries) /\ Len(WithoutLast(t)) = Len(t) - 1
           /\ \A j \in 1 .. Len(t) - 1 : WithoutLast(t)[j] = t[j]
<1>1. Len(t) \in Nat \ {0}
  OBVIOUS
<1>2. 1 \in 1 .. Len(t) + 1 /\ Len(t) - 1 \in 1 - 1 .. Len(t)
      /\ (Len(t) - 1) - 1 + 1 = Len(t) - 1 /\ \A j \in 1 .. Len(t) - 1 : 1 + j - 1 = j
  BY <1>1
<1> QED BY <1>2, Part DEF WithoutLast

LEMMA ReportedType ==
    ASSUME NEW d \in Drives, NEW edd \in BOOLEAN
    PROVE  Reported(d, edd) \in Entries
BY DriveAssumption DEF Reported, Entry, Entries

----------------------------------------------------------------------------
(* Steps that change the table *)

LEMMA FoundTable ==
    ASSUME TableInv, NEW d \in Drives, Found(d)
    PROVE  /\ TableInv'
           /\ Len(table') >= 1 /\ table'[1].drive = d
           /\ \A j \in 1 .. Len(table') : \E k \in 1 .. Len(table) : table'[j] = table[k]
<1>1. PICK k \in CachedAt(d) : table' = ToFront(k) /\ stale' = table[k]
  BY DEF Found
<1>2. k \in 1 .. Len(table) /\ table[k].drive = d /\ table \in Seq(Entries)
  BY DEF CachedAt, TableInv
<1> DEFINE f(j) == IF j = 1 THEN k ELSE IF j <= k THEN j - 1 ELSE j
<1>3. /\ table' \in Seq(Entries) /\ Len(table') = Len(table)
      /\ \A j \in 1 .. Len(table) : table'[j] = table[f(j)]
  BY <1>1, <1>2, ToFrontIs
<1>4. Len(table) \in Nat /\ table[k] \in Entries
  BY <1>2
<1>5. \A j \in 1 .. Len(table) : f(j) \in 1 .. Len(table)
  BY <1>2, <1>4
<1>6. \A h, j \in 1 .. Len(table) : f(h) = f(j) => h = j
  BY <1>2, <1>4
<1> HIDE DEF f
<1>7. OneEntryPerDrive'
  BY <1>3, <1>5, <1>6 DEF OneEntryPerDrive, TableInv
<1>8. stale'.heads \in Nat /\ stale'.sectors \in Nat
  BY <1>1, <1>4 DEF Entries
<1>9. Len(table') >= 1 /\ table'[1] = table[k]
  BY <1>2, <1>3, <1>4 DEF f
<1> QED BY <1>2, <1>3, <1>5, <1>7, <1>8, <1>9 DEF TableInv

\* An entry for a drive that has none goes to the front.
LEMMA PushedTable ==
    ASSUME TableInv, NEW d \in Drives, CachedAt(d) = {}, NEW e \in Entries, e.drive = d
    PROVE  \A h, j \in 1 .. Len(<<e>> \o Shifted) :
              (<<e>> \o Shifted)[h].drive = (<<e>> \o Shifted)[j].drive => h = j
<1> DEFINE t == <<e>> \o Shifted
<1>1. table \in Seq(Entries) /\ Len(table) \in Nat
  BY DEF TableInv
<1>2. /\ t \in Seq(Entries) /\ Len(t) >= 1 /\ Len(t) <= Len(table) + 1 /\ t[1] = e
      /\ \A j \in 2 .. Len(t) : t[j] = table[j - 1]
  BY <1>1, PushedIs
<1> HIDE DEF t
<1>3. Len(t) \in Nat
  BY <1>2
<1>4. \A j \in 2 .. Len(t) : j - 1 \in 1 .. Len(table) /\ t[j].drive # d
  <2> SUFFICES ASSUME NEW j \in 2 .. Len(t)
               PROVE  j - 1 \in 1 .. Len(table) /\ t[j].drive # d
    OBVIOUS
  <2>1. j - 1 \in 1 .. Len(table)
    <3>1. Len(t) <= Len(table) + 1
      BY <1>2
    <3> QED BY <3>1, <1>1, <1>3
  <2> QED BY <2>1, <1>2 DEF CachedAt
<1>5. ASSUME NEW h \in 1 .. Len(t), NEW j \in 1 .. Len(t), t[h].drive = t[j].drive
      PROVE  h = j
  <2>1. CASE h = 1 /\ j # 1
    <3>1. j \in 2 .. Len(t)
      BY <2>1, <1>3
    <3> QED BY <3>1, <2>1, <1>2, <1>4, <1>5
  <2>2. CASE h # 1 /\ j = 1
    <3>1. h \in 2 .. Len(t)
      BY <2>2, <1>3
    <3> QED BY <3>1, <2>2, <1>2, <1>4, <1>5
  <2>3. CASE h # 1 /\ j # 1
    <3>1. h \in 2 .. Len(t) /\ j \in 2 .. Len(t)
      BY <2>3, <1>3
    <3>2. /\ h - 1 \in 1 .. Len(table) /\ j - 1 \in 1 .. Len(table)
          /\ t[h] = table[h - 1] /\ t[j] = table[j - 1]
      BY <3>1, <1>2, <1>4
    <3>3. table[h - 1].drive = table[j - 1].drive
      BY <3>2, <1>5
    <3>4. h - 1 = j - 1
      BY <3>2, <3>3 DEF TableInv, OneEntryPerDrive
    <3> QED BY <3>1, <3>4
  <2> QED BY <2>1, <2>2, <2>3
<1> QED BY <1>5 DEF t

LEMMA QueriedTable ==
    ASSUME TableInv, NEW d \in Drives, Queried(d)
    PROVE  /\ TableInv'
           /\ Len(table') >= 1 /\ table'[1].drive = d
           /\ \A j \in 1 .. Len(table') :
                 \/ \E edd \in BOOLEAN : table'[j] = Reported(d, edd)
                 \/ \E k \in 1 .. Len(table) : table'[j] = table[k]
<1>1. PICK edd \in BOOLEAN : table' = <<Reported(d, edd)>> \o Shifted /\ stale' = Reported(d, edd)
  BY DEF Queried
<1> DEFINE e == Reported(d, edd)
<1>2. e \in Entries /\ e.drive = d /\ e.heads \in Nat /\ e.sectors \in Nat
  BY ReportedType DEF Reported, Entry, Entries
<1>3. table \in Seq(Entries) /\ Len(table) \in Nat
  BY DEF TableInv
<1> HIDE DEF e
<1>4. /\ table' \in Seq(Entries) /\ Len(table') >= 1 /\ Len(table') <= Len(table) + 1
      /\ table'[1] = e
      /\ \A j \in 2 .. Len(table') : table'[j] = table[j - 1]
  BY <1>1, <1>2, <1>3, PushedIs DEF e
<1>5. OneEntryPerDrive'
  BY <1>1, <1>2, PushedTable DEF OneEntryPerDrive, Queried, e
<1>6. ASSUME NEW j \in 1 .. Len(table')
      PROVE  table'[j] = e \/ \E k \in 1 .. Len(table) : table'[j] = table[k]
  <2>1. CASE j # 1
    <3>1. Len(table') \in Nat /\ Len(table') <= Len(table) + 1
      BY <1>4
    <3>2. j \in 2 .. Len(table') /\ j - 1 \in 1 .. Len(table)
      BY <3>1, <2>1, <1>3
    <3> QED BY <3>2, <1>4
  <2> QED BY <2>1, <1>4
<1>7. stale' = e
  BY <1>1 DEF e
<1> QED BY <1>2, <1>4, <1>5, <1>6, <1>7 DEF TableInv, e

LEMMA FailedTable ==
    ASSUME TableInv, NEW d \in Drives, Failed(d)
    PROVE  /\ TableInv'
           /\ \A j \in 1 .. Len(table') :
                 \/ table'[j].drive = d
                 \/ \E k \in 1 .. Len(table) : table'[j] = table[k]
<1> DEFINE e == Entry(d, FALSE, stale.heads, stale.sectors)
           t == <<e>> \o Shifted
<1>1. table' = WithoutLast(t) /\ stale' = e /\ CachedAt(d) = {}
  BY DEF Failed
<1>2. e \in Entries /\ e.drive = d /\ e.heads \in Nat /\ e.sectors \in Nat
  BY DEF Entry, Entries, TableInv
<1>3. table \in Seq(Entries) /\ Len(table) \in Nat
  BY DEF TableInv
<1> HIDE DEF e
<1>4. /\ t \in Seq(Entries) /\ Len(t) >= 1 /\ Len(t) <= Len(table) + 1
      /\ t[1] = e
      /\ \A j \in 2 .. Len(t) : t[j] = table[j - 1]
  BY <1>2, <1>3, PushedIs
<1>5. \A h, j \in 1 .. Len(t) : t[h].drive = t[j].drive => h = j
  BY <1>1, <1>2, PushedTable
<1> HIDE DEF t
<1>6. Len(t) \in Nat
  BY <1>4
<1>7. /\ table' \in Seq(Entries) /\ Len(table') = Len(t) - 1
      /\ \A j \in 1 .. Len(t) - 1 : table'[j] = t[j]
  BY <1>1, <1>4, WithoutLastIs
<1>8. 1 .. Len(table') \subseteq 1 .. Len(t)
  BY <1>6, <1>7
<1>9. OneEntryPerDrive'
  BY <1>5, <1>7, <1>8 DEF OneEntryPerDrive
<1>10. ASSUME NEW j \in 1 .. Len(table')
       PROVE  table'[j].drive = d \/ \E k \in 1 .. Len(table) : table'[j] = table[k]
  <2>1. j \in 1 .. Len(t) /\ table'[j] = t[j]
    BY <1>7, <1>8
  <2>2. CASE j # 1
    <3>1. Len(t) <= Len(table) + 1
      BY <1>4
    <3>2. j \in 2 .. Len(t) /\ j - 1 \in 1 .. Len(table)
      BY <3>1, <2>1, <2>2, <1>3, <1>6
    <3> QED BY <3>2, <2>1, <1>4
  <2> QED BY <2>1, <2>2, <1>2, <1>4
<1> QED BY <1>1, <1>2, <1>7, <1>9, <1>10 DEF TableInv

LEMMA NextTable == TableInv /\ [DriveNext]_driveVars => TableInv'
<1> SUFFICES ASSUME TableInv, [DriveNext]_driveVars PROVE TableInv'
  OBVIOUS
<1>1. CASE UNCHANGED <<table, stale>>
  BY <1>1 DEF TableInv, OneEntryPerDrive
<1> QED BY <1>1, FoundTable, QueriedTable, FailedTable
        DEF DriveNext, driveVars, ReadDrive, ReadExtended, ReadTrack, ReadReturns

\* Whatever the drives report or fail to report, the table of recently used
\* drives describes a drive once (GetDriveParameters, drive.c).
THEOREM OneEntryPerDriveHolds == DriveSpec => []OneEntryPerDrive
<1>1. DriveInit => TableInv
  BY DEF DriveInit, TableInv, OneEntryPerDrive, Entry
<1>2. TableInv => OneEntryPerDrive
  BY DEF TableInv
<1> QED BY <1>1, <1>2, NextTable, PTL DEF DriveSpec

----------------------------------------------------------------------------
(* Reading *)

LEMMA TotalType ==
    ASSUME NEW d \in Drives
    PROVE  /\ TotalSectors(d) \in Nat
           /\ Geometry[d].heads \in Nat \ {0} /\ Geometry[d].sectors \in Nat \ {0}
           /\ Geometry[d].cylinders \in 1 .. MaxCylinders /\ MaxCylinders \in Nat
<1>1. \A a, b, c \in Nat : a * b * c \in Nat
  OBVIOUS
<1> QED BY <1>1, DriveAssumption DEF TotalSectors

LEMMA Remainder ==
    ASSUME NEW a \in Nat, NEW m \in Nat \ {0}
    PROVE  a % m \in 0 .. m - 1 /\ a % m <= a /\ (a < m => a % m = a)
<1>1. a % m \in 0 .. m - 1 /\ a \div m \in Nat /\ a = m * (a \div m) + (a % m)
  OBVIOUS
<1>2. m * (a \div m) >= 0
  BY <1>1
<1>3. ASSUME a < m PROVE a % m = a
  BY <1>3
<1> QED BY <1>1, <1>2, <1>3

\* What a transfer leaves in the buffer.
LEMMA TransferIs ==
    ASSUME NEW d \in Drives, NEW lba \in Nat, NEW n \in Nat
    PROVE  /\ Transfer(d, lba, n) \in Seq(Nat)
           /\ Transfer(d, lba, n) = << >> \/ Len(Transfer(d, lba, n)) = n
           /\ \A k \in 1 .. Len(Transfer(d, lba, n)) : Transfer(d, lba, n)[k] = lba + k - 1
<1> DEFINE f == [k \in 1 .. n |-> lba + k - 1]
<1>1. f \in Seq(Nat) /\ Len(f) = n /\ \A k \in 1 .. n : f[k] = lba + k - 1
  OBVIOUS
<1> HIDE DEF f
<1>2. Transfer(d, lba, n) \in {f, << >>}
  BY DEF Transfer, f
<1>3. CASE Transfer(d, lba, n) = f
  BY <1>1, <1>3
<1>4. CASE Transfer(d, lba, n) = << >>
  BY <1>4
<1> QED BY <1>2, <1>3, <1>4

\* The cylinder, head and sector that ReadDrive computes are where the drive has
\* the wanted sector, if the entry tells its geometry.
LEMMA LocatedIs ==
    ASSUME DriveInv, drivePc = "read", nSectors > 0, Located(call.drive, Address, Count) # << >>
    PROVE  /\ Count \in 1 .. nSectors
           /\ Located(call.drive, Address, Count) = Transfer(call.drive, Sector, Count)
<1> DEFINE d == call.drive
           H == Geometry[d].heads
           S == Geometry[d].sectors
           C == Geometry[d].cylinders
<1>1. d \notin Absent
  BY DEF Located
<1>2. /\ d \in Drives /\ 1 \in 1 .. Len(table) /\ pdi.drive = d
      /\ call.sector + call.n <= TotalSectors(d)
      /\ Sector = call.sector + Len(Buffer) /\ Len(Buffer) + nSectors = call.n
  BY DEF DriveInv, Calling, TableInv
<1>3. pdi.heads = H /\ pdi.sectors = S
  BY <1>1, <1>2 DEF DriveInv, TrueGeometry, pdi
<1>4. /\ H \in Nat \ {0} /\ S \in Nat \ {0} /\ C \in 1 .. MaxCylinders
      /\ MaxCylinders \in Nat /\ TotalSectors(d) \in Nat
  BY <1>2, TotalType
<1>5. /\ Sector \in Nat /\ nSectors \in Nat /\ call.sector \in Nat /\ call.n \in Nat
      /\ Len(Buffer) \in Nat
  BY DEF DriveInv, CallType
<1>6. Sector < H * S * C
  BY <1>2, <1>4, <1>5 DEF TotalSectors
<1> HIDE DEF H, S, C, d
<1>7. Count \in 1 .. nSectors
  <2>1. Sector % S \in 0 .. S - 1
    BY <1>4, <1>5, Remainder
  <2>2. Count = IF S - (Sector % S) < nSectors THEN S - (Sector % S) ELSE nSectors
    BY <1>3 DEF Count
  <2> QED BY <2>1, <2>2, <1>4, <1>5
<1> DEFINE q == Sector \div S
           s == Sector % S
           c == q \div H
           h == q % H
<1>8. q \in Nat /\ s \in 0 .. S - 1 /\ Sector = q * S + s
  BY <1>4, <1>5, DivMod
<1> HIDE DEF q
<1>9. c \in Nat /\ h \in 0 .. H - 1 /\ q = c * H + h
  <2>1. q \in Nat
    BY <1>8
  <2> QED BY <2>1, <1>4, DivMod
<1> HIDE DEF c, h
<1>10. Sector \div (H * S) = c /\ c < C /\ (c * H + h) * S + s = Sector
  <2>1. C \in Nat \ {0} /\ H \in Nat \ {0} /\ S \in Nat \ {0} /\ Sector \in Nat
    BY <1>4, <1>5
  <2> HIDE DEF s
  <2> QED BY <2>1, <1>6, <1>8, <1>9, AddressIs
<1>11. (Address.c * H + Address.h) * S + Address.s - 1 = Sector
  <2>1. c \in Nat /\ c < MaxCylinders /\ MaxCylinders \in Nat \ {0}
    BY <1>4, <1>9, <1>10
  <2>2. c % MaxCylinders = c
    BY <2>1, Remainder
  <2>3. Address = [c |-> c % MaxCylinders, h |-> h, s |-> s + 1]
    BY <1>3, <1>10 DEF Address, h, q
  <2>4. Address.c = c /\ Address.h = h /\ Address.s = s + 1
    BY <2>2, <2>3
  <2> HIDE DEF s
  <2> QED BY <2>1, <2>4, <1>4, <1>8, <1>9, <1>10
<1>12. Located(d, Address, Count) = Transfer(d, Sector, Count)
  BY <1>11 DEF Located, H, S, d
<1> QED BY <1>7, <1>12 DEF d

LEMMA InitDrive == DriveInit => DriveInv
<1> SUFFICES ASSUME DriveInit PROVE DriveInv
  OBVIOUS
<1>1. TableInv
  BY DEF DriveInit, TableInv, OneEntryPerDrive, Entry
<1>2. CallType /\ TrueGeometry
  BY DEF DriveInit, CallType, TrueGeometry
<1>3. Calling /\ ReadsWhatWasAsked
  BY DEF DriveInit, Calling, ReadsWhatWasAsked
<1> QED BY <1>1, <1>2, <1>3 DEF DriveInv

LEMMA ReadDriveIInv ==
    ASSUME DriveInv, NEW d \in Drives, NEW s \in Nat, NEW n \in Nat, s + n <= TotalSectors(d),
           ReadDrive(d, s, n)
    PROVE  DriveInv'
<1>1. /\ call' = [drive |-> d, sector |-> s, n |-> n] /\ Sector' = s /\ nSectors' = n
      /\ Buffer' = << >> /\ drivePc' = "params" /\ UNCHANGED <<table, stale>>
  BY DEF ReadDrive
<1>2. (TableInv /\ TrueGeometry)'
  BY <1>1 DEF DriveInv, TableInv, OneEntryPerDrive, TrueGeometry
<1>3. CallType'
  BY <1>1 DEF CallType
<1>4. Calling'
  BY <1>1 DEF Calling, TotalSectors
<1>5. ReadsWhatWasAsked'
  BY <1>1 DEF ReadsWhatWasAsked
<1> QED BY <1>2, <1>3, <1>4, <1>5 DEF DriveInv

\* The parameters of the drive are known, or are asked for.
LEMMA ParametersIInv ==
    ASSUME DriveInv, NEW d \in Drives, Found(d) \/ Queried(d)
    PROVE  DriveInv'
<1>1. drivePc = "params" /\ d = call.drive /\ drivePc' = "read" /\ UNCHANGED <<call, Sector, nSectors, Buffer>>
  BY DEF Found, Queried
<1>2. TableInv' /\ Len(table') >= 1 /\ table'[1].drive = d
  BY FoundTable, QueriedTable DEF DriveInv
<1>3. TrueGeometry'
  <2> SUFFICES ASSUME NEW j \in 1 .. Len(table'), table'[j].drive \notin Absent
               PROVE  /\ table'[j].heads = Geometry[table'[j].drive].heads
                      /\ table'[j].sectors = Geometry[table'[j].drive].sectors
    BY DEF TrueGeometry
  <2>1. CASE \E edd \in BOOLEAN : table'[j] = Reported(d, edd)
    BY <2>1 DEF Reported, Entry
  <2>2. CASE \E k \in 1 .. Len(table) : table'[j] = table[k]
    BY <2>2 DEF DriveInv, TrueGeometry
  <2> QED BY <2>1, <2>2, FoundTable, QueriedTable DEF DriveInv
<1>4. (CallType /\ ReadsWhatWasAsked)'
  BY <1>1 DEF DriveInv, CallType, ReadsWhatWasAsked
<1>5. Calling'
  BY <1>1, <1>2 DEF DriveInv, Calling, pdi, TotalSectors
<1> QED BY <1>2, <1>3, <1>4, <1>5 DEF DriveInv

\* A drive that never reports its parameters.
LEMMA FailedIInv ==
    ASSUME Unready \subseteq Absent, DriveInv, NEW d \in Drives, Failed(d)
    PROVE  DriveInv'
<1>1. drivePc' = "idle" /\ d \in Absent /\ UNCHANGED <<call, Sector, nSectors, Buffer>>
  BY DEF Failed
<1>2. TrueGeometry'
  BY <1>1, FailedTable DEF DriveInv, TrueGeometry
<1>3. (CallType /\ Calling /\ ReadsWhatWasAsked)'
  BY <1>1 DEF DriveInv, CallType, Calling, ReadsWhatWasAsked
<1> QED BY <1>2, <1>3, FailedTable DEF DriveInv

LEMMA ReadExtendedIInv ==
    ASSUME DriveInv, ReadExtended
    PROVE  DriveInv'
<1> DEFINE n == nSectors % MaxBlocks
<1>1. /\ drivePc = "read" /\ pdi.edd /\ drivePc' = "idle"
      /\ Buffer' = Transfer(call.drive, Sector, n) \/ Buffer' = << >>
      /\ UNCHANGED <<table, stale, call, Sector, nSectors>>
  BY DEF ReadExtended
<1>2. /\ Sector \in Nat /\ nSectors \in Nat /\ call.sector \in Nat /\ call.n \in Nat
      /\ call.drive \in Drives /\ Sector = call.sector /\ nSectors = call.n
  BY <1>1 DEF DriveInv, CallType, Calling
<1>3. n \in Nat /\ n <= nSectors
  BY <1>2, DriveAssumption, Remainder
<1> HIDE DEF n
<1>4. /\ Buffer' \in Seq(Nat) /\ Len(Buffer') <= nSectors
      /\ \A k \in 1 .. Len(Buffer') : Buffer'[k] = Sector + k - 1
  <2>1. CASE Buffer' = Transfer(call.drive, Sector, n)
    <3>1. /\ Buffer' \in Seq(Nat)
          /\ Buffer' = << >> \/ Len(Buffer') = n
          /\ \A k \in 1 .. Len(Buffer') : Buffer'[k] = Sector + k - 1
      <4> DEFINE d == call.drive
                 t == Transfer(d, Sector, n)
      <4>1. d \in Drives /\ Sector \in Nat /\ n \in Nat /\ Buffer' = t
        BY <2>1, <1>2, <1>3
      <4> HIDE DEF d
      <4>2. /\ t \in Seq(Nat) /\ (t = << >> \/ Len(t) = n)
            /\ \A k \in 1 .. Len(t) : t[k] = Sector + k - 1
        BY <4>1, TransferIs
      <4> HIDE DEF t
      <4> QED BY <4>1, <4>2
    <3>2. Len(Buffer') <= nSectors
      <4>1. CASE Buffer' = << >>
        BY <4>1, <1>2
      <4>2. CASE Len(Buffer') = n
        BY <4>2, <1>3
      <4> QED BY <3>1, <4>1, <4>2
    <3> QED BY <3>1, <3>2, Zenon
  <2>2. CASE Buffer' = << >>
    <3>1. Len(Buffer') = 0 /\ Buffer' \in Seq(Nat) /\ 1 .. Len(Buffer') = {}
      BY <2>2
    <3>2. 0 <= nSectors
      BY <1>2
    <3> QED BY <3>1, <3>2
  <2> QED BY <2>1, <2>2, <1>1
<1>5. ReadsWhatWasAsked'
  BY <1>1, <1>2, <1>4 DEF ReadsWhatWasAsked
<1>6. (TableInv /\ TrueGeometry)'
  BY <1>1 DEF DriveInv, TableInv, OneEntryPerDrive, TrueGeometry
<1>7. (CallType /\ Calling)'
  BY <1>1, <1>4 DEF DriveInv, CallType, Calling
<1> QED BY <1>5, <1>6, <1>7 DEF DriveInv

\* The sectors of a track follow those that were read before.
LEMMA ReadTrackIInv ==
    ASSUME DriveInv, ReadTrack
    PROVE  DriveInv'
<1> DEFINE b == Located(call.drive, Address, Count)
           n == Count
<1>1. /\ drivePc = "read" /\ ~pdi.edd /\ nSectors > 0 /\ b # << >>
      /\ Buffer' = Buffer \o b /\ nSectors' = nSectors - n /\ Sector' = Sector + n
      /\ UNCHANGED <<table, stale, drivePc, call>>
  BY DEF ReadTrack
<1>2. n \in 1 .. nSectors /\ b = Transfer(call.drive, Sector, n)
  BY <1>1, LocatedIs
<1>3. /\ Sector \in Nat /\ nSectors \in Nat /\ call.sector \in Nat /\ call.n \in Nat
      /\ Buffer \in Seq(Nat) /\ call.drive \in Drives
      /\ Sector = call.sector + Len(Buffer) /\ Len(Buffer) + nSectors = call.n
  BY <1>1 DEF DriveInv, CallType, Calling
<1> HIDE DEF b, n
<1>4. /\ b \in Seq(Nat) /\ Len(b) = n
      /\ \A k \in 1 .. Len(b) : b[k] = Sector + k - 1
  <2>1. n \in Nat
    BY <1>2, <1>3
  <2> DEFINE d == call.drive
             t == Transfer(d, Sector, n)
  <2>2. d \in Drives /\ Sector \in Nat /\ b = t /\ b # << >>
    BY <1>1, <1>2, <1>3
  <2> HIDE DEF d
  <2>3. /\ t \in Seq(Nat) /\ (t = << >> \/ Len(t) = n)
        /\ \A k \in 1 .. Len(t) : t[k] = Sector + k - 1
    BY <2>1, <2>2, TransferIs
  <2> HIDE DEF t
  <2> QED BY <2>2, <2>3
<1>5. Len(Buffer) \in Nat /\ n \in Nat
  BY <1>2, <1>3
<1>6. /\ Buffer' \in Seq(Nat) /\ Len(Buffer') = Len(Buffer) + n
      /\ \A k \in 1 .. Len(Buffer') : Buffer'[k] = IF k <= Len(Buffer) THEN Buffer[k]
                                                   ELSE b[k - Len(Buffer)]
  <2> DEFINE m == Len(Buffer)
             all == m + n
             r == Buffer \o b
  <2>1. Buffer \in Seq(Nat) /\ b \in Seq(Nat) /\ Len(Buffer) = m /\ m + Len(b) = all
    BY <1>3, <1>4
  <2> HIDE DEF m, all
  <2>2. /\ r \in Seq(Nat) /\ Len(r) = all
        /\ \A k \in 1 .. all : r[k] = IF k <= m THEN Buffer[k] ELSE b[k - m]
    BY <2>1, Joined
  <2>3. Buffer' = r
    BY <1>1
  <2> HIDE DEF r
  <2> QED BY <2>2, <2>3 DEF m, all
<1>7. ReadsWhatWasAsked'
  <2>1. Len(Buffer') <= call.n
    BY <1>2, <1>3, <1>5, <1>6
  <2>2. ASSUME NEW k \in 1 .. Len(Buffer') PROVE Buffer'[k] = call.sector + k - 1
    <3>1. k \in 1 .. Len(Buffer) + n
      BY <1>6
    <3>2. CASE k <= Len(Buffer)
      <4>1. k \in 1 .. Len(Buffer)
        BY <3>1, <3>2, <1>5
      <4> QED BY <4>1, <3>2, <1>6 DEF DriveInv, ReadsWhatWasAsked
    <3>3. CASE ~(k <= Len(Buffer))
      <4>1. k - Len(Buffer) \in 1 .. Len(b)
        BY <3>1, <3>3, <1>4, <1>5
      <4>2. Buffer'[k] = Sector + (k - Len(Buffer)) - 1
        BY <4>1, <3>3, <1>4, <1>6
      <4> QED BY <4>2, <3>1, <1>3, <1>5
    <3> QED BY <3>2, <3>3
  <2> QED BY <2>1, <2>2, <1>1 DEF ReadsWhatWasAsked
<1>8. (TableInv /\ TrueGeometry)'
  BY <1>1 DEF DriveInv, TableInv, OneEntryPerDrive, TrueGeometry
<1>9. /\ Sector' \in Nat /\ nSectors' \in Nat
      /\ Sector' = call.sector + Len(Buffer') /\ Len(Buffer') + nSectors' = call.n
  <2>1. Sector' = Sector + n /\ nSectors' = nSectors - n /\ Len(Buffer') = Len(Buffer) + n
    BY <1>1, <1>6
  <2>2. Sector' \in Nat /\ nSectors' \in Nat
    BY <2>1, <1>2, <1>3, <1>5
  <2> QED BY <2>1, <2>2, <1>3, <1>5
<1>10. CallType'
  BY <1>1, <1>6, <1>9 DEF DriveInv, CallType
<1>11. Calling'
  BY <1>1, <1>9 DEF DriveInv, Calling, pdi, TotalSectors
<1> QED BY <1>7, <1>8, <1>10, <1>11 DEF DriveInv

LEMMA NextDrive == Unready \subseteq Absent /\ DriveInv /\ [DriveNext]_driveVars => DriveInv'
<1> SUFFICES ASSUME Unready \subseteq Absent, DriveInv, [DriveNext]_driveVars PROVE DriveInv'
  OBVIOUS
<1>1. CASE UNCHANGED driveVars
  BY <1>1 DEF driveVars, DriveInv, TableInv, OneEntryPerDrive, TrueGeometry, CallType, Calling, pdi,
              TotalSectors, ReadsWhatWasAsked
<1>2. CASE ReadReturns
  <2>1. drivePc' = "idle" /\ UNCHANGED <<table, stale, call, Sector, nSectors, Buffer>>
    BY <1>2 DEF ReadReturns
  <2> QED BY <2>1 DEF DriveInv, TableInv, OneEntryPerDrive, TrueGeometry, CallType, Calling,
                      ReadsWhatWasAsked
<1>3. ASSUME NEW d \in Drives, NEW s \in 0 .. TotalSectors(d) - 1, NEW n \in 0 .. MaxCount,
             s + n <= TotalSectors(d), ReadDrive(d, s, n)
      PROVE  DriveInv'
  BY <1>3, TotalType, DriveAssumption, ReadDriveIInv
<1> QED BY <1>1, <1>2, <1>3, ParametersIInv, FailedIInv, ReadExtendedIInv, ReadTrackIInv
        DEF DriveNext

\* If a drive that once failed to report its parameters never answers a read:
\* for every geometry and every request, ReadDrive returns the sectors asked for,
\* in order, whatever the tracks and the failures cut them into (drive.c).
THEOREM ReadsWhatWasAskedHolds ==
    Unready \subseteq Absent => (DriveSpec => []ReadsWhatWasAsked)
<1> SUFFICES ASSUME Unready \subseteq Absent PROVE DriveSpec => []ReadsWhatWasAsked
  OBVIOUS
<1>1. DriveInv => ReadsWhatWasAsked
  BY DEF DriveInv
<1>2. DriveInv /\ [DriveNext]_driveVars => DriveInv'
  BY NextDrive
<1> QED BY <1>1, <1>2, InitDrive, PTL DEF DriveSpec

----------------------------------------------------------------------------
(* Devices *)

DeviceIds == [drive : Nat, part : 0 .. Whole, plain : BOOLEAN]

DeviceRecords == [id : DeviceIds, fs : BOOLEAN, start : Nat, size : Nat]

TypeInv ==
    /\ Devices \in Seq(DeviceRecords)
    /\ pc \in {"idle", "open", "scan", "chain", "while", "check", "create"}
    /\ want \in [id : DeviceIds, fs : BOOLEAN]

\* What is true of every device on the list, and of one about to enter it.
IsRange(id, start, size) ==
    /\ start + size <= Disks[id.drive].total
    /\ id.part < 4 =>
          Disks[id.drive].tables[0][id.part + 1]
              = [type |-> "data", start |-> start, size |-> size]

\* Who has come to the tables of a drive found no open device, and holds the first
\* table of that drive.
Scanning ==
    pc = "scan" =>
        /\ Opened = {}
        /\ want.id.drive \in DOMAIN Disks
        /\ MBR = Disks[want.id.drive].tables[0]

\* What is going to be a device is listed where its number says.
Checking ==
    pc \in {"check", "create"} =>
        /\ Opened = {}
        /\ want.id.drive \in DOMAIN Disks
        /\ range \in [start : Nat, size : Nat]
        /\ want.id.part < 4 =>
              Disks[want.id.drive].tables[0][want.id.part + 1]
                  = [type |-> "data", start |-> range.start, size |-> range.size]
        /\ pc = "create" => range.start + range.size <= Total

\* A device is listed once.
Unique ==
    \A k, j \in 1 .. Len(Devices) :
        Devices[k].id = Devices[j].id /\ Devices[k].fs = Devices[j].fs => k = j

Answered ==
    pc = "idle" /\ answer # NULL =>
        /\ answer[1].id = want.id /\ answer[1].fs = want.fs
        /\ \E k \in 1 .. Len(Devices) : Devices[k] = answer[1]

\* The inductive strengthening of DeviceIsPartition and ReturnsWanted.
IInv == TypeInv /\ Scanning /\ Checking /\ Unique /\ Answered /\ DeviceIsPartition

----------------------------------------------------------------------------

\* ParseDevice gives a device id for every path that it accepts.
LEMMA ParsedType ==
    ASSUME NEW p \in Paths, Parses(p)
    PROVE  Parsed(p) \in DeviceIds
<1> USE PathAssumption DEF DeviceIds, Whole, Parsed, DeviceId
<1>1. CASE p.kind = "boot"
  BY <1>1
<1>2. CASE p.kind = "fd"
  BY <1>2 DEF Parses
<1>3. CASE p.kind = "hd"
  BY <1>3 DEF Parses, Valid
<1> QED BY <1>1, <1>2, <1>3 DEF Parses

\* The first table of a drive has four entries of known type.
LEMMA FirstTable ==
    ASSUME NEW d \in DOMAIN Disks, NEW k \in 1 .. 4
    PROVE  Disks[d].tables[0][k] \in [type : Types, start : Nat, size : Nat]
BY ParamAssumption

\* A step that touches neither the list nor what was asked for, and does not
\* return a device, keeps what is known about the list.
LEMMA ListKept ==
    ASSUME IInv, UNCHANGED <<Devices, want>>,
           answer' = NULL \/ pc' # "idle",
           pc' \in {"idle", "open", "scan", "chain", "while", "check", "create"}
    PROVE  /\ (TypeInv /\ Unique /\ Answered /\ DeviceIsPartition)'
           /\ Opened' = Opened
BY DEF IInv, TypeInv, Unique, Answered, DeviceIsPartition, Opened

\* The list with a new device at its head.
LEMMA Pushed ==
    ASSUME NEW S, NEW list \in Seq(S), NEW dev \in S
    PROVE  /\ <<dev>> \o list \in Seq(S)
           /\ Len(<<dev>> \o list) = Len(list) + 1
           /\ (<<dev>> \o list)[1] = dev
           /\ \A k \in 2 .. Len(list) + 1 : (<<dev>> \o list)[k] = list[k - 1]
OBVIOUS

----------------------------------------------------------------------------

LEMMA InitIInv == Init => IInv
<1> SUFFICES ASSUME Init PROVE IInv
  OBVIOUS
<1>1. TypeInv
  BY PathAssumption DEF Init, TypeInv, DeviceIds
<1>2. Scanning /\ Checking /\ Unique /\ Answered /\ DeviceIsPartition
  BY DEF Init, Scanning, Checking, Unique, Answered, DeviceIsPartition, NULL
<1> QED BY <1>1, <1>2 DEF IInv

\* OpenFile: the path is parsed.
LEMMA OpenFileIInv ==
    ASSUME IInv, NEW p \in Paths, OpenFile(p)
    PROVE  IInv'
<1> USE DEF IInv
<1>1. want' \in [id : DeviceIds, fs : BOOLEAN] /\ pc' \in {"idle", "open"}
  BY ParsedType, PathAssumption DEF OpenFile, Return, TypeInv
<1>2. (pc' = "idle" => answer' = NULL) /\ Devices' = Devices
  BY DEF OpenFile, Return
<1>3. (TypeInv /\ Scanning /\ Checking /\ Answered)'
  BY <1>1, <1>2 DEF TypeInv, Scanning, Checking, Answered
<1>4. (Unique /\ DeviceIsPartition)'
  BY <1>2 DEF Unique, DeviceIsPartition
<1> QED BY <1>3, <1>4

\* An open device is returned as it is.
LEMMA FoundOpenIInv ==
    ASSUME IInv, FoundOpen
    PROVE  IInv'
<1> USE DEF IInv
<1>1. PICK k \in Opened : Return(<<Devices[k]>>)
  BY DEF FoundOpen
<1>2. Devices' = Devices /\ want' = want /\ pc' = "idle" /\ answer' = <<Devices[k]>>
  BY <1>1 DEF FoundOpen, Return
<1>3. (TypeInv /\ Scanning /\ Checking /\ Unique /\ DeviceIsPartition)'
  BY <1>2 DEF TypeInv, Scanning, Checking, Unique, DeviceIsPartition
<1>4. Answered'
  BY <1>1, <1>2 DEF Answered, Opened
<1> QED BY <1>3, <1>4

\* The range of a whole drive is the drive.
LEMMA OpenWholeIInv ==
    ASSUME IInv, OpenWhole
    PROVE  IInv'
<1> USE DEF IInv
<1>1. /\ UNCHANGED <<Devices, want>> /\ pc' = "create"
      /\ range' = [start |-> 0, size |-> Disks[want.id.drive].total]
      /\ Opened = {} /\ want.id.drive \in DOMAIN Disks /\ want.id.part = Whole
  BY DEF OpenWhole
<1>2. (TypeInv /\ Unique /\ Answered /\ DeviceIsPartition)' /\ Opened' = Opened
  BY <1>1, ListKept
<1>3. Disks[want.id.drive].total \in Nat
  BY <1>1, ParamAssumption
<1>4. (Scanning /\ Checking)'
  BY <1>1, <1>2, <1>3 DEF Scanning, Checking, Whole, Total
<1> QED BY <1>2, <1>4

\* The first table of the drive is read.
LEMMA ReadMBRIInv ==
    ASSUME IInv, ReadMBR
    PROVE  IInv'
<1> USE DEF IInv
<1>1. /\ UNCHANGED <<Devices, want>> /\ pc' = "scan"
      /\ MBR' = Table(0)
      /\ Opened = {} /\ want.id.drive \in DOMAIN Disks
  BY DEF ReadMBR
<1>2. (TypeInv /\ Unique /\ Answered /\ DeviceIsPartition)' /\ Opened' = Opened
  BY <1>1, ListKept
<1>3. Table(0) = Disks[want.id.drive].tables[0]
  BY <1>1, ParamAssumption DEF Table
<1>4. (Scanning /\ Checking)'
  BY <1>1, <1>2, <1>3 DEF Scanning, Checking
<1> QED BY <1>2, <1>4

\* The entry of a primary partition gives the range.
LEMMA TakePrimaryIInv ==
    ASSUME IInv, TakePrimary
    PROVE  IInv'
<1> USE DEF IInv
<1> DEFINE e == MBR[want.id.part + 1]
<1>1. /\ UNCHANGED <<Devices, want>> /\ pc = "scan" /\ pc' = "check"
      /\ want.id.part < 4 /\ Primary(MBR) # NULL
      /\ range' = [start |-> Primary(MBR)[1].start, size |-> Primary(MBR)[1].size]
  BY DEF TakePrimary
<1>2. (TypeInv /\ Unique /\ Answered /\ DeviceIsPartition)' /\ Opened' = Opened
  BY <1>1, ListKept
<1>3. want.id.part \in 0 .. 3 /\ want.id.drive \in DOMAIN Disks
      /\ Opened = {} /\ MBR = Disks[want.id.drive].tables[0]
  BY <1>1 DEF TypeInv, DeviceIds, Scanning
<1>4. e \in [type : Types, start : Nat, size : Nat]
  BY <1>3, FirstTable
<1>5. Primary(MBR) = <<e>> /\ e.type = "data"
  <2>1. Primary(MBR) = IF e.type = "data" THEN <<e>> ELSE NULL
    BY <1>3, ~(want.id.part >= 4) DEF Primary
  <2> QED BY <2>1, <1>1
<1>6. range' = [start |-> e.start, size |-> e.size]
  BY <1>1, <1>5
<1>7. e = [type |-> "data", start |-> e.start, size |-> e.size]
  <2>1. e.type = "data"
    BY <1>5, SMTT(30)
  <2> HIDE DEF e
  <2> QED BY <1>4, <2>1, SMTT(30)
<1>8. (Scanning /\ Checking)'
  <2>1. Disks[want.id.drive].tables[0][want.id.part + 1] = e
    BY <1>3
  <2> HIDE DEF e
  <2>2. range' \in [start : Nat, size : Nat] /\ range'.start = e.start /\ range'.size = e.size
    BY <1>4, <1>6
  <2>3. e = [type |-> "data", start |-> range'.start, size |-> range'.size]
    BY <1>7, <2>2, Zenon
  <2>4. want' = want /\ Opened' = {} /\ pc' = "check"
    BY <1>1, <1>2, <1>3
  <2>5. Scanning'
    BY <2>4 DEF Scanning
  <2>6. Checking'
    BY <1>3, <2>1, <2>2, <2>3, <2>4 DEF Checking
  <2> QED BY <2>5, <2>6
<1> QED BY <1>2, <1>8

\* A range that leaves the drive is refused.
LEMMA CheckRangeIInv ==
    ASSUME IInv, CheckRange
    PROVE  IInv'
<1> USE DEF IInv
<1>1. /\ UNCHANGED <<Devices, want, range>> /\ pc = "check"
      /\ \/ pc' = "create" /\ Fits
         \/ pc' = "idle" /\ answer' = NULL
  BY DEF CheckRange, Return
<1>2. (TypeInv /\ Unique /\ Answered /\ DeviceIsPartition)' /\ Opened' = Opened
  BY <1>1, ListKept
<1>3. (Scanning /\ Checking)'
  BY <1>1, <1>2 DEF Scanning, Checking, Fits, Total
<1> QED BY <1>2, <1>3

\* The new device enters the list at its head.
LEMMA CreateIInv ==
    ASSUME IInv, Create
    PROVE  IInv'
<1> USE DEF IInv
<1> DEFINE dev == [id |-> want.id, fs |-> want.fs, start |-> range.start, size |-> range.size]
<1>1. /\ Devices' = <<dev>> \o Devices /\ answer' = <<dev>> /\ want' = want
      /\ pc = "create" /\ pc' = "idle"
  BY DEF Create, Return
<1>2. dev \in DeviceRecords
  BY <1>1 DEF TypeInv, Checking, DeviceRecords
<1>3. /\ Devices' \in Seq(DeviceRecords)
      /\ Len(Devices') = Len(Devices) + 1
      /\ Devices'[1] = dev
      /\ \A k \in 2 .. Len(Devices) + 1 : Devices'[k] = Devices[k - 1]
  BY <1>1, <1>2, Pushed DEF TypeInv
<1>4. \A k \in 1 .. Len(Devices) : ~(Devices[k].id = dev.id /\ Devices[k].fs = dev.fs)
  BY <1>1 DEF Checking, Opened
<1>5. Len(Devices) \in Nat
  BY DEF TypeInv
<1>6. Unique'
  <2> SUFFICES ASSUME NEW k \in 1 .. Len(Devices) + 1, NEW j \in 1 .. Len(Devices) + 1,
                      Devices'[k].id = Devices'[j].id, Devices'[k].fs = Devices'[j].fs
               PROVE  k = j
    BY <1>3 DEF Unique
  <2>1. CASE k = 1 /\ j # 1
    <3>1. j - 1 \in 1 .. Len(Devices) /\ Devices'[j] = Devices[j - 1] /\ Devices'[k] = dev
      BY <2>1, <1>3, <1>5
    <3> QED BY <3>1, <1>4
  <2>2. CASE k # 1 /\ j = 1
    <3>1. k - 1 \in 1 .. Len(Devices) /\ Devices'[k] = Devices[k - 1] /\ Devices'[j] = dev
      BY <2>2, <1>3, <1>5
    <3> QED BY <3>1, <1>4
  <2>3. CASE k # 1 /\ j # 1
    <3>1. k - 1 \in 1 .. Len(Devices) /\ j - 1 \in 1 .. Len(Devices)
      BY <2>3, <1>5
    <3>2. Devices'[k] = Devices[k - 1] /\ Devices'[j] = Devices[j - 1]
      BY <2>3, <1>3, <1>5
    <3>3. /\ Devices[k - 1].id = Devices[j - 1].id
          /\ Devices[k - 1].fs = Devices[j - 1].fs
      BY <3>2
    <3>4. k - 1 = j - 1
      BY <3>1, <3>3 DEF Unique
    <3> QED BY <3>4, <1>5
  <2> QED BY <2>1, <2>2, <2>3
<1>7. DeviceIsPartition'
  <2> SUFFICES ASSUME NEW k \in 1 .. Len(Devices) + 1
               PROVE  IsRange(Devices'[k].id, Devices'[k].start, Devices'[k].size)
    BY <1>3 DEF DeviceIsPartition, IsRange
  <2>1. CASE k = 1
    BY <2>1, <1>1, <1>3 DEF Checking, Total, IsRange
  <2>2. CASE k # 1
    <3>1. k - 1 \in 1 .. Len(Devices) /\ Devices'[k] = Devices[k - 1]
      BY <2>2, <1>3, <1>5
    <3> QED BY <3>1 DEF DeviceIsPartition, IsRange
  <2> QED BY <2>1, <2>2
<1>8. Answered'
  BY <1>1, <1>3, <1>5 DEF Answered
<1>9. (TypeInv /\ Scanning /\ Checking)'
  BY <1>1, <1>3 DEF TypeInv, Scanning, Checking
<1> QED BY <1>6, <1>7, <1>8, <1>9

\* Steps that end without a device, or walk along the logical partitions.
LEMMA OtherIInv ==
    ASSUME IInv,
           \/ Refused \/ NoPartition \/ MBRFails \/ EnterExtended
           \/ Follow \/ ChainFails \/ ChainEnds \/ While \/ CreateFails
    PROVE  IInv'
<1> USE DEF IInv
<1>1. CASE Refused \/ NoPartition \/ MBRFails \/ ChainFails \/ ChainEnds \/ CreateFails
  <2>1. UNCHANGED <<Devices, want>> /\ pc' = "idle" /\ answer' = NULL
    BY <1>1 DEF Refused, NoPartition, MBRFails, ChainFails, ChainEnds, CreateFails, GiveUp,
                Return
  <2>2. (TypeInv /\ Unique /\ Answered /\ DeviceIsPartition)'
    BY <2>1, ListKept
  <2> QED BY <2>1, <2>2 DEF Scanning, Checking
<1>2. CASE EnterExtended \/ Follow \/ While
  <2>1. UNCHANGED <<Devices, want>> /\ pc' \in {"chain", "while"}
    BY <1>2 DEF EnterExtended, Follow, While, vars
  <2>2. (TypeInv /\ Unique /\ Answered /\ DeviceIsPartition)'
    BY <2>1, ListKept
  <2> QED BY <2>1, <2>2 DEF Scanning, Checking
<1> QED BY <1>1, <1>2

LEMMA NextIInv ==
    IInv /\ [(\E p \in Paths : OpenFile(p)) \/ Step]_vars => IInv'
<1> SUFFICES ASSUME IInv, [(\E p \in Paths : OpenFile(p)) \/ Step]_vars
             PROVE  IInv'
  OBVIOUS
<1>1. CASE UNCHANGED vars
  BY <1>1 DEF vars, IInv, TypeInv, Scanning, Checking, Unique, Answered, DeviceIsPartition,
              Opened, Total
<1>2. CASE \E p \in Paths : OpenFile(p)
  BY <1>2, OpenFileIInv
<1>3. CASE Step
  BY <1>3, FoundOpenIInv, OpenWholeIInv, ReadMBRIInv, TakePrimaryIInv, CheckRangeIInv,
     CreateIInv, OtherIInv DEF Step, Search
<1> QED BY <1>1, <1>2, <1>3

\* For all disks and paths: an open device with a partition number is the data
\* partition that the drive's table lists under that number, and every open device
\* ends within its drive (OpenDevice, io.c 173-323).
THEOREM DeviceIsPartitionHolds == Spec => []DeviceIsPartition
<1>1. IInv => DeviceIsPartition
  BY DEF IInv
<1> QED BY <1>1, InitIInv, NextIInv, PTL DEF Spec

\* What OpenDevice returns is on the list and is what was asked for, and the list
\* holds each partition at most once in each mode (io.c 128-135, 312-323).
THEOREM ReturnsWantedHolds == Spec => []ReturnsWanted
<1>1. IInv => ReturnsWanted
  BY DEF IInv, ReturnsWanted, Unique, Answered
<1> QED BY <1>1, InitIInv, NextIInv, PTL DEF Spec
=============================================================================
