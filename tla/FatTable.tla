------------------------------ MODULE FatTable ------------------------------
(***************************************************************************)
(* The file allocation table (src/src/fat.c): how GetNextCluster (266-331) *)
(* finds the entry of a cluster in the sectors of a FAT12, FAT16 or FAT32  *)
(* table.  A table is given by its entries; Encoded lays them out in bytes *)
(* as the FAT format prescribes, and GetNextCluster gets them back from    *)
(* the sectors.                                                            *)
(***************************************************************************)
EXTENDS Integers, Sequences, FiniteSets

CONSTANTS
    FatSecSize,     \* bytes of a sector of the table
    LastCluster,    \* the table has entries for the clusters 0 .. LastCluster
    IoMayFail,      \* may sectors be unreadable and malloc fail?
    GarbageNext     \* what lies where a number that is no cluster has its entry

ASSUME TableAssumption ==
    /\ FatSecSize \in Nat \ {0, 1}
    /\ FatSecSize % 4 = 0
    /\ LastCluster \in Nat \ {0, 1}
    /\ IoMayFail \in BOOLEAN
    /\ GarbageNext \subseteq Nat

FatTypes == {12, 16, 32}

\* The first number that is no cluster: it marks bad clusters, larger ones the
\* end of a chain.
EndCluster(type) ==
    CASE type = 12 -> 4087              \* 0x00000FF7
      [] type = 16 -> 65527             \* 0x0000FFF7
      [] type = 32 -> 268435447         \* 0x0FFFFFF7

\* Stands for 0xFFFFFFFF: no cluster of any table.
NoCluster == 1073741823

----------------------------------------------------------------------------
(* The table on the disk *)

\* An entry is 3, 4 or 8 nibbles, the least significant one first.
Nibbles(type) == type \div 4

\* The k-th nibble of a number.
Nibble(x, k) ==
    (x \div <<1, 16, 256, 4096, 65536, 1048576, 16777216, 268435456>>[k + 1]) % 16

NibbleAt(type, entry, n) ==
    LET w == Nibbles(type) IN
    IF n \div w \in DOMAIN entry THEN Nibble(entry[n \div w], n % w) ELSE 0

Encoded(type, entry, k) ==
    NibbleAt(type, entry, 2 * k) + 16 * NibbleAt(type, entry, 2 * k + 1)

\* The table that links the clusters of the chains and marks all others bad.
Links(type, chains, last) ==
    [c \in 0 .. last |->
        IF \E ch \in chains : \E k \in DOMAIN ch : ch[k] = c
        THEN LET ch == CHOOSE x \in chains : \E k \in DOMAIN x : x[k] = c
                 k  == CHOOSE j \in DOMAIN ch : ch[j] = c
             IN IF k < Len(ch) THEN ch[k + 1] ELSE EndCluster(type) + 8
        ELSE EndCluster(type)]

----------------------------------------------------------------------------
(* GetNextCluster *)

\* Where the entry of a cluster starts.
Position(type, c) ==
    CASE type = 12 -> c + (c \div 2)
      [] type = 16 -> 2 * c
      [] type = 32 -> 4 * c

\* A FAT12 entry may start in the last byte of a sector and end in the next one.
Spans(type, c) == type = 12 /\ Position(type, c) % FatSecSize = FatSecSize - 1

FatSector(type, entry, s) ==
    [k \in 0 .. FatSecSize - 1 |-> Encoded(type, entry, s * FatSecSize + k)]

UShort(buffer, ofs) == buffer[ofs] + 256 * buffer[ofs + 1]

\* The twelve bits of a cluster in the two bytes that hold it.
Twelve(c, word) == IF c % 2 = 1 THEN word \div 16 ELSE word % 4096

MutDecoded(type, entry, c) ==
    LET pos == Position(type, c)
        ofs == pos % FatSecSize
        buf == FatSector(type, entry, pos \div FatSecSize)
    IN CASE type = 12 -> Twelve(c, IF Spans(type, c) THEN buf[ofs] + 256 * buf[0]
                                                     ELSE UShort(buf, ofs))
         [] type = 16 -> UShort(buf, ofs)
         [] type = 32 -> UShort(buf, ofs) + 65536 * UShort(buf, ofs + 2)

Decoded(type, entry, c) ==
    LET pos  == Position(type, c)
        ofs  == pos % FatSecSize
        buf  == FatSector(type, entry, pos \div FatSecSize)
        next == FatSector(type, entry, pos \div FatSecSize + 1)
    IN CASE type = 12 -> Twelve(c, IF Spans(type, c) THEN buf[ofs] + 256 * next[0]
                                                     ELSE UShort(buf, ofs))
         [] type = 16 -> UShort(buf, ofs)
         [] type = 32 -> UShort(buf, ofs) + 65536 * UShort(buf, ofs + 2)

\* What GetNextCluster may return, and whether it met an error: a FAT12 entry whose
\* second half cannot be read becomes 0xFFF.
GetNextCluster(type, entry, c) ==
    {[clus |-> n, err |-> FALSE] :
        n \in IF c \in DOMAIN entry THEN {Decoded(type, entry, c)} ELSE GarbageNext}
    \cup (IF IoMayFail THEN {[clus |-> NoCluster, err |-> TRUE]} ELSE {})
    \cup (IF IoMayFail /\ Spans(type, c)
          THEN {[clus |-> Twelve(c, 65535), err |-> TRUE]} ELSE {})
=============================================================================
