---------------------------- MODULE HeapProofs ----------------------------
(***************************************************************************)
(* The heap keeps its shape for all sizes, all orders of malloc, free and  *)
(* realloc, and any number of blocks.                                      *)
(***************************************************************************)
EXTENDS Heap, Integers, TLAPS

----------------------------------------------------------------------------
(* The invariant *)

HeaderSet == [prev : Nat, size : Nat, free : BOOLEAN, aligned : BOOLEAN]

\* The first block, and the address behind the last one.
First == HeapStart - FieldOffset
Tail0 == HeapEnd - FieldOffset

Headers(f) == DOMAIN f \subseteq Int /\ f \in [DOMAIN f -> HeaderSet]

\* The blocks lie back to back: each knows the one after it and the one before
\* it, and none begins inside another.
Tiled(f) ==
    /\ \A b \in DOMAIN f : First <= b /\ NEXT(f, b) <= Tail0
    /\ \A b \in DOMAIN f :
          NEXT(f, b) = Tail0 \/ (NEXT(f, b) \in DOMAIN f /\ f[NEXT(f, b)].prev = f[b].size)
    /\ \A b \in DOMAIN f :
          b = First \/ (PREV(f, b) \in DOMAIN f /\ f[PREV(f, b)].size = f[b].prev)
    /\ \A b, c \in DOMAIN f : c <= b \/ c >= NEXT(f, b)

\* Blocks do not cross pages, and one that begins a page has the mark that keeps it
\* from being merged with the block before it.
InPage(lo, hi) == \E k \in Int : k * Page <= lo /\ hi <= (k + 1) * Page

BeginsPage(b) == \E k \in Int : b + FieldOffset = k * Page

Paged(f) ==
    \A b \in DOMAIN f :
        /\ InPage(b + FieldOffset, NEXT(f, b) + FieldOffset)
        /\ BeginsPage(b) => f[b].aligned

\* The marked blocks are the ones that HeapInit marked, and all of those and the
\* first one are still there; no block ever comes to lie before the first one.
Original(f) ==
    /\ DOMAIN InitialBlocks \subseteq DOMAIN f
    /\ \A b \in DOMAIN f : f[b].aligned <=> (b \in DOMAIN InitialBlocks /\ InitialBlocks[b].aligned)
    /\ First \in DOMAIN f => f[First].prev = InitialBlocks[First].prev

Shape(f) == Headers(f) /\ Tiled(f) /\ Paged(f) /\ Original(f)

\* Two free blocks side by side have been merged, unless a page begins between them.
Merged(f) ==
    \A b \in DOMAIN f :
        f[b].free /\ NEXT(f, b) \in DOMAIN f /\ f[NEXT(f, b)].free => f[NEXT(f, b)].aligned

FreeOf(f) == {b \in DOMAIN f : f[b].free}
UsedOf(f) == {b \in DOMAIN f : ~f[b].free}

\* The list holds every free block once.
ListOf(l, S) == l \in Seq(S) /\ IsInjective(l) /\ ToSet(l) = S

Good(h) ==
    /\ h = [hdr |-> h.hdr, list |-> h.list]
    /\ Shape(h.hdr)
    /\ Merged(h.hdr)
    /\ ListOf(h.list, FreeOf(h.hdr))

\* Owners have the room they asked for; a block that is not free has an owner, or
\* its free() was ignored.  (f: the headers, a: live, d: lost, w: wild.)
Owners(f, a, d, w) ==
    /\ DOMAIN a \subseteq UsedOf(f)
    /\ \A b \in DOMAIN a : a[b] \in Requests /\ a[b] <= f[b].size
    /\ d \subseteq UsedOf(f) /\ d \cap DOMAIN a = {}
    /\ ~w => UsedOf(f) = DOMAIN a \cup d
    /\ w \in BOOLEAN
    /\ ~TailFree => ~w

IInv == Good(heap) /\ Owners(heap.hdr, live, lost, wild)

----------------------------------------------------------------------------
(* The list *)

LEMMA ConcatIs ==
    ASSUME NEW S, NEW s \in Seq(S), NEW t \in Seq(S)
    PROVE  /\ s \o t \in Seq(S) /\ Len(s \o t) = Len(s) + Len(t)
           /\ \A j \in 1 .. Len(s) : (s \o t)[j] = s[j]
           /\ \A j \in 1 .. Len(t) : (s \o t)[Len(s) + j] = t[j]
OBVIOUS

\* Unlink takes the block from the list and leaves the others.
LEMMA WithoutIs ==
    ASSUME NEW S, NEW l, ListOf(l, S), NEW b \in S
    PROVE  ListOf(Without(l, b), S \ {b})
<1>1. l \in Seq(S) /\ IsInjective(l) /\ ToSet(l) = S
  BY DEF ListOf
<1>2. PICK k \in DOMAIN l : l[k] = b
  BY <1>1 DEF ToSet
<1>3. \A j \in DOMAIN l : l[j] = b <=> j = k
  BY <1>1, <1>2 DEF IsInjective
<1>4. DOMAIN l = 1 .. Len(l) /\ Len(l) \in Nat /\ k \in 1 .. Len(l)
  BY <1>1, <1>2
<1>5. Without(l, b) = RemoveAt(l, k)
  <2>1. \E j \in 1 .. Len(l) : l[j] = b
    BY <1>2, <1>4
  <2>2. {j \in 1 .. Len(l) : l[j] = b} = {k}
    BY <1>3, <1>4
  <2>3. Min({k}) = k
    BY <1>4 DEF Min
  <2>4. SelectInSeq(l, LAMBDA v : v = b) = k
    BY <2>2, <2>3 DEF SelectInSeq
  <2> QED BY <2>1, <2>4 DEF Without, RemoveFirst
<1> DEFINE front == SubSeq(l, 1, k - 1)
           back == SubSeq(l, k + 1, Len(l))
           r == front \o back
<1>6. /\ front \in Seq(S) /\ Len(front) = k - 1 /\ \A j \in 1 .. k - 1 : front[j] = l[j]
  BY <1>1, <1>4
<1>7. /\ back \in Seq(S) /\ Len(back) = Len(l) - k
      /\ \A j \in 1 .. Len(l) - k : back[j] = l[j + k]
  BY <1>1, <1>4
<1> HIDE DEF front, back
<1>8. r \in Seq(S) /\ Len(r) = Len(l) - 1
  <2>0. front \in Seq(S) /\ back \in Seq(S)
    BY <1>6, <1>7
  <2>1. r \in Seq(S) /\ Len(r) = Len(front) + Len(back)
    BY <2>0
  <2>2. (k - 1) + (Len(l) - k) = Len(l) - 1
    BY <1>4
  <2> QED BY <1>6, <1>7, <2>1, <2>2
<1>9. ASSUME NEW j \in 1 .. Len(l) - 1
      PROVE  r[j] = l[IF j < k THEN j ELSE j + 1]
  <2>1. CASE j < k
    BY <1>4, <1>6, <1>7, <2>1
  <2>2. CASE ~(j < k)
    <3>1. r[j] = back[j - (k - 1)]
      BY <1>4, <1>6, <1>7, <2>2
    <3>2. j - (k - 1) \in 1 .. Len(l) - k /\ (j - (k - 1)) + k = j + 1
      BY <1>4, <2>2
    <3> QED BY <1>7, <2>2, <3>1, <3>2
  <2> QED BY <2>1, <2>2
<1>10. Without(l, b) = r
  BY <1>5 DEF RemoveAt, front, back
<1> HIDE DEF r
<1> DEFINE old(j) == IF j < k THEN j ELSE j + 1
<1>11. ASSUME NEW j \in 1 .. Len(r)
       PROVE  old(j) \in 1 .. Len(l) /\ old(j) # k /\ r[j] = l[old(j)]
  BY <1>4, <1>8, <1>9
<1>12. \A i, j \in 1 .. Len(r) : old(i) = old(j) => i = j
  BY <1>4, <1>8
<1>13. \A j \in 1 .. Len(l) : j # k => \E i \in 1 .. Len(r) : old(i) = j
  <2> SUFFICES ASSUME NEW j \in 1 .. Len(l), j # k PROVE \E i \in 1 .. Len(r) : old(i) = j
    OBVIOUS
  <2>1. CASE j < k
    <3>1. j \in 1 .. Len(r) /\ old(j) = j
      BY <1>4, <1>8, <2>1
    <3> QED BY <3>1
  <2>2. CASE ~(j < k)
    <3>1. j - 1 \in 1 .. Len(r) /\ old(j - 1) = j
      BY <1>4, <1>8, <2>2
    <3> QED BY <3>1
  <2> QED BY <2>1, <2>2
<1> HIDE DEF old
<1>14. DOMAIN r = 1 .. Len(r)
  BY <1>8
<1>15. IsInjective(r)
  BY <1>1, <1>4, <1>11, <1>12, <1>14 DEF IsInjective
<1>16. ToSet(r) = S \ {b}
  <2>1. ASSUME NEW x \in ToSet(r) PROVE x \in S \ {b}
    <3>1. PICK j \in 1 .. Len(r) : x = r[j]
      BY <1>14, <2>1 DEF ToSet
    <3>2. old(j) \in 1 .. Len(l) /\ old(j) # k /\ x = l[old(j)]
      BY <1>11, <3>1
    <3>3. x # b
      BY <1>3, <1>4, <3>2
    <3>4. x \in ToSet(l)
      BY <1>4, <3>2 DEF ToSet
    <3> QED BY <1>1, <3>3, <3>4
  <2>2. ASSUME NEW x \in S \ {b} PROVE x \in ToSet(r)
    <3>1. PICK j \in 1 .. Len(l) : x = l[j]
      BY <1>1, <1>4 DEF ToSet
    <3>2. j # k
      BY <1>2, <3>1
    <3>3. PICK i \in 1 .. Len(r) : old(i) = j
      BY <1>13, <3>2
    <3> QED BY <1>11, <1>14, <3>1, <3>3 DEF ToSet
  <2> QED BY <2>1, <2>2
<1>17. r \in Seq(S \ {b})
  <2>1. \A j \in 1 .. Len(r) : r[j] \in S \ {b}
    BY <1>14, <1>16 DEF ToSet
  <2> QED BY <1>8, <2>1
<1> QED BY <1>10, <1>15, <1>16, <1>17 DEF ListOf

\* Link puts one in front.
LEMMA LinkIs ==
    ASSUME NEW S, NEW l, ListOf(l, S), NEW b, b \notin S
    PROVE  ListOf(<<b>> \o l, S \cup {b})
<1>1. l \in Seq(S) /\ IsInjective(l) /\ ToSet(l) = S /\ DOMAIN l = 1 .. Len(l) /\ Len(l) \in Nat
  BY DEF ListOf
<1> DEFINE r == <<b>> \o l
<1>2. l \in Seq(S \cup {b}) /\ <<b>> \in Seq(S \cup {b})
  BY <1>1
<1>3. r \in Seq(S \cup {b}) /\ Len(r) = Len(l) + 1 /\ DOMAIN r = 1 .. Len(l) + 1
  BY <1>1, <1>2
<1>4. r[1] = b /\ \A j \in 1 .. Len(l) : r[j + 1] = l[j]
  BY <1>1
<1> HIDE DEF r
<1>5. \A j \in 1 .. Len(r) :
         j = 1 \/ (j - 1 \in 1 .. Len(l) /\ r[j] = l[j - 1] /\ l[j - 1] \in S)
  <2> SUFFICES ASSUME NEW j \in 1 .. Len(r), j # 1
               PROVE  j - 1 \in 1 .. Len(l) /\ r[j] = l[j - 1] /\ l[j - 1] \in S
    OBVIOUS
  <2>1. j - 1 \in 1 .. Len(l) /\ (j - 1) + 1 = j
    BY <1>1, <1>3
  <2>2. r[j] = l[j - 1]
    BY <1>4, <2>1
  <2> QED BY <1>1, <2>1, <2>2
<1>6. IsInjective(r)
  <2> SUFFICES ASSUME NEW i \in 1 .. Len(r), NEW j \in 1 .. Len(r), r[i] = r[j] PROVE i = j
    BY <1>3 DEF IsInjective
  <2>1. CASE i = 1
    BY <1>4, <1>5, <2>1
  <2>2. CASE j = 1
    BY <1>4, <1>5, <2>2
  <2>3. CASE i # 1 /\ j # 1
    <3>1. i - 1 = j - 1
      BY <1>1, <1>5, <2>3 DEF IsInjective
    <3> QED BY <1>3, <3>1
  <2> QED BY <2>1, <2>2, <2>3
<1>7. ToSet(r) = S \cup {b}
  <2>1. ASSUME NEW x \in S \cup {b} PROVE x \in ToSet(r)
    <3>1. CASE x = b
      BY <1>1, <1>3, <1>4, <3>1 DEF ToSet
    <3>2. CASE x \in S
      <4>1. PICK j \in 1 .. Len(l) : x = l[j]
        BY <1>1, <3>2 DEF ToSet
      <4>2. j + 1 \in DOMAIN r /\ r[j + 1] = x
        BY <1>1, <1>3, <1>4, <4>1
      <4> QED BY <4>2 DEF ToSet
    <3> QED BY <3>1, <3>2
  <2>2. ASSUME NEW x \in ToSet(r) PROVE x \in S \cup {b}
    BY <1>3, <1>4, <1>5 DEF ToSet
  <2> QED BY <2>1, <2>2
<1> QED BY <1>3, <1>6, <1>7 DEF ListOf, r

----------------------------------------------------------------------------
(* Arithmetic *)

LEMMA MultMono ==
    ASSUME NEW p \in Nat, NEW j \in Int, NEW k \in Int, j <= k
    PROVE  (j + 1) * p <= (k + 1) * p
<1>1. PICK d \in Nat : k = j + d
  <2>1. k - j \in Nat /\ k = j + (k - j)
    OBVIOUS
  <2> QED BY <2>1
<1>2. (k + 1) * p = (j + 1) * p + d * p
  BY <1>1
<1>3. d * p \in Nat /\ (j + 1) * p \in Int
  OBVIOUS
<1> QED BY <1>2, <1>3

LEMMA MultLess ==
    ASSUME NEW p \in Nat, NEW j \in Int, NEW k \in Int, j * p < (k + 1) * p
    PROVE  j <= k
<1> SUFFICES ASSUME k < j PROVE FALSE
  OBVIOUS
<1>1. k <= j - 1 /\ j - 1 \in Int /\ (j - 1) + 1 = j
  OBVIOUS
<1>2. (k + 1) * p <= ((j - 1) + 1) * p
  BY <1>1, MultMono
<1>3. (k + 1) * p \in Int /\ j * p \in Int
  OBVIOUS
<1> QED BY <1>1, <1>2, <1>3

----------------------------------------------------------------------------
(* HeapInit *)

LEMMA DivIs ==
    ASSUME NEW p \in Nat \ {0}, NEW a \in Nat
    PROVE  /\ a \div p \in Nat /\ a % p \in Nat /\ a % p < p /\ a % p <= a
           /\ p * (a \div p) <= a /\ a < p * (a \div p) + p
OBVIOUS

\* Address and Aligned: the first page boundary is less than a page away.
LEMMA AlignedIs ==
    /\ Address \in Nat /\ Aligned \in Nat /\ Address <= Aligned
    /\ \E q \in Nat : Aligned = q * Page /\ (q - 1) * Page < Address
<1>1. Page \in Nat \ {0} /\ ImageEnd \in Nat
  BY ParamAssumption DEF BLOCKSIZE
<1>2. Address \in Nat
  <2>1. (ImageEnd + 16 - 1) \div 16 \in Nat
    BY <1>1
  <2> QED BY <2>1 DEF Address, RoundTo, Paragraph
<1> DEFINE a == Address + Page - 1
           q == a \div Page
<1>3. a \in Nat
  BY <1>1, <1>2
<1>4. a = (Address + Page) - 1
  BY <1>1, <1>2
<1> HIDE DEF a
<1>5. q \in Nat /\ Page * q <= a /\ a < Page * q + Page
  BY <1>1, <1>3, DivIs
<1>6. Aligned = Page * q
  BY DEF Aligned, RoundTo, a
<1> HIDE DEF q
<1>7. Page * q = q * Page /\ q * Page \in Nat /\ (q - 1) * Page = q * Page - Page
  BY <1>1, <1>5
<1> QED BY <1>1, <1>2, <1>4, <1>5, <1>6, <1>7

LEMMA SizesAre ==
    /\ Before \in Nat /\ (Before = 0 \/ (Before = Aligned - Address /\ Before >= 20))
    /\ Pages \in Nat
    /\ After \in Nat /\ After < Page /\ (After = 0 \/ After >= 20)
<1>1. /\ Page \in Nat \ {0} /\ ImageEnd \in Nat /\ MemEnd \in Nat
      /\ MemEnd - ImageEnd >= Aligned - Address
  BY ParamAssumption DEF BLOCKSIZE, Aligned, Address
<1>2. Address \in Nat /\ Aligned \in Nat /\ Address <= Aligned
  BY AlignedIs
<1> DEFINE x == Size0 - (Aligned - Address)
<1>3. x \in Nat
  BY <1>1, <1>2 DEF Size0
<1> HIDE DEF x
<1>4. AfterAll \in Nat /\ AfterAll < Page /\ AfterAll <= x
  <2>1. AfterAll = x % Page
    BY DEF AfterAll, x
  <2> QED BY <1>1, <1>3, <2>1, DivIs
<1>5. Pages \in Nat
  <2>1. x - AfterAll \in Nat
    BY <1>3, <1>4
  <2>2. Pages = (x - AfterAll) \div Page
    BY DEF Pages, x
  <2> HIDE DEF AfterAll
  <2> QED BY <1>1, <2>1, <2>2, DivIs
<1>6. After \in Nat /\ After < Page /\ (After = 0 \/ After >= 20)
  BY <1>1, <1>4 DEF After, Usable, BLOCKSIZE, MIN_BLOCKSIZE
<1>7. Before \in Nat /\ (Before = 0 \/ (Before = Aligned - Address /\ Before >= 20))
  BY <1>2 DEF Before, Usable, BLOCKSIZE, MIN_BLOCKSIZE
<1> QED BY <1>5, <1>6, <1>7

LEMMA FirstIsInt == First \in Int /\ Tail0 \in Int
<1>1. Aligned \in Int /\ Before \in Int /\ After \in Int /\ Pages * Page \in Int
  BY AlignedIs, SizesAre, ParamAssumption
<1> QED BY <1>1 DEF First, Tail0, HeapStart, HeapEnd, FieldOffset

\* The blocks that begin a page are numbered 0 .. LastPage.
LastPage == IF After > 0 THEN Pages ELSE Pages - 1

\* The addresses of the initial blocks, in order.
LEMMA PageBlockIs ==
    ASSUME NEW k \in Int
    PROVE  /\ PageBlock(k) \in Int /\ PageBlock(k) = Aligned + k * Page - 4 /\ k * Page \in Int
           /\ PageBlock(k + 1) = PageBlock(k) + Page
           /\ \A j \in Int : j < k => PageBlock(j) + Page <= PageBlock(k)
           /\ 0 <= k => PageBlock(0) <= PageBlock(k)
<1>1. Page \in Nat /\ Aligned \in Int
  BY ParamAssumption, AlignedIs
<1>2. \A j \in Int : PageBlock(j) \in Int /\ PageBlock(j) = Aligned + j * Page - 4 /\ j * Page \in Int
  BY <1>1 DEF PageBlock, FieldOffset
<1>3. (k + 1) * Page = k * Page + Page
  BY <1>1
<1>4. PageBlock(k + 1) = PageBlock(k) + Page
  <2>1. PageBlock(k + 1) = Aligned + (k + 1) * Page - 4 /\ k + 1 \in Int
    BY <1>2
  <2> QED BY <1>1, <1>2, <1>3, <2>1
<1>5. ASSUME NEW j \in Int, j < k PROVE PageBlock(j) + Page <= PageBlock(k)
  <2>1. (j + 1) * Page <= ((k - 1) + 1) * Page
    <3>1. j <= k - 1 /\ k - 1 \in Int
      BY <1>5
    <3> QED BY <1>1, <3>1, MultMono
  <2>2. (k - 1) + 1 = k
    OBVIOUS
  <2>3. (j + 1) * Page <= k * Page
    BY <2>1, <2>2
  <2>4. (j + 1) * Page = j * Page + Page
    BY <1>1
  <2>5. j * Page \in Int /\ k * Page \in Int
    BY <1>2
  <2> DEFINE x == j * Page
             y == k * Page
  <2>6. PageBlock(j) = Aligned + x - 4 /\ PageBlock(k) = Aligned + y - 4
    BY <1>2
  <2>7. x + Page <= y /\ x \in Int /\ y \in Int
    BY <2>3, <2>4, <2>5
  <2> HIDE DEF x, y
  <2> QED BY <1>1, <2>6, <2>7
<1>6. 0 <= k => PageBlock(0) <= PageBlock(k)
  <2>1. CASE k = 0
    BY <1>2, <2>1
  <2>2. CASE 0 < k
    <3>1. PageBlock(0) + Page <= PageBlock(k) /\ PageBlock(0) \in Int /\ PageBlock(k) \in Int
      BY <1>2, <1>5, <2>2
    <3> QED BY <1>1, <3>1
  <2> QED BY <2>1, <2>2
<1> QED BY <1>2, <1>4, <1>5, <1>6

InitialSet ==
    {b \in {Address - 4} : Before > 0} \cup {PageBlock(k) : k \in 0 .. LastPage}

LEMMA InitialListIs == ListOf(InitialList, InitialSet)
<1>1. Before \in Nat /\ Pages \in Nat /\ After \in Nat /\ Page \in Nat /\ Page > 0
  BY SizesAre, ParamAssumption DEF BLOCKSIZE
<1>2. LastPage \in Int /\ LastPage = IF After > 0 THEN Pages ELSE Pages - 1
  BY <1>1 DEF LastPage
<1>3. Before > 0 => Address - 4 \in Int /\ Address - 4 < PageBlock(0)
  BY <1>1, SizesAre, AlignedIs, PageBlockIs
<1> DEFINE one == IF Before > 0 THEN <<Address - FieldOffset>> ELSE << >>
           d == IF Before > 0 THEN 1 ELSE 0
           two == [k \in 1 .. Pages |-> PageBlock(k - 1)]
           three == IF After > 0 THEN <<PageBlock(Pages)>> ELSE << >>
           val(j) == IF j <= d THEN Address - 4 ELSE PageBlock(j - d - 1)
           l == InitialList
<1>4. one \in Seq(Int) /\ Len(one) = d /\ (d = 1 => one[1] = Address - 4)
  BY <1>1, AlignedIs DEF FieldOffset
<1>5. two \in Seq(Int) /\ Len(two) = Pages /\ \A k \in 1 .. Pages : two[k] = PageBlock(k - 1)
  BY <1>1, PageBlockIs
<1>6. /\ three \in Seq(Int) /\ Len(three) = LastPage + 1 - Pages
      /\ (Len(three) = 1 => three[1] = PageBlock(Pages))
  BY <1>1, <1>2, PageBlockIs
<1>7. l = one \o two \o three
  BY DEF InitialList
<1>8. d \in {0, 1} /\ d \in Int /\ (d = 1 <=> Before > 0)
  BY <1>1
<1> HIDE DEF one, two, three, l, d
<1>9. Len(l) = d + LastPage + 1 /\ l \in Seq(Int)
  <2>1. one \o two \in Seq(Int) /\ Len(one \o two) = d + Pages
    BY <1>4, <1>5, ConcatIs
  <2>2. l \in Seq(Int) /\ Len(l) = Len(one \o two) + Len(three)
    BY <1>6, <1>7, <2>1, ConcatIs
  <2> QED BY <1>1, <1>2, <1>6, <1>8, <2>1, <2>2
<1>10. ASSUME NEW j \in 1 .. Len(l) PROVE l[j] = val(j)
  <2> DEFINE m == one \o two
  <2>1. /\ m \in Seq(Int) /\ Len(m) = d + Pages
        /\ \A x \in 1 .. d : m[x] = one[x]
        /\ \A x \in 1 .. Pages : m[d + x] = two[x]
    <3>1. one \in Seq(Int) /\ two \in Seq(Int) /\ Len(one) = d /\ Len(two) = Pages
      BY <1>4, <1>5
    <3>2. /\ m \in Seq(Int) /\ Len(m) = Len(one) + Len(two)
          /\ \A x \in 1 .. Len(one) : m[x] = one[x]
          /\ \A x \in 1 .. Len(two) : m[Len(one) + x] = two[x]
      <4>1. \A a, b \in Seq(Int) :
               /\ a \o b \in Seq(Int) /\ Len(a \o b) = Len(a) + Len(b)
               /\ \A x \in 1 .. Len(a) : (a \o b)[x] = a[x]
               /\ \A x \in 1 .. Len(b) : (a \o b)[Len(a) + x] = b[x]
        OBVIOUS
      <4> QED BY <3>1, <4>1, Zenon
    <3> QED BY <3>1, <3>2
  <2>2. \A x \in 1 .. d + Pages : m[x] = val(x)
    <3> SUFFICES ASSUME NEW x \in 1 .. d + Pages PROVE m[x] = val(x)
      OBVIOUS
    <3>1. CASE x <= d
      <4>1. x = 1 /\ d = 1
        BY <1>8, <3>1
      <4> QED BY <1>4, <2>1, <4>1
    <3>2. CASE ~(x <= d)
      <4>1. x - d \in 1 .. Pages /\ d + (x - d) = x
        BY <1>1, <1>8, <3>2
      <4>2. m[x] = two[x - d]
        BY <2>1, <4>1
      <4> QED BY <1>5, <3>2, <4>1, <4>2
    <3> QED BY <3>1, <3>2
  <2> HIDE DEF m
  <2>3. l = m \o three
    BY <1>7 DEF m
  <2>4. CASE j <= d + Pages
    <3>1. j \in 1 .. d + Pages
      BY <1>1, <1>8, <2>4
    <3>2. l[j] = m[j]
      BY <1>6, <2>1, <2>3, <3>1
    <3> QED BY <2>2, <3>1, <3>2
  <2>5. CASE ~(j <= d + Pages)
    <3>1. j = d + Pages + 1 /\ Len(three) = 1
      BY <1>1, <1>2, <1>6, <1>8, <1>9, <2>5
    <3>2. l[j] = three[1]
      BY <1>1, <1>6, <1>8, <2>1, <2>3, <3>1
    <3>3. ~(j <= d) /\ j - d - 1 = Pages
      BY <1>1, <1>8, <3>1
    <3> QED BY <1>6, <3>1, <3>2, <3>3
  <2> QED BY <2>4, <2>5
<1>11. ASSUME NEW i \in 1 .. Len(l), NEW j \in 1 .. Len(l), i < j PROVE val(i) < val(j)
  <2>1. j - d - 1 \in Int /\ 0 <= j - d - 1 /\ ~(j <= d) /\ i \in Int /\ j \in Int
    BY <1>2, <1>8, <1>9, <1>11
  <2>2. CASE i <= d
    <3>1. PageBlock(0) <= PageBlock(j - d - 1) /\ PageBlock(0) \in Int /\ PageBlock(j - d - 1) \in Int
      BY <2>1, PageBlockIs
    <3> QED BY <1>3, <1>8, <2>1, <2>2, <3>1
  <2>3. CASE ~(i <= d)
    <3>1. i - d - 1 \in Int /\ i - d - 1 < j - d - 1
      BY <1>8, <1>11, <2>1
    <3>2. PageBlock(i - d - 1) + Page <= PageBlock(j - d - 1)
      BY <2>1, <3>1, PageBlockIs
    <3>3. PageBlock(i - d - 1) \in Int /\ PageBlock(j - d - 1) \in Int
      BY <2>1, <3>1, PageBlockIs
    <3> QED BY <1>1, <2>1, <2>3, <3>2, <3>3
  <2> QED BY <2>2, <2>3
<1>12. IsInjective(l)
  <2> SUFFICES ASSUME NEW i \in 1 .. Len(l), NEW j \in 1 .. Len(l), l[i] = l[j] PROVE i = j
    BY <1>9 DEF IsInjective
  <2>1. val(i) = val(j) /\ val(i) \in Int
    BY <1>9, <1>10
  <2> HIDE DEF val
  <2> QED BY <1>11, <2>1
<1>13. ASSUME NEW x \in ToSet(l) PROVE x \in InitialSet
  <2>1. PICK j \in 1 .. Len(l) : x = val(j)
    BY <1>9, <1>10 DEF ToSet
  <2>2. CASE j <= d
    BY <1>8, <1>9, <2>1, <2>2 DEF InitialSet
  <2>3. CASE ~(j <= d)
    <3>1. j - d - 1 \in 0 .. LastPage
      BY <1>2, <1>8, <1>9, <2>3
    <3> QED BY <2>1, <2>3, <3>1 DEF InitialSet
  <2> QED BY <2>2, <2>3
<1>14. ASSUME NEW x \in InitialSet PROVE x \in ToSet(l)
  <2>1. DOMAIN l = 1 .. Len(l)
    BY <1>9
  <2>2. CASE Before > 0 /\ x = Address - 4
    <3>1. 1 \in 1 .. Len(l) /\ val(1) = x
      BY <1>1, <1>2, <1>8, <1>9, <2>2
    <3> QED BY <1>10, <2>1, <3>1 DEF ToSet
  <2>3. CASE \E k \in 0 .. LastPage : x = PageBlock(k)
    <3>1. PICK k \in 0 .. LastPage : x = PageBlock(k)
      BY <2>3
    <3>2. k + d + 1 \in 1 .. Len(l) /\ ~(k + d + 1 <= d) /\ (k + d + 1) - d - 1 = k
      BY <1>2, <1>8, <1>9
    <3>3. val(k + d + 1) = x
      BY <3>1, <3>2
    <3> QED BY <1>10, <2>1, <3>2, <3>3 DEF ToSet
  <2> QED BY <2>2, <2>3 DEF InitialSet
<1>15. ToSet(l) = InitialSet
  BY <1>13, <1>14
<1>16. l \in Seq(InitialSet)
  <2>1. \A j \in 1 .. Len(l) : l[j] \in InitialSet
    BY <1>9, <1>15 DEF ToSet
  <2> QED BY <1>9, <2>1
<1> QED BY <1>12, <1>15, <1>16 DEF ListOf, l

\* The block before the first page, if there is one, is the first; then come the
\* page blocks.  What HeapInit writes in their headers:
LEMMA InitialHeaders ==
    /\ DOMAIN InitialBlocks = InitialSet
    /\ Before > 0 => /\ Address - 4 \in InitialSet /\ Address - 4 = First
                     /\ InitialBlocks[Address - 4] = Header(0, Before - 16, FALSE)
    /\ \A k \in 0 .. LastPage :
          /\ PageBlock(k) \in InitialSet
          /\ InitialBlocks[PageBlock(k)] =
                Header(IF k > 0 THEN Page - 16 ELSE IF Before > 0 THEN Before - 16 ELSE 0,
                       (IF k = Pages THEN After ELSE Page) - 16, TRUE)
    /\ Tail0 = PageBlock(Pages) + After
    /\ Before = 0 => First = PageBlock(0)
<1>1. /\ Before \in Nat /\ Pages \in Nat /\ After \in Nat /\ Page \in Nat /\ Page > 0
      /\ Address \in Nat /\ Aligned \in Nat /\ (Before = 0 \/ Before = Aligned - Address)
  BY SizesAre, AlignedIs, ParamAssumption DEF BLOCKSIZE
<1>2. PageBlock(0) = Aligned - 4
  BY <1>1, PageBlockIs
<1>3. DOMAIN InitialBlocks = InitialSet
  BY InitialListIs DEF InitialBlocks, ListOf
<1>4. First = (Aligned - Before) - 4
  BY DEF First, HeapStart, FieldOffset
<1>5. ASSUME Before > 0
      PROVE  /\ Address - 4 \in InitialSet /\ Address - 4 = First
             /\ InitialBlocks[Address - 4] = Header(0, Before - 16, FALSE)
  <2>1. Address - 4 \in InitialSet
    BY <1>5 DEF InitialSet
  <2>2. Address - 4 < Aligned - 4 /\ Address - 4 = First
    BY <1>1, <1>4, <1>5
  <2>3. Address - 4 \in ToSet(InitialList)
    BY <2>1, InitialListIs DEF ListOf
  <2> QED BY <2>1, <2>2, <2>3 DEF InitialBlocks, FieldOffset, BLOCKSIZE
<1>6. ASSUME NEW k \in 0 .. LastPage
      PROVE  /\ PageBlock(k) \in InitialSet
             /\ InitialBlocks[PageBlock(k)] =
                   Header(IF k > 0 THEN Page - 16 ELSE IF Before > 0 THEN Before - 16 ELSE 0,
                          (IF k = Pages THEN After ELSE Page) - 16, TRUE)
  <2> DEFINE b == PageBlock(k)
  <2>1. b \in InitialSet
    BY DEF InitialSet
  <2>2. k \in Int /\ 0 <= k /\ b \in Int
    BY PageBlockIs
  <2>3. Aligned - 4 <= b
    BY <1>2, <2>2, PageBlockIs
  <2>4. b > Aligned - 4 <=> k > 0
    <3>1. CASE k = 0
      BY <1>1, <1>2, <3>1
    <3>2. CASE k > 0
      <4>1. PageBlock(0) + Page <= b
        BY <2>2, <3>2, PageBlockIs
      <4> QED BY <1>1, <1>2, <2>2, <3>2, <4>1
    <3> QED BY <2>2, <3>1, <3>2
  <2>5. b = PageBlock(Pages) <=> k = Pages
    <3>1. ASSUME k < Pages PROVE b # PageBlock(Pages)
      <4>1. b + Page <= PageBlock(Pages)
        BY <1>1, <2>2, <3>1, PageBlockIs
      <4> QED BY <1>1, <2>2, <4>1
    <3>2. k <= Pages
      BY <1>1, <2>2 DEF LastPage
    <3> QED BY <1>1, <2>2, <3>1, <3>2
  <2> HIDE DEF b
  <2>6. b \in ToSet(InitialList) /\ ~(b < Aligned - 4)
    BY <1>1, <2>1, <2>2, <2>3, InitialListIs DEF ListOf
  <2>7. InitialBlocks[b] = Header(SizeBefore(b),
                                  (IF b = PageBlock(Pages) THEN After ELSE Page) - 16, TRUE)
    BY <2>6 DEF InitialBlocks, FieldOffset, BLOCKSIZE
  <2>8. SizeBefore(b) = IF k > 0 THEN Page - 16 ELSE IF Before > 0 THEN Before - 16 ELSE 0
    BY <2>4 DEF SizeBefore, FieldOffset, BLOCKSIZE
  <2> QED BY <2>1, <2>5, <2>7, <2>8 DEF b
<1>7. Tail0 = PageBlock(Pages) + After
  <2>1. PageBlock(Pages) = Aligned + Pages * Page - 4 /\ Pages * Page \in Int
    BY <1>1, PageBlockIs
  <2> QED BY <1>1, <2>1 DEF Tail0, HeapEnd, FieldOffset
<1>8. Before = 0 => First = PageBlock(0)
  BY <1>1, <1>2, <1>4
<1> QED BY <1>3, <1>5, <1>6, <1>7, <1>8

LEMMA AllFreeAtFirst ==
    FreeOf(InitialBlocks) = InitialSet /\ UsedOf(InitialBlocks) = {}
<1>1. ASSUME NEW b \in InitialSet PROVE InitialBlocks[b].free
  <2>1. CASE Before > 0 /\ b = Address - 4
    <3>1. InitialBlocks[b] = Header(0, Before - 16, FALSE)
      BY <2>1, InitialHeaders
    <3> QED BY <3>1 DEF Header
  <2>2. CASE \E k \in 0 .. LastPage : b = PageBlock(k)
    <3>1. \E p, s : InitialBlocks[b] = Header(p, s, TRUE)
      BY <2>2, InitialHeaders
    <3> QED BY <3>1 DEF Header
  <2> QED BY <2>1, <2>2 DEF InitialSet
<1> QED BY <1>1, InitialHeaders DEF FreeOf, UsedOf

\* Of the initial blocks only the first can be without the mark.
LEMMA UnmarkedIsNew ==
    ASSUME NEW f, Original(f), NEW n \in DOMAIN f, ~f[n].aligned, n # First
    PROVE  n \notin DOMAIN InitialBlocks
<1> SUFFICES ASSUME n \in InitialSet PROVE InitialBlocks[n].aligned
  BY InitialHeaders DEF Original
<1>1. PICK k \in 0 .. LastPage : n = PageBlock(k)
  BY InitialHeaders DEF InitialSet
<1>2. \E p, s : InitialBlocks[n] = Header(p, s, TRUE)
  BY <1>1, InitialHeaders
<1> QED BY <1>2 DEF Header

----------------------------------------------------------------------------
(* Headers *)

LEMMA HeaderIs ==
    ASSUME NEW f, Headers(f), NEW b \in DOMAIN f
    PROVE  /\ b \in Int /\ f[b] \in HeaderSet /\ f[b].size \in Nat /\ f[b].prev \in Nat
           /\ f[b].free \in BOOLEAN /\ f[b].aligned \in BOOLEAN
           /\ NEXT(f, b) \in Int /\ NEXT(f, b) = b + f[b].size + 16 /\ b + 16 <= NEXT(f, b)
           /\ PREV(f, b) \in Int /\ PREV(f, b) = b - f[b].prev - 16
<1>1. b \in Int /\ f[b] \in HeaderSet
  BY DEF Headers
<1>2. /\ f[b].size \in Nat /\ f[b].prev \in Nat
      /\ f[b].free \in BOOLEAN /\ f[b].aligned \in BOOLEAN
  BY <1>1 DEF HeaderSet
<1> QED BY <1>1, <1>2 DEF NEXT, PREV, BLOCKSIZE

\* HeapInit makes a heap of the right shape.
LEMMA InitialShape ==
    Shape(InitialBlocks) /\ Merged(InitialBlocks)
<1> DEFINE f == InitialBlocks
<1>1. /\ Before \in Nat /\ (Before = 0 \/ (Before = Aligned - Address /\ Before >= 20))
      /\ Pages \in Nat /\ After \in Nat /\ After < Page /\ (After = 0 \/ After >= 20)
      /\ Page \in Nat /\ Page > 32 /\ Address \in Nat /\ Aligned \in Nat
  BY SizesAre, AlignedIs, ParamAssumption DEF BLOCKSIZE
<1>2. DOMAIN f = InitialSet /\ LastPage \in Int
  BY <1>1, InitialHeaders DEF LastPage
<1>3. ASSUME Before > 0
      PROVE  /\ First \in InitialSet /\ f[First] \in HeaderSet /\ f[First].free /\ ~f[First].aligned
             /\ f[First].size = Before - 16 /\ First = Address - 4 /\ First \in Int
             /\ First < PageBlock(0) /\ NEXT(f, First) = PageBlock(0)
  <2>1. First \in InitialSet /\ f[First] = Header(0, Before - 16, FALSE) /\ First = Address - 4
    <3>1. /\ Address - 4 \in InitialSet /\ Address - 4 = First
          /\ InitialBlocks[Address - 4] = Header(0, Before - 16, FALSE)
      BY <1>3, InitialHeaders
    <3> QED BY <3>1
  <2>2. PageBlock(0) = Aligned - 4
    BY <1>1, PageBlockIs
  <2> HIDE DEF f
  <2>3. /\ f[First] \in HeaderSet /\ f[First].free /\ ~f[First].aligned
        /\ f[First].size = Before - 16
    BY <1>1, <1>3, <2>1 DEF Header, HeaderSet
  <2>4. NEXT(f, First) = First + (Before - 16) + 16
    BY <2>3 DEF NEXT, BLOCKSIZE
  <2>5. First \in Int /\ First < PageBlock(0) /\ First + (Before - 16) + 16 = PageBlock(0)
    BY <1>1, <1>3, <2>1, <2>2
  <2> QED BY <2>1, <2>3, <2>4, <2>5
<1>4. ASSUME NEW k \in 0 .. LastPage
      PROVE  /\ PageBlock(k) \in InitialSet /\ f[PageBlock(k)] \in HeaderSet
             /\ f[PageBlock(k)].free /\ f[PageBlock(k)].aligned
             /\ f[PageBlock(k)].prev = IF k > 0 THEN Page - 16
                                       ELSE IF Before > 0 THEN Before - 16 ELSE 0
             /\ f[PageBlock(k)].size = (IF k = Pages THEN After ELSE Page) - 16
             /\ PageBlock(k) \in Int
             /\ NEXT(f, PageBlock(k)) = IF k = Pages THEN Tail0 ELSE PageBlock(k + 1)
  <2> DEFINE p == IF k > 0 THEN Page - 16 ELSE IF Before > 0 THEN Before - 16 ELSE 0
             s == (IF k = Pages THEN After ELSE Page) - 16
             b == PageBlock(k)
  <2>1. b \in InitialSet /\ f[b] = Header(p, s, TRUE)
    BY InitialHeaders
  <2>2. k = Pages => After > 0
    BY <1>1 DEF LastPage
  <2>3. p \in Nat /\ s \in Nat /\ (k = Pages => s = After - 16) /\ (k # Pages => s = Page - 16)
    BY <1>1, <2>2
  <2>4. b \in Int /\ PageBlock(k + 1) = b + Page /\ Tail0 = PageBlock(Pages) + After
    BY PageBlockIs, InitialHeaders
  <2> HIDE DEF f, p, s, b
  <2>5. f[b] \in HeaderSet /\ f[b].free /\ f[b].aligned /\ f[b].prev = p /\ f[b].size = s
    BY <2>1, <2>3 DEF Header, HeaderSet
  <2>6. NEXT(f, b) = b + s + 16
    BY <2>5 DEF NEXT, BLOCKSIZE
  <2>7. CASE k = Pages
    <3>1. NEXT(f, b) = Tail0
      BY <1>1, <2>3, <2>4, <2>6, <2>7 DEF b
    <3> QED BY <2>1, <2>4, <2>5, <2>7, <3>1 DEF b, p, s
  <2>8. CASE k # Pages
    <3>1. NEXT(f, b) = PageBlock(k + 1)
      BY <1>1, <2>3, <2>4, <2>6, <2>8
    <3> QED BY <2>1, <2>4, <2>5, <2>8, <3>1 DEF b, p, s
  <2> QED BY <2>7, <2>8
<1>5. ASSUME NEW b \in DOMAIN f
      PROVE  (Before > 0 /\ b = First) \/ \E k \in 0 .. LastPage : b = PageBlock(k)
  BY <1>2, <1>5, InitialHeaders DEF InitialSet
<1>6. Tail0 = PageBlock(Pages) + After /\ (Before = 0 => First = PageBlock(0))
  BY InitialHeaders
<1>7. \A k \in 0 .. LastPage + 1 : k = LastPage + 1 \/ k \in 0 .. LastPage
  BY <1>2
<1> HIDE DEF f
\* Behind a page block is the next one, or the end of the heap.
<1>8. ASSUME NEW k \in 0 .. Pages, k \notin 0 .. LastPage PROVE PageBlock(k) = Tail0
  <2>1. k = Pages /\ After = 0
    BY <1>1, <1>8 DEF LastPage
  <2> QED BY <1>1, <1>6, <2>1, PageBlockIs
<1>9. \A k \in 0 .. LastPage : k # Pages => k + 1 \in 0 .. Pages
  BY <1>1 DEF LastPage
<1>10. ASSUME NEW k \in 0 .. LastPage
       PROVE  /\ PageBlock(0) <= PageBlock(k) /\ NEXT(f, PageBlock(k)) <= Tail0
              /\ NEXT(f, PageBlock(k)) \in Int /\ NEXT(f, PageBlock(k)) <= PageBlock(k) + Page
              /\ PageBlock(k) < NEXT(f, PageBlock(k))
  <2>1. /\ k \in Int /\ PageBlock(0) \in Int /\ PageBlock(k) \in Int /\ PageBlock(Pages) \in Int
        /\ PageBlock(0) <= PageBlock(k) /\ PageBlock(k + 1) = PageBlock(k) + Page
    BY <1>1, PageBlockIs
  <2>2. CASE k = Pages
    <3>1. After > 0
      BY <1>1, <2>2 DEF LastPage
    <3> QED BY <1>1, <1>4, <1>6, <2>1, <2>2, <3>1
  <2>3. CASE k # Pages
    <3>1. k < Pages
      BY <1>1, <2>3 DEF LastPage
    <3>2. PageBlock(k) + Page <= PageBlock(Pages)
      BY <1>1, <2>1, <3>1, PageBlockIs
    <3> QED BY <1>1, <1>4, <1>6, <2>1, <2>3, <3>2
  <2> QED BY <2>2, <2>3
<1>11. Headers(f)
  <2>1. ASSUME NEW b \in DOMAIN f PROVE b \in Int /\ f[b] \in HeaderSet
    BY <1>3, <1>4, <1>5
  <2>2. f = [b \in DOMAIN f |-> f[b]]
    <3> DEFINE e(b) == IF b < Aligned - FieldOffset THEN Header(0, Before - BLOCKSIZE, FALSE)
                       ELSE Header(SizeBefore(b),
                                   (IF b = PageBlock(Pages) THEN After ELSE Page) - BLOCKSIZE, TRUE)
    <3>1. f = [b \in ToSet(InitialList) |-> e(b)]
      BY Zenon DEF f, InitialBlocks
    <3> HIDE DEF e, f
    <3> QED BY <3>1
  <2> HIDE DEF f
  <2> QED BY <2>1, <2>2 DEF Headers
<1>12. PageBlock(0) \in Int /\ PageBlock(0) <= Tail0 /\ First \in Int /\ First <= PageBlock(0)
       /\ PageBlock(Pages) \in Int /\ Tail0 \in Int
  <2>1. PageBlock(0) \in Int /\ PageBlock(Pages) \in Int /\ PageBlock(0) <= PageBlock(Pages)
    BY <1>1, PageBlockIs
  <2>2. First \in Int /\ First <= PageBlock(0)
    BY <1>1, <1>3, <1>6, <2>1
  <2> QED BY <1>1, <1>6, <2>1, <2>2
<1>13. ASSUME NEW b \in DOMAIN f PROVE First <= b /\ NEXT(f, b) <= Tail0
  <2>1. CASE Before > 0 /\ b = First
    BY <1>3, <1>12, <2>1
  <2>2. ASSUME NEW k \in 0 .. LastPage, b = PageBlock(k) PROVE First <= b /\ NEXT(f, b) <= Tail0
    <3>1. PageBlock(k) \in Int /\ PageBlock(0) <= PageBlock(k)
      BY <1>4, <1>10
    <3> QED BY <1>10, <1>12, <2>2, <3>1
  <2> QED BY <1>5, <2>1, <2>2
<1>14. ASSUME NEW b \in DOMAIN f
       PROVE  \/ NEXT(f, b) = Tail0
              \/ /\ NEXT(f, b) \in DOMAIN f /\ f[NEXT(f, b)].prev = f[b].size
                 /\ f[NEXT(f, b)].aligned
  <2>1. CASE Before > 0 /\ b = First
    <3>1. CASE 0 \in 0 .. LastPage
      BY <1>2, <1>3, <1>4, <2>1, <3>1
    <3>2. CASE 0 \notin 0 .. LastPage
      BY <1>1, <1>3, <1>8, <2>1, <3>2
    <3> QED BY <3>1, <3>2
  <2>2. ASSUME NEW k \in 0 .. LastPage, b = PageBlock(k), k # Pages
        PROVE  \/ NEXT(f, b) = Tail0
               \/ /\ NEXT(f, b) \in DOMAIN f /\ f[NEXT(f, b)].prev = f[b].size
                  /\ f[NEXT(f, b)].aligned
    <3>1. NEXT(f, b) = PageBlock(k + 1) /\ f[b].size = Page - 16 /\ k + 1 \in 0 .. Pages /\ k + 1 > 0
      BY <1>4, <1>9, <2>2
    <3>2. CASE k + 1 \in 0 .. LastPage
      <4>1. PageBlock(k + 1) \in InitialSet /\ f[PageBlock(k + 1)].prev = Page - 16
            /\ f[PageBlock(k + 1)].aligned
        BY <1>4, <3>1, <3>2
      <4> QED BY <1>2, <3>1, <4>1
    <3>3. CASE k + 1 \notin 0 .. LastPage
      BY <1>8, <3>1, <3>3
    <3> QED BY <3>2, <3>3
  <2>3. ASSUME NEW k \in 0 .. LastPage, b = PageBlock(k), k = Pages PROVE NEXT(f, b) = Tail0
    BY <1>4, <2>3
  <2> QED BY <1>5, <2>1, <2>2, <2>3
<1>15. ASSUME NEW b \in DOMAIN f, b # First
       PROVE  PREV(f, b) \in DOMAIN f /\ f[PREV(f, b)].size = f[b].prev
  <2>1. PICK k \in 0 .. LastPage : b = PageBlock(k)
    BY <1>5, <1>15
  <2>2. CASE k = 0
    <3>1. Before > 0
      BY <1>1, <1>6, <1>15, <2>1, <2>2
    <3>2. f[b].prev = Before - 16 /\ f[First].size = Before - 16 /\ First \in InitialSet
      BY <1>3, <1>4, <2>1, <2>2, <3>1
    <3>3. PREV(f, b) = First
      <4>1. PREV(f, b) = PageBlock(0) - (Before - 16) - 16
        BY <2>1, <2>2, <3>2 DEF PREV, BLOCKSIZE
      <4>2. PageBlock(0) = Aligned - 4 /\ First = Address - 4 /\ Before = Aligned - Address
        BY <1>1, <1>3, <3>1, PageBlockIs
      <4> QED BY <1>1, <4>1, <4>2
    <3> QED BY <1>2, <3>2, <3>3
  <2>3. CASE k > 0
    <3>1. k - 1 \in 0 .. LastPage /\ k - 1 # Pages /\ (k - 1) + 1 = k /\ k - 1 \in Int
      BY <1>1, <2>3 DEF LastPage
    <3>2. f[b].prev = Page - 16
      BY <1>4, <2>1, <2>3
    <3>3. f[PageBlock(k - 1)].size = Page - 16 /\ PageBlock(k - 1) \in InitialSet
      BY <1>4, <3>1
    <3>4. b = PageBlock(k - 1) + Page /\ PageBlock(k - 1) \in Int
      BY <2>1, <3>1, PageBlockIs
    <3>5. PREV(f, b) = PageBlock(k - 1)
      BY <1>1, <3>2, <3>4 DEF PREV, BLOCKSIZE
    <3> QED BY <1>2, <3>2, <3>3, <3>5
  <2> QED BY <2>2, <2>3
<1>16. ASSUME NEW b \in DOMAIN f, NEW c \in DOMAIN f PROVE c <= b \/ c >= NEXT(f, b)
  <2>1. /\ b \in Int /\ c \in Int /\ First <= b /\ First <= c
    BY <1>11, <1>13, HeaderIs
  <2>2. CASE Before > 0 /\ c = First
    BY <2>1, <2>2
  <2>3. ASSUME NEW j \in 0 .. LastPage, c = PageBlock(j), Before > 0, b = First
        PROVE  c >= NEXT(f, b)
    BY <1>3, <1>10, <1>12, <2>3
  <2>4. ASSUME NEW j \in 0 .. LastPage, c = PageBlock(j), NEW k \in 0 .. LastPage, b = PageBlock(k)
        PROVE  c <= b \/ c >= NEXT(f, b)
    <3>1. j \in Int /\ k \in Int
      OBVIOUS
    <3>2. CASE j = k
      BY <2>1, <2>4, <3>2
    <3>3. CASE j < k
      <4>1. c + Page <= b
        BY <2>4, <3>1, <3>3, PageBlockIs
      <4> QED BY <1>1, <2>1, <4>1
    <3>4. CASE k < j
      <4>1. b + Page <= c
        BY <2>4, <3>1, <3>4, PageBlockIs
      <4>2. NEXT(f, b) <= b + Page /\ NEXT(f, b) \in Int
        BY <1>10, <2>4
      <4> QED BY <1>1, <2>1, <4>1, <4>2
    <3> QED BY <3>1, <3>2, <3>3, <3>4
  <2> QED BY <1>5, <2>2, <2>3, <2>4
<1>17. Tiled(f)
  BY <1>13, <1>14, <1>15, <1>16 DEF Tiled
<1>18. PICK q \in Nat : Aligned = q * Page /\ (q - 1) * Page < Address
  BY AlignedIs
<1>19. ASSUME NEW b \in DOMAIN f
       PROVE  /\ InPage(b + FieldOffset, NEXT(f, b) + FieldOffset)
              /\ BeginsPage(b) => f[b].aligned
  <2>1. CASE Before > 0 /\ b = First
    <3>1. /\ b + FieldOffset = Address /\ NEXT(f, b) + FieldOffset = Aligned
          /\ Address < Aligned
      <4>1. PageBlock(0) = Aligned - 4
        BY <1>1, PageBlockIs
      <4> QED BY <1>1, <1>3, <2>1, <4>1 DEF FieldOffset
    <3>2. q - 1 \in Int /\ (q - 1) + 1 = q /\ (q - 1) * Page \in Int /\ q * Page \in Int
      BY <1>1
    <3>3. InPage(Address, Aligned)
      <4>1. (q - 1) * Page <= Address /\ Aligned <= ((q - 1) + 1) * Page
        BY <1>1, <1>18, <3>2
      <4> QED BY <3>2, <4>1 DEF InPage
    <3>4. ASSUME NEW k \in Int, Address = k * Page PROVE FALSE
      <4>1. (q - 1) * Page < ((k - 1) + 1) * Page /\ k * Page < ((q - 1) + 1) * Page
        <5>1. (k - 1) + 1 = k
          OBVIOUS
        <5> QED BY <1>18, <3>1, <3>2, <3>4, <5>1
      <4>2. q - 1 <= k - 1 /\ k <= q - 1
        BY <1>1, <3>2, <4>1, MultLess
      <4> QED BY <3>2, <4>2
    <3> QED BY <3>1, <3>3, <3>4 DEF BeginsPage
  <2>2. ASSUME NEW k \in 0 .. LastPage, b = PageBlock(k)
        PROVE  /\ InPage(b + FieldOffset, NEXT(f, b) + FieldOffset)
               /\ BeginsPage(b) => f[b].aligned
    <3>1. b + FieldOffset = Aligned + k * Page /\ k * Page \in Int /\ k \in Int
      BY <1>1, <2>2, PageBlockIs DEF FieldOffset
    <3>2. (q + k) * Page = q * Page + k * Page /\ (q + k + 1) * Page = q * Page + k * Page + Page
      BY <1>1, <3>1
    <3>3. NEXT(f, b) <= b + Page /\ NEXT(f, b) \in Int /\ b \in Int
      BY <1>4, <1>10, <2>2
    <3>4. q + k \in Int /\ q * Page \in Int
      BY <1>1, <3>1
    <3>5. (q + k) * Page <= b + FieldOffset
      BY <1>1, <1>18, <3>1, <3>2, <3>4
    <3>6. NEXT(f, b) + FieldOffset <= (q + k + 1) * Page
      BY <1>1, <1>18, <3>1, <3>2, <3>3, <3>4 DEF FieldOffset
    <3> QED BY <1>4, <2>2, <3>4, <3>5, <3>6 DEF InPage
  <2> QED BY <1>5, <2>1, <2>2
<1>20. Paged(f)
  BY <1>19 DEF Paged
<1>21. Original(f)
  BY DEF Original, f
<1>22. Merged(f)
  <2>1. Tail0 \notin DOMAIN f
    <3> SUFFICES ASSUME Tail0 \in DOMAIN f PROVE FALSE
      OBVIOUS
    <3>1. Tail0 < NEXT(f, Tail0) /\ NEXT(f, Tail0) <= Tail0 /\ NEXT(f, Tail0) \in Int
      BY <1>11, <1>12, <1>13, HeaderIs
    <3> QED BY <1>12, <3>1
  <2> QED BY <1>14, <2>1 DEF Merged
<1> QED BY <1>11, <1>17, <1>20, <1>21, <1>22 DEF Shape, f

\* The records of g are those of f but for the fields prev and size.
SameFlags(f, g) == \A x \in DOMAIN g : g[x].free = f[x].free /\ g[x].aligned = f[x].aligned

\* What TellNext changes.
Told(f, g, b) ==
    /\ DOMAIN g = DOMAIN f
    /\ Headers(g)
    /\ SameFlags(f, g)
    /\ \A x \in DOMAIN g : g[x].size = f[x].size
    /\ \A x \in DOMAIN g : g[x].prev = IF x = NEXT(f, b) THEN f[b].size ELSE f[x].prev

LEMMA TellNextIs ==
    ASSUME NEW f, Headers(f), NEW b \in DOMAIN f
    PROVE  Told(f, TellNext(f, b), b)
<1> DEFINE n == NEXT(f, b)
           g == TellNext(f, b)
<1>1. f[b].size \in Nat /\ DOMAIN f \subseteq Int /\ \A x \in DOMAIN f : f[x] \in HeaderSet
  BY DEF Headers, HeaderSet
<1>2. CASE n \notin DOMAIN f
  BY <1>1, <1>2 DEF TellNext, IsBlock, Told, SameFlags, Headers
<1>3. CASE n \in DOMAIN f
  <2> DEFINE e == [f[n] EXCEPT !.prev = f[b].size]
  <2>1. f[n] \in HeaderSet
    BY <1>1, <1>3
  <2>2. /\ e \in HeaderSet /\ e.prev = f[b].size /\ e.size = f[n].size
        /\ e.free = f[n].free /\ e.aligned = f[n].aligned
    BY <1>1, <2>1 DEF HeaderSet
  <2> HIDE DEF e
  <2>3. g = [f EXCEPT ![n] = e]
    BY <1>3 DEF TellNext, IsBlock, e
  <2> HIDE DEF n, g
  <2>4. DOMAIN g = DOMAIN f /\ g[n] = e /\ \A x \in DOMAIN f : x # n => g[x] = f[x]
    BY <1>3, <2>3
  <2>5. Headers(g)
    <3>1. g = [x \in DOMAIN f |-> g[x]]
      BY <2>3, <2>4
    <3> QED BY <1>1, <2>2, <2>4, <3>1 DEF Headers
  <2>6. ASSUME NEW x \in DOMAIN g
        PROVE  /\ g[x].free = f[x].free /\ g[x].aligned = f[x].aligned /\ g[x].size = f[x].size
               /\ g[x].prev = IF x = n THEN f[b].size ELSE f[x].prev
    BY <2>2, <2>4
  <2> QED BY <2>4, <2>5, <2>6 DEF Told, SameFlags, n, g
<1> QED BY <1>2, <1>3

\* What Absorb changes.
Absorbed(f, g, b, n) ==
    /\ DOMAIN g = DOMAIN f \ {n}
    /\ Headers(g)
    /\ SameFlags(f, g)
    /\ g[b].size = f[b].size + f[n].size + 16
    /\ \A x \in DOMAIN g : x # b => g[x].size = f[x].size
    /\ \A x \in DOMAIN g : g[x].prev = IF x = NEXT(f, n) THEN g[b].size ELSE f[x].prev
    /\ NEXT(g, b) = NEXT(f, n)
    /\ \A x \in DOMAIN g : x # b => NEXT(g, x) = NEXT(f, x)

LEMMA AbsorbIs ==
    ASSUME NEW f, Headers(f), NEW b \in DOMAIN f, NEW n \in DOMAIN f, n = NEXT(f, b)
    PROVE  Absorbed(f, Absorb(f, b, n), b, n)
<1> DEFINE m == f[b].size + f[n].size + BLOCKSIZE
           e == [f[b] EXCEPT !.size = m]
           f1 == [f EXCEPT ![b] = e]
           f2 == Restrict(f1, DOMAIN f \ {n})
           g == Absorb(f, b, n)
<1>1. /\ f[b] \in HeaderSet /\ f[b].size \in Nat /\ f[n].size \in Nat /\ b \in Int
      /\ NEXT(f, n) = n + f[n].size + 16 /\ n = b + f[b].size + 16 /\ b # n
  BY HeaderIs
<1>2. m \in Nat /\ m = f[b].size + f[n].size + 16
  BY <1>1 DEF BLOCKSIZE
<1>3. g = TellNext(f2, b)
  BY DEF Absorb
<1> HIDE DEF m, g
<1>4. /\ e \in HeaderSet /\ e.size = m /\ e.prev = f[b].prev /\ e.free = f[b].free
      /\ e.aligned = f[b].aligned
  BY <1>1, <1>2 DEF HeaderSet
<1> HIDE DEF e
<1>5. DOMAIN f2 = DOMAIN f \ {n} /\ f2[b] = e /\ \A x \in DOMAIN f2 : x # b => f2[x] = f[x]
  BY <1>1 DEF Restrict
<1>0. f2 = [x \in DOMAIN f \ {n} |-> f2[x]]
  BY DEF Restrict
<1> HIDE DEF f2
<1>6. Headers(f2)
  BY <1>0, <1>4, <1>5 DEF Headers
<1>7. b \in DOMAIN f2
  BY <1>1, <1>5
<1>8. Told(f2, g, b)
  BY <1>3, <1>6, <1>7, TellNextIs
<1>9. NEXT(f2, b) = NEXT(f, n)
  <2>1. NEXT(f2, b) = b + m + 16
    BY <1>4, <1>5, <1>6, <1>7, HeaderIs
  <2> QED BY <1>1, <1>2, <2>1
<1>10. /\ DOMAIN g = DOMAIN f \ {n} /\ Headers(g)
       /\ \A x \in DOMAIN g : g[x].free = f2[x].free /\ g[x].aligned = f2[x].aligned
       /\ \A x \in DOMAIN g : g[x].size = f2[x].size
       /\ \A x \in DOMAIN g : g[x].prev = IF x = NEXT(f, n) THEN m ELSE f2[x].prev
  BY <1>4, <1>5, <1>8, <1>9 DEF Told, SameFlags
<1>11. SameFlags(f, g)
  BY <1>4, <1>5, <1>10 DEF SameFlags
<1>12. g[b].size = m /\ \A x \in DOMAIN g : x # b => g[x].size = f[x].size
  BY <1>4, <1>5, <1>7, <1>10
<1>13. \A x \in DOMAIN g : g[x].prev = IF x = NEXT(f, n) THEN g[b].size ELSE f[x].prev
  BY <1>4, <1>5, <1>10, <1>12
<1>14. NEXT(g, b) = NEXT(f, n)
  <2>1. NEXT(g, b) = NEXT(f2, b)
    BY <1>5, <1>7, <1>10 DEF NEXT
  <2> QED BY <1>9, <2>1
<1>15. \A x \in DOMAIN g : x # b => NEXT(g, x) = NEXT(f, x)
  BY <1>12 DEF NEXT
<1> QED BY <1>2, <1>10, <1>11, <1>12, <1>13, <1>14, <1>15 DEF Absorbed, g

\* Where a block ends another begins, or the heap ends; only one block ends there.
LEMMA OneBefore ==
    ASSUME NEW f, Headers(f), Tiled(f), NEW b \in DOMAIN f, NEW c \in DOMAIN f,
           NEXT(f, b) = NEXT(f, c)
    PROVE  b = c
<1>1. b \in Int /\ c \in Int /\ NEXT(f, b) \in Int /\ b < NEXT(f, b) /\ c < NEXT(f, c)
  BY HeaderIs
<1>2. (c <= b \/ c >= NEXT(f, b)) /\ (b <= c \/ b >= NEXT(f, c))
  BY DEF Tiled
<1> QED BY <1>1, <1>2

\* Merging two neighbours that no page boundary separates keeps the shape.
LEMMA AbsorbShape ==
    ASSUME NEW f, Shape(f), NEW b \in DOMAIN f, NEW n \in DOMAIN f, n = NEXT(f, b),
           ~f[n].aligned, n # First, NEW g, Absorbed(f, g, b, n)
    PROVE  Shape(g)
<1>1. Headers(f) /\ Tiled(f) /\ Paged(f) /\ Original(f) /\ Headers(g)
  BY DEF Shape, Absorbed
<1>2. /\ DOMAIN g = DOMAIN f \ {n} /\ b \in DOMAIN g /\ b # n
      /\ NEXT(g, b) = NEXT(f, n)
      /\ \A x \in DOMAIN g : x # b => NEXT(g, x) = NEXT(f, x)
      /\ \A x \in DOMAIN g : x # b => g[x].size = f[x].size
      /\ \A x \in DOMAIN g : g[x].prev = IF x = NEXT(f, n) THEN g[b].size ELSE f[x].prev
      /\ \A x \in DOMAIN g : g[x].aligned = f[x].aligned
  <2>1. b # n
    BY <1>1, HeaderIs
  <2> QED BY <2>1 DEF Absorbed, SameFlags
<1>3. /\ n \in Int /\ b \in Int /\ b < n /\ n < NEXT(f, n) /\ NEXT(f, n) \in Int
  BY <1>1, HeaderIs
<1>4. ASSUME NEW x \in DOMAIN g PROVE First <= x /\ NEXT(g, x) <= Tail0
  BY <1>1, <1>2 DEF Tiled
<1>5. ASSUME NEW x \in DOMAIN g
      PROVE  NEXT(g, x) = Tail0 \/ (NEXT(g, x) \in DOMAIN g /\ g[NEXT(g, x)].prev = g[x].size)
  <2>1. CASE x = b
    <3>1. NEXT(f, n) = Tail0 \/ NEXT(f, n) \in DOMAIN f
      BY <1>1 DEF Tiled
    <3>2. NEXT(f, n) # n
      BY <1>3
    <3> QED BY <1>2, <2>1, <3>1, <3>2
  <2>2. CASE x # b
    <3>1. NEXT(f, x) # n
      BY <1>1, <1>2, <2>2, OneBefore
    <3>2. NEXT(f, x) = Tail0 \/ (NEXT(f, x) \in DOMAIN f /\ f[NEXT(f, x)].prev = f[x].size)
      BY <1>1, <1>2 DEF Tiled
    <3>3. NEXT(f, x) # NEXT(f, n)
      <4>1. x \in DOMAIN f /\ x # n
        BY <1>2
      <4> QED BY <1>1, <4>1, OneBefore
    <3> QED BY <1>2, <2>2, <3>1, <3>2, <3>3
  <2> QED BY <2>1, <2>2
<1>6. ASSUME NEW x \in DOMAIN g
      PROVE  x = First \/ (PREV(g, x) \in DOMAIN g /\ g[PREV(g, x)].size = g[x].prev)
  <2> SUFFICES ASSUME x # First PROVE PREV(g, x) \in DOMAIN g /\ g[PREV(g, x)].size = g[x].prev
    OBVIOUS
  <2>1. PREV(f, x) \in DOMAIN f /\ f[PREV(f, x)].size = f[x].prev
    BY <1>1, <1>2 DEF Tiled
  <2>2. NEXT(f, PREV(f, x)) = x
    BY <1>1, <1>2, <2>1, HeaderIs
  <2>3. CASE x = NEXT(f, n)
    <3>1. g[x].prev = g[b].size
      BY <1>2, <2>3
    <3>2. NEXT(g, b) = x
      BY <1>2, <2>3
    <3>3. PREV(g, x) = b
      BY <1>1, <1>2, <3>1, <3>2, HeaderIs
    <3> QED BY <1>2, <3>1, <3>3
  <2>4. CASE x # NEXT(f, n)
    <3>1. g[x].prev = f[x].prev /\ PREV(g, x) = PREV(f, x)
      BY <1>2, <2>4 DEF PREV
    <3>2. PREV(f, x) # n /\ PREV(f, x) # b
      BY <1>2, <2>2, <2>4
    <3> QED BY <1>2, <2>1, <3>1, <3>2
  <2> QED BY <2>3, <2>4
<1>7. ASSUME NEW x \in DOMAIN g, NEW c \in DOMAIN g PROVE c <= x \/ c >= NEXT(g, x)
  <2>1. x \in DOMAIN f /\ c \in DOMAIN f /\ c # n /\ c \in Int /\ x \in Int
    BY <1>1, <1>2, HeaderIs
  <2>2. (c <= x \/ c >= NEXT(f, x)) /\ (c <= n \/ c >= NEXT(f, n))
    BY <1>1, <2>1 DEF Tiled
  <2>3. CASE x = b
    <3>1. c <= b \/ c >= n
      BY <2>2, <2>3
    <3>2. c <= b \/ c >= NEXT(f, n)
      BY <1>3, <2>1, <2>2, <3>1
    <3> QED BY <1>2, <2>3, <3>2
  <2>4. CASE x # b
    BY <1>2, <2>2, <2>4
  <2> QED BY <2>3, <2>4
<1>8. Tiled(g)
  BY <1>4, <1>5, <1>6, <1>7 DEF Tiled
<1>9. ASSUME NEW x \in DOMAIN g PROVE InPage(x + FieldOffset, NEXT(g, x) + FieldOffset)
  <2>1. CASE x # b
    BY <1>1, <1>2, <2>1 DEF Paged
  <2>2. CASE x = b
    <3>1. PICK k \in Int : k * Page <= b + FieldOffset /\ n + FieldOffset <= (k + 1) * Page
      BY <1>1 DEF Paged, InPage
    <3>2. PICK j \in Int : j * Page <= n + FieldOffset /\ NEXT(f, n) + FieldOffset <= (j + 1) * Page
      BY <1>1 DEF Paged, InPage
    <3>3. n + FieldOffset # (k + 1) * Page
      <4>1. ~BeginsPage(n)
        BY <1>1 DEF Paged
      <4>2. k + 1 \in Int
        OBVIOUS
      <4> QED BY <4>1, <4>2 DEF BeginsPage
    <3>4. j * Page < (k + 1) * Page
      <4>1. j * Page \in Int /\ (k + 1) * Page \in Int /\ n + FieldOffset \in Int
        BY <1>3, ParamAssumption DEF FieldOffset
      <4> QED BY <3>1, <3>2, <3>3, <4>1
    <3>5. j <= k
      <4>1. Page \in Nat
        BY ParamAssumption
      <4> QED BY <3>4, <4>1, MultLess
    <3>6. (j + 1) * Page <= (k + 1) * Page
      BY <3>5, ParamAssumption, MultMono
    <3>7. NEXT(f, n) + FieldOffset <= (k + 1) * Page
      <4>1. (j + 1) * Page \in Int /\ (k + 1) * Page \in Int /\ NEXT(f, n) + FieldOffset \in Int
        BY <1>3, ParamAssumption DEF FieldOffset
      <4> QED BY <3>2, <3>6, <4>1
    <3> QED BY <1>2, <2>2, <3>1, <3>7 DEF InPage
  <2> QED BY <2>1, <2>2
<1>10. Paged(g)
  BY <1>1, <1>2, <1>9 DEF Paged
<1>11. Original(g)
  <2>1. n \notin DOMAIN InitialBlocks
    BY <1>1, UnmarkedIsNew
  <2>2. NEXT(f, n) # First
    <3>1. First <= n
      BY <1>1 DEF Tiled
    <3> QED BY <1>3, <3>1, FirstIsInt
  <2> QED BY <1>1, <1>2, <2>1, <2>2 DEF Original
<1> QED BY <1>1, <1>8, <1>10, <1>11 DEF Shape

\* The address behind the heap is no block's.
LEMMA TailIsNoBlock ==
    ASSUME NEW f, Headers(f), Tiled(f)
    PROVE  Tail0 \notin DOMAIN f
<1> SUFFICES ASSUME Tail0 \in DOMAIN f PROVE FALSE
  OBVIOUS
<1>1. Tail0 < NEXT(f, Tail0) /\ NEXT(f, Tail0) <= Tail0 /\ NEXT(f, Tail0) \in Int /\ Tail0 \in Int
  BY HeaderIs DEF Tiled
<1> QED BY <1>1

\* Only the flag FREE of b changes.
Flagged(f, g, b, v) ==
    /\ DOMAIN g = DOMAIN f
    /\ Headers(g)
    /\ \A x \in DOMAIN f : /\ g[x].size = f[x].size /\ g[x].prev = f[x].prev
                           /\ g[x].aligned = f[x].aligned
                           /\ x # b => g[x].free = f[x].free
    /\ g[b].free = v

LEMMA FlaggedNext ==
    ASSUME NEW f, NEW g, NEW b, NEW v, Flagged(f, g, b, v), NEW x \in DOMAIN f
    PROVE  NEXT(g, x) = NEXT(f, x) /\ PREV(g, x) = PREV(f, x)
BY DEF Flagged, NEXT, PREV

LEMMA FlaggedShape ==
    ASSUME NEW f, NEW g, NEW b, NEW v, Shape(f), Flagged(f, g, b, v)
    PROVE  Shape(g)
<1>1. Headers(f) /\ Tiled(f) /\ Paged(f) /\ Original(f) /\ Headers(g)
  BY DEF Shape, Flagged
<1>2. /\ DOMAIN g = DOMAIN f
      /\ \A x \in DOMAIN f : g[x].size = f[x].size /\ g[x].prev = f[x].prev
      /\ \A x \in DOMAIN f : NEXT(g, x) = NEXT(f, x) /\ PREV(g, x) = PREV(f, x)
  BY FlaggedNext DEF Flagged
<1>3. \A x \in DOMAIN f : g[x].aligned = f[x].aligned
  BY DEF Flagged
<1>4. Tiled(g)
  BY <1>1, <1>2 DEF Tiled
<1>5. Paged(g)
  BY <1>1, <1>2, <1>3 DEF Paged
<1>6. Original(g)
  BY <1>1, <1>2, <1>3 DEF Original
<1> QED BY <1>1, <1>4, <1>5, <1>6 DEF Shape

\* Block b keeps n bytes and a free block gets the rest.
Cut(f, g, b, n) ==
    LET new == b + n + 16 IN
    /\ DOMAIN g = DOMAIN f \cup {new}
    /\ Headers(g)
    /\ g[b].size = n /\ ~g[b].free /\ g[b].aligned = f[b].aligned
    /\ g[new].size = f[b].size - n - 16 /\ g[new].prev = n /\ g[new].free /\ ~g[new].aligned
    /\ \A x \in DOMAIN f : x # b => /\ g[x].size = f[x].size /\ g[x].free = f[x].free
                                    /\ g[x].aligned = f[x].aligned
    /\ \A x \in DOMAIN f : g[x].prev = IF x = NEXT(f, b) THEN g[new].size ELSE f[x].prev
    /\ NEXT(g, b) = new /\ NEXT(g, new) = NEXT(f, b)
    /\ \A x \in DOMAIN f : x # b => NEXT(g, x) = NEXT(f, x)

\* Inside a block nothing begins.
LEMMA NewIsNew ==
    ASSUME NEW f, Headers(f), Tiled(f), NEW b \in DOMAIN f, NEW n \in Nat, n + 20 <= f[b].size
    PROVE  /\ b + n + 16 \notin DOMAIN f /\ b + n + 16 \in Int /\ b < b + n + 16
           /\ b + n + 36 <= NEXT(f, b)
<1>1. b \in Int /\ f[b].size \in Nat /\ NEXT(f, b) = b + f[b].size + 16
  BY HeaderIs
<1>2. b + n + 16 \in DOMAIN f => b + n + 16 <= b \/ b + n + 16 >= NEXT(f, b)
  BY DEF Tiled
<1> QED BY <1>1, <1>2

LEMMA ResizedIs ==
    ASSUME NEW f, Headers(f), NEW b \in DOMAIN f, NEW n \in Nat
    PROVE  LET r == Resized(f, b, n) IN
           /\ DOMAIN r = DOMAIN f /\ Headers(r)
           /\ r[b].size = n /\ r[b].prev = f[b].prev /\ ~r[b].free /\ r[b].aligned = f[b].aligned
           /\ \A x \in DOMAIN f : x # b => r[x] = f[x]
<1> DEFINE r == Resized(f, b, n)
           e1 == [f[b] EXCEPT !.size = n]
           e2 == [e1 EXCEPT !.free = FALSE]
<1>1. f[b] \in HeaderSet
  BY DEF Headers
<1>2. e1 \in HeaderSet /\ e1.size = n /\ e1.prev = f[b].prev /\ e1.aligned = f[b].aligned
  BY <1>1 DEF HeaderSet
<1>3. [f[b] EXCEPT !.size = n, !.free = FALSE] = e2
  OBVIOUS
<1> HIDE DEF e1
<1>4. /\ e2 \in HeaderSet /\ e2.size = n /\ e2.prev = f[b].prev /\ ~e2.free
      /\ e2.aligned = f[b].aligned
  BY <1>2 DEF HeaderSet
<1> HIDE DEF e2
<1>5. r = [f EXCEPT ![b] = e2]
  BY <1>3 DEF Resized
<1> HIDE DEF r
<1>6. DOMAIN r = DOMAIN f /\ r[b] = e2 /\ \A x \in DOMAIN f : x # b => r[x] = f[x]
  BY <1>5
<1>7. Headers(r)
  <2>1. r = [x \in DOMAIN f |-> r[x]]
    BY <1>5, <1>6
  <2> QED BY <1>4, <1>6, <2>1 DEF Headers
<1> QED BY <1>4, <1>6, <1>7 DEF r

LEMMA CutIs ==
    ASSUME NEW f, Headers(f), Tiled(f), NEW b \in DOMAIN f, NEW n \in Nat, n + 20 <= f[b].size
    PROVE  LET new == b + n + 16 IN
           Cut(f, TellNext(Put(Resized(f, b, n), new, Header(n, (f[b].size - n) - 16, FALSE)), new), b, n)
<1> DEFINE new == b + n + 16
           e == Header(n, (f[b].size - n) - 16, FALSE)
           r == Resized(f, b, n)
           p == Put(r, new, e)
           g == TellNext(p, new)
<1>1. new \notin DOMAIN f /\ new \in Int /\ new # b
  BY NewIsNew
<1>2. f[b].size \in Nat /\ NEXT(f, b) = b + f[b].size + 16 /\ b \in Int
  BY HeaderIs
<1>3. (f[b].size - n) - 16 \in Nat
  BY <1>2
<1>4. /\ e \in HeaderSet /\ e.size = (f[b].size - n) - 16 /\ e.prev = n /\ e.free /\ ~e.aligned
  BY <1>3 DEF Header, HeaderSet
<1>5. /\ DOMAIN r = DOMAIN f /\ Headers(r)
      /\ r[b].size = n /\ r[b].prev = f[b].prev /\ ~r[b].free /\ r[b].aligned = f[b].aligned
      /\ \A x \in DOMAIN f : x # b => r[x] = f[x]
  BY ResizedIs
<1> HIDE DEF e, r, new
<1>6. DOMAIN p = DOMAIN f \cup {new} /\ p[new] = e /\ \A x \in DOMAIN f : p[x] = r[x]
  BY <1>1, <1>5 DEF Put
<1>0. p = [x \in DOMAIN f \cup {new} |-> p[x]]
  BY <1>5 DEF Put
<1> HIDE DEF p
<1>7. Headers(p)
  BY <1>0, <1>1, <1>4, <1>5, <1>6 DEF Headers
<1>8. new \in DOMAIN p
  BY <1>6
<1>9. Told(p, g, new)
  BY <1>7, <1>8, TellNextIs
<1> HIDE DEF g
<1>10. NEXT(p, new) = NEXT(f, b)
  <2>1. NEXT(p, new) = new + ((f[b].size - n) - 16) + 16
    BY <1>4, <1>6, <1>7, <1>8, HeaderIs
  <2> QED BY <1>2, <2>1 DEF new
<1>11. /\ DOMAIN g = DOMAIN f \cup {new} /\ Headers(g)
       /\ \A x \in DOMAIN g : g[x].size = p[x].size
       /\ \A x \in DOMAIN g : g[x].prev = IF x = NEXT(f, b) THEN p[new].size ELSE p[x].prev
  BY <1>6, <1>9, <1>10 DEF Told
<1>12. \A x \in DOMAIN g : g[x].free = p[x].free /\ g[x].aligned = p[x].aligned
  BY <1>9 DEF Told, SameFlags
<1>13. \A x \in DOMAIN g : NEXT(g, x) = NEXT(p, x)
  BY <1>11 DEF NEXT
<1>14. NEXT(f, b) # new
  BY <1>2, <1>3 DEF new
<1>15. /\ g[b].size = n /\ g[new].size = (f[b].size - n) - 16 /\ g[new].prev = n
       /\ NEXT(g, new) = NEXT(f, b)
  BY <1>4, <1>5, <1>6, <1>8, <1>10, <1>11, <1>13, <1>14
<1>16. /\ ~g[b].free /\ g[b].aligned = f[b].aligned /\ g[new].free /\ ~g[new].aligned
  BY <1>4, <1>5, <1>6, <1>11, <1>12
<1>17. NEXT(g, b) = new
  BY <1>2, <1>11, <1>15 DEF NEXT, BLOCKSIZE, new
<1>18. ASSUME NEW x \in DOMAIN f, x # b
       PROVE  /\ g[x].size = f[x].size /\ g[x].free = f[x].free /\ g[x].aligned = f[x].aligned
              /\ NEXT(g, x) = NEXT(f, x)
  <2>1. p[x] = f[x]
    BY <1>5, <1>6, <1>18
  <2> QED BY <1>11, <1>12, <1>13, <2>1 DEF NEXT
<1>19. ASSUME NEW x \in DOMAIN f
       PROVE  g[x].prev = IF x = NEXT(f, b) THEN g[new].size ELSE f[x].prev
  <2>1. p[x].prev = f[x].prev
    BY <1>5, <1>6
  <2> QED BY <1>8, <1>11, <2>1
<1>20. f[b].size - n - 16 = (f[b].size - n) - 16
  BY <1>2
<1> QED BY <1>11, <1>15, <1>16, <1>17, <1>18, <1>19, <1>20 DEF Cut, new, g, p, r, e

\* Cutting a block in two keeps the shape.
LEMMA CutShape ==
    ASSUME NEW f, Shape(f), NEW b \in DOMAIN f, NEW n \in Nat, n + 20 <= f[b].size,
           NEW g, Cut(f, g, b, n)
    PROVE  Shape(g)
<1> DEFINE new == b + n + 16
<1>1. Headers(f) /\ Tiled(f) /\ Paged(f) /\ Original(f)
  BY DEF Shape
<1>2. /\ DOMAIN g = DOMAIN f \cup {new} /\ Headers(g)
      /\ g[b].size = n /\ g[new].size = f[b].size - n - 16 /\ g[new].prev = n
      /\ \A x \in DOMAIN f : x # b => g[x].size = f[x].size
      /\ \A x \in DOMAIN f : g[x].prev = IF x = NEXT(f, b) THEN g[new].size ELSE f[x].prev
      /\ NEXT(g, b) = new /\ NEXT(g, new) = NEXT(f, b)
      /\ \A x \in DOMAIN f : x # b => NEXT(g, x) = NEXT(f, x)
  BY DEF Cut
<1>3. ~g[new].aligned /\ \A x \in DOMAIN f : g[x].aligned = f[x].aligned
  BY DEF Cut
<1>4. new \notin DOMAIN f /\ new \in Int /\ b < new /\ new < NEXT(f, b) /\ NEXT(f, b) \in Int
  BY <1>1, NewIsNew, HeaderIs
<1> HIDE DEF new
<1>5. b \in Int /\ First <= b /\ NEXT(f, b) <= Tail0 /\ First \in Int /\ Tail0 \in Int
  <2>1. First \in Int /\ Tail0 \in Int
    BY FirstIsInt
  <2> QED BY <1>1, <2>1, HeaderIs DEF Tiled
<1>6. ASSUME NEW x \in DOMAIN g PROVE First <= x /\ NEXT(g, x) <= Tail0
  <2>1. CASE x = new
    BY <1>2, <1>4, <1>5, <2>1
  <2>2. CASE x = b
    BY <1>2, <1>4, <1>5, <2>2
  <2>3. CASE x \in DOMAIN f /\ x # b
    BY <1>1, <1>2, <2>3 DEF Tiled
  <2> QED BY <1>2, <2>1, <2>2, <2>3
<1>7. ASSUME NEW x \in DOMAIN g
      PROVE  NEXT(g, x) = Tail0 \/ (NEXT(g, x) \in DOMAIN g /\ g[NEXT(g, x)].prev = g[x].size)
  <2>1. CASE x = new
    <3>1. NEXT(f, b) = Tail0 \/ NEXT(f, b) \in DOMAIN f
      BY <1>1 DEF Tiled
    <3> QED BY <1>2, <2>1, <3>1
  <2>2. CASE x = b
    BY <1>2, <2>2
  <2>3. CASE x \in DOMAIN f /\ x # b
    <3>1. NEXT(f, x) = Tail0 \/ (NEXT(f, x) \in DOMAIN f /\ f[NEXT(f, x)].prev = f[x].size)
      BY <1>1, <2>3 DEF Tiled
    <3>2. NEXT(f, x) # NEXT(f, b)
      BY <1>1, <2>3, OneBefore
    <3> QED BY <1>2, <2>3, <3>1, <3>2
  <2> QED BY <1>2, <2>1, <2>2, <2>3
<1>8. ASSUME NEW x \in DOMAIN g, x # First
      PROVE  PREV(g, x) \in DOMAIN g /\ g[PREV(g, x)].size = g[x].prev
  <2>1. CASE x = new
    <3>1. PREV(g, x) = b
      BY <1>2, <1>4, <1>5, <2>1, HeaderIs DEF new
    <3> QED BY <1>2, <2>1, <3>1
  <2>2. CASE x \in DOMAIN f /\ x = NEXT(f, b)
    <3>1. g[x].prev = g[new].size /\ NEXT(g, new) = x /\ new \in DOMAIN g
      BY <1>2, <2>2
    <3>2. PREV(g, x) = new
      BY <1>2, <3>1, HeaderIs
    <3> QED BY <3>1, <3>2
  <2>3. CASE x \in DOMAIN f /\ x # NEXT(f, b)
    <3>1. PREV(f, x) \in DOMAIN f /\ f[PREV(f, x)].size = f[x].prev
      BY <1>1, <1>8, <2>3 DEF Tiled
    <3>2. NEXT(f, PREV(f, x)) = x
      BY <1>1, <2>3, <3>1, HeaderIs
    <3>3. PREV(f, x) # b
      BY <2>3, <3>2
    <3>4. g[x].prev = f[x].prev /\ PREV(g, x) = PREV(f, x)
      BY <1>2, <2>3 DEF PREV
    <3> QED BY <1>2, <3>1, <3>3, <3>4
  <2> QED BY <1>2, <2>1, <2>2, <2>3
<1>9. ASSUME NEW x \in DOMAIN g, NEW c \in DOMAIN g PROVE c <= x \/ c >= NEXT(g, x)
  <2>1. c \in Int /\ x \in Int /\ NEXT(g, x) \in Int
    BY <1>2, HeaderIs
  <2>2. CASE c = new
    <3>1. CASE x \in {b, new}
      BY <1>2, <1>4, <1>5, <2>1, <2>2, <3>1
    <3>2. CASE x \in DOMAIN f /\ x # b
      <4>1. (b <= x \/ b >= NEXT(f, x)) /\ (x <= b \/ x >= NEXT(f, b)) /\ NEXT(g, x) = NEXT(f, x)
        BY <1>1, <1>2, <3>2 DEF Tiled
      <4> QED BY <1>4, <1>5, <2>1, <2>2, <3>2, <4>1
    <3> QED BY <1>2, <3>1, <3>2
  <2>3. CASE c \in DOMAIN f
    <3>1. c <= b \/ c >= NEXT(f, b)
      BY <1>1, <2>3 DEF Tiled
    <3>2. CASE x \in {b, new}
      BY <1>2, <1>4, <1>5, <2>1, <3>1, <3>2
    <3>3. CASE x \in DOMAIN f /\ x # b
      BY <1>1, <1>2, <2>3, <3>3 DEF Tiled
    <3> QED BY <1>2, <3>2, <3>3
  <2> QED BY <1>2, <2>2, <2>3
<1>10. Tiled(g)
  BY <1>6, <1>7, <1>8, <1>9 DEF Tiled
<1>11. PICK k \in Int : k * Page <= b + FieldOffset /\ NEXT(f, b) + FieldOffset <= (k + 1) * Page
  BY <1>1 DEF Paged, InPage
<1>12. k * Page \in Int /\ (k + 1) * Page \in Int /\ Page \in Nat
  BY ParamAssumption
<1>13. InPage(b + FieldOffset, new + FieldOffset) /\ InPage(new + FieldOffset, NEXT(f, b) + FieldOffset)
  <2>1. new + FieldOffset <= (k + 1) * Page /\ k * Page <= new + FieldOffset
    BY <1>4, <1>5, <1>11, <1>12 DEF FieldOffset
  <2> QED BY <1>11, <2>1 DEF InPage
<1>14. ~BeginsPage(new)
  <2> SUFFICES ASSUME NEW j \in Int, new + FieldOffset = j * Page PROVE FALSE
    BY DEF BeginsPage
  <2>1. k * Page < j * Page /\ j * Page < (k + 1) * Page
    BY <1>4, <1>5, <1>11, <1>12 DEF FieldOffset
  <2>2. j <= k
    BY <1>12, <2>1, MultLess
  <2>3. k <= j - 1
    <3>1. (j - 1) + 1 = j /\ j - 1 \in Int
      OBVIOUS
    <3>2. k * Page < ((j - 1) + 1) * Page
      BY <2>1, <3>1
    <3> QED BY <1>12, <3>1, <3>2, MultLess
  <2> QED BY <2>2, <2>3
<1>15. Paged(g)
  <2> SUFFICES ASSUME NEW x \in DOMAIN g
               PROVE  /\ InPage(x + FieldOffset, NEXT(g, x) + FieldOffset)
                      /\ BeginsPage(x) => g[x].aligned
    BY DEF Paged
  <2>1. CASE x = new
    BY <1>2, <1>13, <1>14, <2>1
  <2>2. CASE x = b
    BY <1>1, <1>2, <1>3, <1>13, <2>2 DEF Paged
  <2>3. CASE x \in DOMAIN f /\ x # b
    BY <1>1, <1>2, <1>3, <2>3 DEF Paged
  <2> QED BY <1>2, <2>1, <2>2, <2>3
<1>16. Original(g)
  <2>1. First <= b /\ b < NEXT(f, b) /\ b < new
    BY <1>1, <1>4, <1>5, HeaderIs DEF Tiled
  <2>2. First # NEXT(f, b) /\ First # new
    BY <1>4, <1>5, <2>1, FirstIsInt
  <2> QED BY <1>1, <1>2, <1>3, <1>4, <2>2 DEF Original
<1> QED BY <1>2, <1>10, <1>15, <1>16 DEF Shape

----------------------------------------------------------------------------
(* malloc, free and realloc on a heap of the right shape *)

\* The two ways in which Splice can go.
Spliced(f, l, r, b, n) ==
    /\ r = [hdr |-> r.hdr, list |-> r.list]
    /\ \/ n + 20 <= f[b].size /\ Cut(f, r.hdr, b, n) /\ r.list = <<b + n + 16>> \o l
       \/ Flagged(f, r.hdr, b, FALSE) /\ r.list = l

LEMMA SpliceIs ==
    ASSUME NEW f, NEW l, Headers(f), Tiled(f), NEW b \in DOMAIN f, NEW n \in Nat, n <= f[b].size,
           NEW t, t = f[b].size
    PROVE  Spliced(f, l, Splice([hdr |-> f, list |-> l], b, n, t), b, n)
<1> DEFINE r == Splice([hdr |-> f, list |-> l], b, n, t)
           new == b + n + 16
           cut == TellNext(Put(Resized(f, b, n), new, Header(n, (t - n) - 16, FALSE)), new)
           all == TellNext(Resized(f, b, t), b)
<1>1. f[b].size \in Nat /\ b \in Int
  BY HeaderIs
<1>2. r = IF t - n >= 20 THEN [hdr |-> cut, list |-> <<new>> \o l] ELSE [hdr |-> all, list |-> l]
  BY DEF Splice, MIN_BLOCKSIZE, BLOCKSIZE
<1>3. CASE t - n >= 20
  <2>1. n + 20 <= f[b].size
    BY <1>1, <1>3
  <2>2. Cut(f, cut, b, n)
    BY <2>1, CutIs
  <2> HIDE DEF cut, r
  <2>3. r = [hdr |-> cut, list |-> <<new>> \o l]
    BY <1>2, <1>3
  <2>4. r.hdr = cut /\ r.list = <<b + n + 16>> \o l /\ r = [hdr |-> r.hdr, list |-> r.list]
    BY <2>3
  <2>5. Cut(f, r.hdr, b, n)
    BY <2>2, <2>4
  <2>6. Spliced(f, l, r, b, n)
    BY <2>1, <2>4, <2>5, Zenon DEF Spliced
  <2> QED BY <2>6 DEF r
<1>4. CASE ~(t - n >= 20)
  <2>1. Flagged(f, all, b, FALSE)
    <3> DEFINE s == Resized(f, b, t)
    <3>1. /\ DOMAIN s = DOMAIN f /\ Headers(s)
          /\ s[b].size = t /\ s[b].prev = f[b].prev /\ ~s[b].free /\ s[b].aligned = f[b].aligned
          /\ \A x \in DOMAIN f : x # b => s[x] = f[x]
      BY <1>1, ResizedIs
    <3> HIDE DEF s
    <3>2. Told(s, all, b)
      <4>1. Told(s, TellNext(s, b), b)
        BY <3>1, TellNextIs
      <4> QED BY <4>1 DEF s
    <3>3. NEXT(s, b) = NEXT(f, b)
      BY <3>1 DEF NEXT
    <3> HIDE DEF all
    <3>4. /\ DOMAIN all = DOMAIN f /\ Headers(all)
          /\ \A x \in DOMAIN f : all[x].size = s[x].size
          /\ \A x \in DOMAIN f : all[x].prev = IF x = NEXT(f, b) THEN t ELSE s[x].prev
      BY <3>1, <3>2, <3>3 DEF Told
    <3>5. \A x \in DOMAIN f : all[x].free = s[x].free /\ all[x].aligned = s[x].aligned
      BY <3>1, <3>2 DEF Told, SameFlags
    <3>6. \A x \in DOMAIN f : x = NEXT(f, b) => f[x].prev = t
      <4>1. NEXT(f, b) = Tail0 \/ (NEXT(f, b) \in DOMAIN f /\ f[NEXT(f, b)].prev = t)
        BY DEF Tiled
      <4> QED BY <4>1, TailIsNoBlock
    <3>7. \A x \in DOMAIN f : all[x].size = f[x].size /\ all[x].prev = f[x].prev
      BY <3>1, <3>4, <3>6
    <3>8. \A x \in DOMAIN f : all[x].aligned = f[x].aligned /\ (x # b => all[x].free = f[x].free)
      BY <3>1, <3>5
    <3>9. all[b].free = FALSE
      <4>1. all[b] \in HeaderSet
        BY <3>4 DEF Headers
      <4>2. all[b].free \in BOOLEAN /\ ~all[b].free
        BY <3>1, <3>5, <4>1 DEF HeaderSet
      <4> QED BY <4>2
    <3> QED BY <3>4, <3>7, <3>8, <3>9 DEF Flagged
  <2> HIDE DEF all, r
  <2>2. r = [hdr |-> all, list |-> l]
    BY <1>2, <1>4
  <2>3. r.hdr = all /\ r.list = l /\ r = [hdr |-> r.hdr, list |-> r.list]
    BY <2>2
  <2>4. Flagged(f, r.hdr, b, FALSE)
    BY <2>1, <2>3
  <2>5. Spliced(f, l, r, b, n)
    BY <2>3, <2>4, Zenon DEF Spliced
  <2> QED BY <2>5 DEF r
<1> QED BY <1>3, <1>4

\* The block after b is not one to merge b with.
Quiet(f, b) == NEXT(f, b) \in DOMAIN f /\ f[NEXT(f, b)].free => f[NEXT(f, b)].aligned

\* Everything that can be merged is, but perhaps for b and its neighbours.
MergedBut(f, b) ==
    \A x \in DOMAIN f :
        x # b /\ NEXT(f, x) # b /\ f[x].free /\ NEXT(f, x) \in DOMAIN f /\ f[NEXT(f, x)].free
            => f[NEXT(f, x)].aligned

\* Block b is handed out with room for n bytes; the other owners keep theirs.
Handed(f, r, b, n) ==
    /\ Good(r)
    /\ UsedOf(r.hdr) = UsedOf(f) \cup {b}
    /\ r.hdr[b].size >= n
    /\ \A x \in UsedOf(f) : x # b => r.hdr[x].size = f[x].size

LEMMA CutGood ==
    ASSUME NEW f, NEW l, NEW g, Shape(f), Merged(f), NEW b \in DOMAIN f, Quiet(f, b),
           ListOf(l, FreeOf(f) \ {b}), NEW n \in Nat, n + 20 <= f[b].size, Cut(f, g, b, n)
    PROVE  Handed(f, [hdr |-> g, list |-> <<b + n + 16>> \o l], b, n)
<1> DEFINE new == b + n + 16
<1>1. Headers(f) /\ Tiled(f) /\ Shape(g)
  BY CutShape DEF Shape
<1>2. new \notin DOMAIN f /\ new < NEXT(f, b) /\ new \in Int /\ NEXT(f, b) \in Int
  BY <1>1, NewIsNew, HeaderIs
<1>3. /\ DOMAIN g = DOMAIN f \cup {new} /\ g[b].size = n
      /\ \A x \in DOMAIN f : x # b => g[x].size = f[x].size
      /\ NEXT(g, b) = new /\ NEXT(g, new) = NEXT(f, b)
      /\ \A x \in DOMAIN f : x # b => NEXT(g, x) = NEXT(f, x)
  BY DEF Cut
<1>4. /\ ~g[b].free /\ g[new].free
      /\ \A x \in DOMAIN f : x # b => g[x].free = f[x].free
      /\ \A x \in DOMAIN f : g[x].aligned = f[x].aligned
  BY DEF Cut
<1> HIDE DEF new
<1>5. FreeOf(g) = (FreeOf(f) \ {b}) \cup {new} /\ UsedOf(g) = UsedOf(f) \cup {b}
  BY <1>2, <1>3, <1>4 DEF FreeOf, UsedOf
<1>6. ListOf(<<new>> \o l, FreeOf(g))
  <2>1. new \notin FreeOf(f) \ {b}
    BY <1>2 DEF FreeOf
  <2> QED BY <1>5, <2>1, LinkIs
<1>7. Merged(g)
  <2> SUFFICES ASSUME NEW x \in DOMAIN g, g[x].free, NEXT(g, x) \in DOMAIN g, g[NEXT(g, x)].free
               PROVE  g[NEXT(g, x)].aligned
    BY DEF Merged
  <2>1. CASE x = new
    <3>1. NEXT(f, b) \in DOMAIN f /\ NEXT(f, b) # b
      <4>1. NEXT(f, b) # new /\ b # NEXT(f, b)
        BY <1>1, <1>2, HeaderIs
      <4> QED BY <1>3, <2>1, <4>1
    <3> QED BY <1>3, <1>4, <2>1, <3>1 DEF Quiet
  <2>2. CASE x \in DOMAIN f /\ x # b
    <3>1. NEXT(g, x) = NEXT(f, x) /\ f[x].free
      BY <1>3, <1>4, <2>2
    <3>2. NEXT(f, x) # new
      <4>1. NEXT(f, x) = Tail0 \/ NEXT(f, x) \in DOMAIN f
        BY <1>1, <2>2 DEF Tiled
      <4>2. NEXT(f, b) <= Tail0
        BY <1>1 DEF Tiled
      <4> QED BY <1>2, <4>1, <4>2
    <3>3. NEXT(f, x) \in DOMAIN f /\ NEXT(f, x) # b
      BY <1>3, <1>4, <3>1, <3>2
    <3> QED BY <1>4, <2>2, <3>1, <3>3 DEF Merged
  <2> QED BY <1>3, <1>4, <2>1, <2>2
<1>8. \A x \in UsedOf(f) : x # b => g[x].size = f[x].size
  BY <1>3 DEF UsedOf
<1> DEFINE r == [hdr |-> g, list |-> <<new>> \o l]
<1>9. r.hdr = g /\ r.list = <<new>> \o l /\ r = [hdr |-> r.hdr, list |-> r.list]
  OBVIOUS
<1>10. g[b].size >= n
  BY <1>3
<1> HIDE DEF r
<1>11. Good(r)
  BY <1>1, <1>6, <1>7, <1>9 DEF Good
<1> QED BY <1>5, <1>8, <1>9, <1>10, <1>11 DEF Handed, r, new

LEMMA FlaggedGood ==
    ASSUME NEW f, NEW l, NEW g, Shape(f), Merged(f), NEW b \in DOMAIN f,
           ListOf(l, FreeOf(f) \ {b}), NEW n \in Nat, n <= f[b].size, Flagged(f, g, b, FALSE)
    PROVE  Handed(f, [hdr |-> g, list |-> l], b, n)
<1>1. Shape(g) /\ Headers(f)
  BY FlaggedShape DEF Shape
<1>2. /\ DOMAIN g = DOMAIN f /\ ~g[b].free
      /\ \A x \in DOMAIN f : g[x].size = f[x].size
      /\ \A x \in DOMAIN f : NEXT(g, x) = NEXT(f, x)
  BY FlaggedNext DEF Flagged
<1>3. \A x \in DOMAIN f : g[x].aligned = f[x].aligned /\ (x # b => g[x].free = f[x].free)
  BY DEF Flagged
<1>4. FreeOf(g) = FreeOf(f) \ {b} /\ UsedOf(g) = UsedOf(f) \cup {b}
  BY <1>2, <1>3 DEF FreeOf, UsedOf
<1>5. Merged(g)
  BY <1>2, <1>3 DEF Merged
<1>6. g[b].size >= n
  <2>1. f[b].size \in Nat
    BY <1>1, HeaderIs
  <2> QED BY <1>2, <2>1
<1>7. \A x \in UsedOf(f) : x # b => g[x].size = f[x].size
  BY <1>2 DEF UsedOf
<1> DEFINE r == [hdr |-> g, list |-> l]
<1>8. r.hdr = g /\ r.list = l /\ r = [hdr |-> r.hdr, list |-> r.list]
  OBVIOUS
<1> HIDE DEF r
<1>9. Good(r)
  BY <1>1, <1>4, <1>5, <1>8 DEF Good
<1> QED BY <1>4, <1>6, <1>7, <1>8, <1>9 DEF Handed, r

LEMMA SpliceGood ==
    ASSUME NEW f, NEW l, Shape(f), Merged(f), NEW b \in DOMAIN f, Quiet(f, b),
           ListOf(l, FreeOf(f) \ {b}), NEW n \in Nat, n <= f[b].size, NEW t, t = f[b].size
    PROVE  Handed(f, Splice([hdr |-> f, list |-> l], b, n, t), b, n)
<1> DEFINE r == Splice([hdr |-> f, list |-> l], b, n, t)
<1>1. Headers(f) /\ Tiled(f)
  BY DEF Shape
<1>0. Spliced(f, l, r, b, n)
  BY <1>1, SpliceIs
<1> HIDE DEF r
<1>2. /\ r = [hdr |-> r.hdr, list |-> r.list]
      /\ \/ n + 20 <= f[b].size /\ Cut(f, r.hdr, b, n) /\ r.list = <<b + n + 16>> \o l
         \/ Flagged(f, r.hdr, b, FALSE) /\ r.list = l
  BY <1>0, Zenon DEF Spliced
<1>3. CASE n + 20 <= f[b].size /\ Cut(f, r.hdr, b, n) /\ r.list = <<b + n + 16>> \o l
  <2>1. Handed(f, [hdr |-> r.hdr, list |-> <<b + n + 16>> \o l], b, n)
    BY <1>3, CutGood
  <2>2. r = [hdr |-> r.hdr, list |-> <<b + n + 16>> \o l]
    BY <1>2, <1>3
  <2> QED BY <2>1, <2>2, Zenon DEF r
<1>4. CASE Flagged(f, r.hdr, b, FALSE) /\ r.list = l
  <2>1. Handed(f, [hdr |-> r.hdr, list |-> l], b, n)
    BY <1>4, FlaggedGood
  <2>2. r = [hdr |-> r.hdr, list |-> l]
    BY <1>2, <1>4
  <2> QED BY <2>1, <2>2, Zenon DEF r
<1> QED BY <1>2, <1>3, <1>4

\* malloc hands out a free block.
LEMMA TakeGood ==
    ASSUME NEW h, Good(h), NEW n \in Nat, NEW i \in FirstFit(h, n)
    PROVE  h.list[i] \in FreeOf(h.hdr) /\ Handed(h.hdr, Take(h, i, n), h.list[i], n)
<1> DEFINE f == h.hdr
           l == h.list
           b == h.list[i]
<1>1. Shape(f) /\ Merged(f) /\ ListOf(l, FreeOf(f))
  BY DEF Good
<1>2. i \in DOMAIN l /\ f[b].size >= n
  BY DEF FirstFit
<1>3. b \in FreeOf(f) /\ b \in DOMAIN f /\ f[b].free
  BY <1>1, <1>2 DEF ListOf, FreeOf
<1>4. f[b].size \in Nat
  BY <1>1, <1>3, HeaderIs DEF Shape
<1>5. Quiet(f, b)
  BY <1>1, <1>3 DEF Merged, Quiet
<1>6. ListOf(Without(l, b), FreeOf(f) \ {b})
  BY <1>1, <1>3, WithoutIs
<1>7. n <= f[b].size
  BY <1>2, <1>4
<1> DEFINE l2 == Without(l, b)
           t == f[b].size
<1>8. Handed(f, Splice([hdr |-> f, list |-> l2], b, n, t), b, n)
  <2> HIDE DEF l2, b, f
  <2> QED BY <1>1, <1>3, <1>5, <1>6, <1>7, SpliceGood, SMTT(30) DEF l2
<1> QED BY <1>3, <1>8 DEF Take

\* realloc extends b into the free block after it.
LEMMA GrowGood ==
    ASSUME NEW h, Good(h), NEW b \in UsedOf(h.hdr), NEW n \in Nat,
           IsBlock(h.hdr, NEXT(h.hdr, b)), CanGrow(h.hdr, b, n),
           NEW r, r = Splice([hdr |-> Absorb(h.hdr, b, NEXT(h.hdr, b)),
                              list |-> Without(h.list, NEXT(h.hdr, b))], b, n,
                             h.hdr[b].size + h.hdr[NEXT(h.hdr, b)].size + BLOCKSIZE)
    PROVE  Handed(h.hdr, r, b, n)
<1> DEFINE f == h.hdr
           l == h.list
           x == NEXT(f, b)
           g == Absorb(f, b, x)
           t == f[b].size + f[x].size + BLOCKSIZE
<1>1. Shape(f) /\ Merged(f) /\ ListOf(l, FreeOf(f)) /\ Headers(f) /\ Tiled(f)
  BY DEF Good, Shape
<1>2. b \in DOMAIN f /\ ~f[b].free /\ x \in DOMAIN f
  BY DEF UsedOf, IsBlock
<1>3. f[x].free /\ ~f[x].aligned /\ f[b].size + f[x].size >= n
  BY <1>2 DEF CanGrow, Mergeable, IsBlock
<1>4. r = Splice([hdr |-> g, list |-> Without(l, x)], b, n, t)
  OBVIOUS
<1> HIDE DEF f, l
<1>5. Absorbed(f, g, b, x)
  BY <1>1, <1>2, AbsorbIs
<1>6. b < x /\ b \in Int /\ x \in Int /\ f[b].size \in Nat /\ f[x].size \in Nat
  BY <1>1, <1>2, HeaderIs
<1>7. x # First
  <2>1. First <= b
    BY <1>1, <1>2 DEF Tiled
  <2> QED BY <1>6, <2>1, FirstIsInt
<1>8. Shape(g)
  BY <1>1, <1>2, <1>3, <1>5, <1>7, AbsorbShape
<1> HIDE DEF g, x
<1>9. /\ DOMAIN g = DOMAIN f \ {x} /\ b \in DOMAIN g
      /\ g[b].size = f[b].size + f[x].size + 16
      /\ \A y \in DOMAIN g : y # b => g[y].size = f[y].size
      /\ NEXT(g, b) = NEXT(f, x)
      /\ \A y \in DOMAIN g : y # b => NEXT(g, y) = NEXT(f, y)
  BY <1>2, <1>5, <1>6 DEF Absorbed
<1>10. \A y \in DOMAIN g : g[y].free = f[y].free /\ g[y].aligned = f[y].aligned
  BY <1>5 DEF Absorbed, SameFlags
<1>11. Quiet(g, b)
  BY <1>1, <1>2, <1>3, <1>9, <1>10 DEF Merged, Quiet
<1>12. Merged(g)
  BY <1>1, <1>2, <1>9, <1>10 DEF Merged
<1>13. FreeOf(g) \ {b} = FreeOf(f) \ {x} /\ UsedOf(g) = UsedOf(f)
  BY <1>2, <1>3, <1>9, <1>10 DEF FreeOf, UsedOf
<1>14. ListOf(Without(l, x), FreeOf(g) \ {b})
  <2>1. x \in FreeOf(f)
    BY <1>2, <1>3 DEF FreeOf
  <2> QED BY <1>1, <1>13, <2>1, WithoutIs
<1>15. t = g[b].size /\ n <= g[b].size
  BY <1>3, <1>6, <1>9 DEF BLOCKSIZE
<1> HIDE DEF t
<1> DEFINE l2 == Without(l, x)
<1>16. Handed(g, r, b, n)
  <2>1. ListOf(l2, FreeOf(g) \ {b}) /\ b \in DOMAIN g
    BY <1>9, <1>14
  <2> HIDE DEF l2
  <2>2. Handed(g, Splice([hdr |-> g, list |-> l2], b, n, t), b, n)
    BY <1>8, <1>11, <1>12, <1>15, <2>1, SpliceGood, SMTT(30)
  <2> QED BY <1>4, <2>2 DEF l2
<1>17. \A y \in UsedOf(f) : y # b => r.hdr[y].size = f[y].size
  BY <1>9, <1>13, <1>16 DEF Handed, UsedOf
<1> QED BY <1>13, <1>16, <1>17 DEF Handed, f

\* Block b is marked free, not yet on the list and not yet merged.
Loose(f, l, b) ==
    /\ Shape(f)
    /\ b \in FreeOf(f)
    /\ ListOf(l, FreeOf(f) \ {b})
    /\ MergedBut(f, b)

\* The owners of f are those of g and have as much room.
SameOwners(f, g) == UsedOf(g) = UsedOf(f) /\ \A x \in UsedOf(f) : g[x].size = f[x].size

\* A block that a merge takes away is not one that is in use.
LEMMA AbsorbOwners ==
    ASSUME NEW f, NEW g, Headers(f), NEW b \in DOMAIN f, NEW n \in DOMAIN f, n = NEXT(f, b),
           f[b].free, f[n].free, Absorbed(f, g, b, n)
    PROVE  /\ SameOwners(f, g) /\ FreeOf(g) = FreeOf(f) \ {n} /\ b \in FreeOf(g)
<1>1. b # n
  BY HeaderIs
<1>2. /\ DOMAIN g = DOMAIN f \ {n}
      /\ \A x \in DOMAIN g : x # b => g[x].size = f[x].size
  BY DEF Absorbed
<1>3. \A x \in DOMAIN g : g[x].free = f[x].free
  BY DEF Absorbed, SameFlags
<1> QED BY <1>1, <1>2, <1>3 DEF SameOwners, UsedOf, FreeOf

LEMMA MergeNextIs ==
    ASSUME NEW f, NEW l, NEW b, Loose(f, l, b), NEW r, r = MergeNext([hdr |-> f, list |-> l], b)
    PROVE  /\ r = [hdr |-> r.hdr, list |-> r.list]
           /\ Loose(r.hdr, r.list, b)
           /\ Quiet(r.hdr, b)
           /\ SameOwners(f, r.hdr)
<1> DEFINE n == NEXT(f, b)
           g == Absorb(f, b, n)
<1>1. /\ Shape(f) /\ Headers(f) /\ Tiled(f) /\ b \in DOMAIN f /\ f[b].free
      /\ ListOf(l, FreeOf(f) \ {b}) /\ MergedBut(f, b)
  BY DEF Loose, Shape, FreeOf
<1>2. r = IF n \in DOMAIN f /\ f[n].free /\ ~f[n].aligned
          THEN [hdr |-> g, list |-> Without(l, n)] ELSE [hdr |-> f, list |-> l]
  BY DEF MergeNext, IsBlock, Mergeable
<1> HIDE DEF n, g
<1>3. CASE n \in DOMAIN f /\ f[n].free /\ ~f[n].aligned
  <2>1. r.hdr = g /\ r.list = Without(l, n) /\ r = [hdr |-> r.hdr, list |-> r.list]
    BY <1>2, <1>3
  <2>2. Absorbed(f, g, b, n)
    BY <1>1, <1>3, AbsorbIs DEF n, g
  <2>3. b < n /\ b \in Int /\ n \in Int /\ n < NEXT(f, n) /\ NEXT(f, n) \in Int
    <3>1. b < n /\ b \in Int /\ n \in Int
      BY <1>1, HeaderIs DEF n
    <3>2. n < NEXT(f, n) /\ NEXT(f, n) \in Int
      BY <1>1, <1>3, HeaderIs
    <3> QED BY <3>1, <3>2
  <2>4. n # First
    <3>1. First <= b
      BY <1>1 DEF Tiled
    <3> QED BY <2>3, <3>1, FirstIsInt
  <2>5. Shape(g)
    BY <1>1, <1>3, <2>2, <2>4, AbsorbShape DEF n
  <2>6. SameOwners(f, g) /\ FreeOf(g) = FreeOf(f) \ {n} /\ b \in FreeOf(g)
    BY <1>1, <1>3, <2>2, AbsorbOwners DEF n
  <2>7. ListOf(Without(l, n), FreeOf(g) \ {b})
    <3>1. n \in FreeOf(f) \ {b} /\ (FreeOf(f) \ {b}) \ {n} = FreeOf(g) \ {b}
      BY <1>3, <2>3, <2>6 DEF FreeOf
    <3>2. ListOf(Without(l, n), (FreeOf(f) \ {b}) \ {n})
      BY <1>1, <3>1, WithoutIs
    <3> QED BY <3>1, <3>2
  <2>8. /\ DOMAIN g = DOMAIN f \ {n} /\ NEXT(g, b) = NEXT(f, n)
        /\ \A x \in DOMAIN g : x # b => NEXT(g, x) = NEXT(f, x)
    BY <2>2 DEF Absorbed
  <2>9. \A x \in DOMAIN g : g[x].free = f[x].free /\ g[x].aligned = f[x].aligned
    BY <2>2 DEF Absorbed, SameFlags
  <2>10. MergedBut(g, b)
    BY <1>1, <2>8, <2>9 DEF MergedBut
  <2>11. Quiet(g, b)
    <3>1. n # b /\ NEXT(f, n) # b
      BY <2>3
    <3> QED BY <1>1, <1>3, <2>8, <2>9, <3>1 DEF Quiet, MergedBut
  <2>12. Loose(g, Without(l, n), b)
    BY <2>5, <2>6, <2>7, <2>10 DEF Loose
  <2> QED BY <2>1, <2>6, <2>11, <2>12
<1>4. CASE ~(n \in DOMAIN f /\ f[n].free /\ ~f[n].aligned)
  <2>1. r.hdr = f /\ r.list = l /\ r = [hdr |-> r.hdr, list |-> r.list]
    BY <1>2, <1>4
  <2>2. Quiet(f, b)
    BY <1>4 DEF Quiet, n
  <2>3. SameOwners(f, f)
    BY DEF SameOwners
  <2> QED BY <2>1, <2>2, <2>3
<1> QED BY <1>3, <1>4

LEMMA MergePrevIs ==
    ASSUME NEW f, NEW l, NEW b, Loose(f, l, b), Quiet(f, b),
           NEW r, r = MergePrev([hdr |-> f, list |-> l], b)
    PROVE  Good(r) /\ SameOwners(f, r.hdr)
<1> DEFINE p == PREV(f, b)
           g == Absorb(f, p, b)
<1>1. /\ Shape(f) /\ Headers(f) /\ Tiled(f) /\ b \in DOMAIN f /\ f[b].free
      /\ ListOf(l, FreeOf(f) \ {b}) /\ MergedBut(f, b)
  BY DEF Loose, Shape, FreeOf
<1>2. b \in Int /\ First \in Int /\ First <= b
  BY <1>1, HeaderIs, FirstIsInt DEF Tiled
<1>3. HASPREV(b) <=> b # First
  <2>1. HeapStart = First + 4 /\ HeapStart \in Int
    <3>1. HeapStart \in Int
      BY SizesAre, AlignedIs DEF HeapStart
    <3> QED BY <3>1 DEF First, FieldOffset
  <2> QED BY <1>2, <2>1 DEF HASPREV, FieldOffset
<1>4. ASSUME b # First PROVE p \in DOMAIN f /\ NEXT(f, p) = b
  <2>1. p \in DOMAIN f /\ f[p].size = f[b].prev
    BY <1>1, <1>4 DEF Tiled
  <2>2. p = b - f[b].prev - 16 /\ f[b].prev \in Nat
    BY <1>1, HeaderIs
  <2> HIDE DEF p
  <2>3. NEXT(f, p) = p + f[p].size + 16 /\ p \in Int
    BY <1>1, <2>1, HeaderIs
  <2> QED BY <1>2, <2>1, <2>2, <2>3
<1>5. r = IF b # First /\ ~f[b].aligned /\ f[p].free
          THEN [hdr |-> g, list |-> <<p>> \o Without(l, p)] ELSE [hdr |-> f, list |-> <<b>> \o l]
  BY <1>3 DEF MergePrev
<1> HIDE DEF p, g
<1>6. CASE b # First /\ ~f[b].aligned /\ f[p].free
  <2>1. r.hdr = g /\ r.list = <<p>> \o Without(l, p) /\ r = [hdr |-> r.hdr, list |-> r.list]
    BY <1>5, <1>6
  <2>2. p \in DOMAIN f /\ NEXT(f, p) = b
    BY <1>4, <1>6
  <2>3. Absorbed(f, g, p, b)
    BY <1>1, <2>2, AbsorbIs DEF g
  <2>4. Shape(g)
    BY <1>1, <1>6, <2>2, <2>3, AbsorbShape
  <2>5. SameOwners(f, g) /\ FreeOf(g) = FreeOf(f) \ {b} /\ p \in FreeOf(g)
    BY <1>1, <1>6, <2>2, <2>3, AbsorbOwners
  <2>6. ListOf(<<p>> \o Without(l, p), FreeOf(g))
    <3>1. ListOf(Without(l, p), FreeOf(g) \ {p})
      BY <1>1, <2>5, WithoutIs
    <3>2. (FreeOf(g) \ {p}) \cup {p} = FreeOf(g) /\ p \notin FreeOf(g) \ {p}
      BY <2>5
    <3>3. ListOf(<<p>> \o Without(l, p), (FreeOf(g) \ {p}) \cup {p})
      BY <3>1, <3>2, LinkIs
    <3> QED BY <3>2, <3>3
  <2>7. /\ DOMAIN g = DOMAIN f \ {b} /\ NEXT(g, p) = NEXT(f, b)
        /\ \A x \in DOMAIN g : x # p => NEXT(g, x) = NEXT(f, x)
    BY <2>3 DEF Absorbed
  <2>8. \A x \in DOMAIN g : g[x].free = f[x].free /\ g[x].aligned = f[x].aligned
    BY <2>3 DEF Absorbed, SameFlags
  <2>9. Merged(g)
    <3> SUFFICES ASSUME NEW x \in DOMAIN g, g[x].free, NEXT(g, x) \in DOMAIN g, g[NEXT(g, x)].free
                 PROVE  g[NEXT(g, x)].aligned
      BY DEF Merged
    <3>1. CASE x = p
      BY <2>7, <2>8, <3>1 DEF Quiet
    <3>2. CASE x # p
      <4>1. NEXT(f, x) # b /\ x # b /\ x \in DOMAIN f
        BY <1>1, <2>2, <2>7, <3>2, OneBefore
      <4> QED BY <1>1, <2>7, <2>8, <3>2, <4>1 DEF MergedBut
    <3> QED BY <3>1, <3>2
  <2> QED BY <2>1, <2>4, <2>5, <2>6, <2>9 DEF Good
<1>7. CASE ~(b # First /\ ~f[b].aligned /\ f[p].free)
  <2>1. r.hdr = f /\ r.list = <<b>> \o l /\ r = [hdr |-> r.hdr, list |-> r.list]
    BY <1>5, <1>7
  <2>2. ListOf(<<b>> \o l, FreeOf(f))
    <3>1. (FreeOf(f) \ {b}) \cup {b} = FreeOf(f) /\ b \notin FreeOf(f) \ {b}
      BY DEF Loose
    <3>2. ListOf(<<b>> \o l, (FreeOf(f) \ {b}) \cup {b})
      BY <1>1, <3>1, LinkIs
    <3> QED BY <3>1, <3>2
  <2>3. Merged(f)
    <3> SUFFICES ASSUME NEW x \in DOMAIN f, f[x].free, NEXT(f, x) \in DOMAIN f, f[NEXT(f, x)].free
                 PROVE  f[NEXT(f, x)].aligned
      BY DEF Merged
    <3>1. CASE x = b
      BY <3>1 DEF Quiet
    <3>2. CASE NEXT(f, x) = b
      <4>1. b # First
        <5>1. x < b /\ x \in Int /\ First <= x
          BY <1>1, <3>2, HeaderIs DEF Tiled
        <5> QED BY <1>2, <5>1
      <4>2. p = x
        BY <1>1, <1>4, <3>2, <4>1, OneBefore
      <4> QED BY <1>7, <3>2, <4>1, <4>2
    <3>3. CASE x # b /\ NEXT(f, x) # b
      BY <1>1, <3>3 DEF MergedBut
    <3> QED BY <3>1, <3>2, <3>3
  <2>4. SameOwners(f, f)
    BY DEF SameOwners
  <2> QED BY <1>1, <2>1, <2>2, <2>3, <2>4 DEF Good
<1> QED BY <1>6, <1>7

\* Block b is free again; the other owners keep theirs.
Freed(f, r, b) ==
    /\ Good(r)
    /\ UsedOf(r.hdr) = UsedOf(f) \ {b}
    /\ \A x \in UsedOf(f) : x # b => r.hdr[x].size = f[x].size

LEMMA ReleaseGood ==
    ASSUME NEW h, Good(h), NEW b \in UsedOf(h.hdr), NEW r, r = Release(h, b)
    PROVE  Freed(h.hdr, r, b)
<1> DEFINE f == h.hdr
           l == h.list
           e == [f[b] EXCEPT !.free = TRUE]
           g == [f EXCEPT ![b] = e]
           m == MergeNext([hdr |-> g, list |-> l], b)
<1>1. Shape(f) /\ Merged(f) /\ ListOf(l, FreeOf(f)) /\ Headers(f) /\ Tiled(f)
  BY DEF Good, Shape
<1>2. b \in DOMAIN f /\ ~f[b].free
  BY DEF UsedOf
<1>3. r = MergePrev(m, b)
  BY DEF Release
<1> HIDE DEF f, l, m
<1>4. /\ e \in HeaderSet /\ e.size = f[b].size /\ e.prev = f[b].prev /\ e.free = TRUE
      /\ e.aligned = f[b].aligned
  <2>1. f[b] \in HeaderSet
    BY <1>1, <1>2, HeaderIs
  <2> QED BY <2>1 DEF HeaderSet
<1> HIDE DEF e
<1>5. /\ DOMAIN g = DOMAIN f /\ g[b] = e /\ g = [x \in DOMAIN f |-> g[x]]
      /\ \A x \in DOMAIN f : x # b => g[x] = f[x]
  BY <1>2
<1> HIDE DEF g
<1>6. Headers(g)
  BY <1>1, <1>4, <1>5 DEF Headers
<1>7. Flagged(f, g, b, TRUE)
  BY <1>4, <1>5, <1>6 DEF Flagged
<1>8. Shape(g)
  BY <1>1, <1>7, FlaggedShape
<1>9. \A x \in DOMAIN f : NEXT(g, x) = NEXT(f, x)
  BY <1>7, FlaggedNext
<1>10. FreeOf(g) \ {b} = FreeOf(f) /\ b \in FreeOf(g) /\ UsedOf(g) = UsedOf(f) \ {b}
  BY <1>2, <1>4, <1>5 DEF FreeOf, UsedOf
<1>11. MergedBut(g, b)
  <2>1. \A x \in DOMAIN f : x # b => g[x].free = f[x].free /\ g[x].aligned = f[x].aligned
    BY <1>5
  <2> QED BY <1>1, <1>5, <1>9, <2>1 DEF MergedBut, Merged
<1>12. Loose(g, l, b)
  BY <1>1, <1>8, <1>10, <1>11 DEF Loose
<1>13. /\ m = [hdr |-> m.hdr, list |-> m.list]
       /\ Loose(m.hdr, m.list, b) /\ Quiet(m.hdr, b) /\ SameOwners(g, m.hdr)
  BY <1>12, MergeNextIs DEF m
<1>14. r = MergePrev([hdr |-> m.hdr, list |-> m.list], b)
  BY <1>3, <1>13
<1>15. Good(r) /\ SameOwners(m.hdr, r.hdr)
  BY <1>13, <1>14, MergePrevIs
<1>16. UsedOf(r.hdr) = UsedOf(f) \ {b}
  BY <1>10, <1>13, <1>15 DEF SameOwners
<1>17. ASSUME NEW x \in UsedOf(f), x # b PROVE r.hdr[x].size = f[x].size
  <2>1. x \in UsedOf(g) /\ g[x].size = f[x].size
    BY <1>5, <1>10, <1>17 DEF UsedOf
  <2> QED BY <1>13, <1>15, <2>1 DEF SameOwners
<1> QED BY <1>15, <1>16, <1>17 DEF Freed, f

\* The three outcomes of free: the list is empty and nothing happens, the memory
\* behind the heap is taken for a free block, or b is released.
FreeOutcome(h, r, b) ==
    \/ r.heap = h /\ r.lost = {b} /\ r.wild = FALSE
    \/ r.heap = h /\ r.lost = {} /\ r.wild = TRUE /\ TailFree
    \/ Freed(h.hdr, r.heap, b) /\ r.lost = {} /\ r.wild = FALSE

LEMMA FreeBlockIs ==
    ASSUME NEW h, Good(h), NEW b \in UsedOf(h.hdr)
    PROVE  FreeOutcome(h, FreeBlock(h, b), b)
<1> DEFINE r == FreeBlock(h, b)
<1>1. r = [heap |-> IF h.list = << >> \/ ReleaseIsWild(h, b) THEN h ELSE Release(h, b),
           lost |-> IF h.list = << >> THEN {b} ELSE {},
           wild |-> h.list # << >> /\ ReleaseIsWild(h, b)]
  BY DEF FreeBlock
<1> HIDE DEF r
<1>2. /\ r.heap = IF h.list = << >> \/ ReleaseIsWild(h, b) THEN h ELSE Release(h, b)
      /\ r.lost = IF h.list = << >> THEN {b} ELSE {}
      /\ r.wild = (h.list # << >> /\ ReleaseIsWild(h, b))
  BY <1>1
<1>3. ReleaseIsWild(h, b) => TailFree
  BY DEF ReleaseIsWild, Mergeable
<1>4. Freed(h.hdr, Release(h, b), b)
  BY ReleaseGood
<1> QED BY <1>2, <1>3, <1>4, Zenon DEF FreeOutcome, r

----------------------------------------------------------------------------
(* The steps *)

LEMMA ALIGNIs ==
    ASSUME NEW n \in Requests
    PROVE  n \in Nat /\ ALIGN(n) \in Nat /\ n <= ALIGN(n)
<1>1. n \in Nat
  BY ParamAssumption
<1>2. n + 4 - 1 = n + 3 /\ n + 3 \in Nat
  BY <1>1
<1> DEFINE q == (n + 3) \div 4
<1>3. ALIGN(n) = 4 * q
  BY <1>2 DEF ALIGN, RoundTo
<1>4. q \in Nat /\ n + 3 < 4 * q + 4
  BY <1>1
<1> HIDE DEF q
<1> QED BY <1>1, <1>3, <1>4

LEMMA DropIs ==
    ASSUME NEW f, NEW b
    PROVE  /\ DOMAIN Restrict(f, DOMAIN f \ {b}) = DOMAIN f \ {b}
           /\ \A x \in DOMAIN f \ {b} : Restrict(f, DOMAIN f \ {b})[x] = f[x]
BY DEF Restrict

LEMMA OwnersTake ==
    ASSUME NEW f, NEW a, NEW d, Owners(f, a, d, FALSE), NEW r, NEW c \in FreeOf(f),
           NEW n \in Requests, Handed(f, r, c, ALIGN(n))
    PROVE  Owners(r.hdr, Put(a, c, n), d, FALSE)
<1>1. n \in Nat /\ ALIGN(n) \in Nat /\ n <= ALIGN(n)
  BY ALIGNIs
<1>2. /\ Good(r) /\ UsedOf(r.hdr) = UsedOf(f) \cup {c} /\ r.hdr[c].size >= ALIGN(n)
      /\ \A x \in UsedOf(f) : x # c => r.hdr[x].size = f[x].size
  BY DEF Handed
<1>3. r.hdr[c].size \in Nat
  <2>1. Headers(r.hdr) /\ c \in DOMAIN r.hdr
    BY <1>2 DEF Good, Shape, UsedOf
  <2> QED BY <2>1, HeaderIs
<1>4. n <= r.hdr[c].size
  BY <1>1, <1>2, <1>3
<1>5. c \notin UsedOf(f)
  BY DEF FreeOf, UsedOf
<1> DEFINE z == Put(a, c, n)
<1>6. DOMAIN z = DOMAIN a \cup {c} /\ z[c] = n /\ \A x \in DOMAIN a : x # c => z[x] = a[x]
  BY DEF Put
<1> HIDE DEF z
<1>7. ASSUME NEW x \in DOMAIN z PROVE z[x] \in Requests /\ z[x] <= r.hdr[x].size
  <2>1. CASE x = c
    BY <1>4, <1>6, <2>1
  <2>2. CASE x # c
    BY <1>2, <1>6, <2>2 DEF Owners
  <2> QED BY <2>1, <2>2
<1> QED BY <1>2, <1>5, <1>6, <1>7 DEF Owners, z

LEMMA OwnersGrow ==
    ASSUME NEW f, NEW a, NEW d, Owners(f, a, d, FALSE), NEW r, NEW c \in DOMAIN a,
           NEW n \in Requests, Handed(f, r, c, ALIGN(n))
    PROVE  Owners(r.hdr, [a EXCEPT ![c] = n], d, FALSE)
<1>1. n \in Nat /\ ALIGN(n) \in Nat /\ n <= ALIGN(n)
  BY ALIGNIs
<1>2. /\ Good(r) /\ UsedOf(r.hdr) = UsedOf(f) \cup {c} /\ r.hdr[c].size >= ALIGN(n)
      /\ \A x \in UsedOf(f) : x # c => r.hdr[x].size = f[x].size
  BY DEF Handed
<1>3. r.hdr[c].size \in Nat
  <2>1. Headers(r.hdr) /\ c \in DOMAIN r.hdr
    BY <1>2 DEF Good, Shape, UsedOf
  <2> QED BY <2>1, HeaderIs
<1>4. n <= r.hdr[c].size
  BY <1>1, <1>2, <1>3
<1>5. UsedOf(r.hdr) = UsedOf(f)
  BY <1>2 DEF Owners
<1> DEFINE z == [a EXCEPT ![c] = n]
<1>6. DOMAIN z = DOMAIN a /\ z[c] = n /\ \A x \in DOMAIN a : x # c => z[x] = a[x]
  OBVIOUS
<1> HIDE DEF z
<1>7. ASSUME NEW x \in DOMAIN z PROVE z[x] \in Requests /\ z[x] <= r.hdr[x].size
  <2>1. CASE x = c
    BY <1>4, <1>6, <2>1
  <2>2. CASE x # c
    BY <1>2, <1>6, <2>2 DEF Owners
  <2> QED BY <2>1, <2>2
<1> QED BY <1>5, <1>6, <1>7 DEF Owners, z

\* The owner of b gives it up; free may then ignore it, go astray or release it.
LEMMA OwnersFree ==
    ASSUME NEW h, NEW a, NEW d, Good(h), Owners(h.hdr, a, d, FALSE), NEW b \in DOMAIN a, NEW r,
           FreeOutcome(h, r, b)
    PROVE  Good(r.heap) /\ Owners(r.heap.hdr, Restrict(a, DOMAIN a \ {b}), d \cup r.lost, r.wild)
<1> DEFINE z == Restrict(a, DOMAIN a \ {b})
<1>1. DOMAIN z = DOMAIN a \ {b} /\ \A x \in DOMAIN a \ {b} : z[x] = a[x]
  BY DropIs
<1> HIDE DEF z
<1>2. CASE r.heap = h /\ r.lost = {b} /\ r.wild = FALSE
  <2>1. Owners(h.hdr, z, d \cup {b}, FALSE)
    BY <1>1 DEF Owners
  <2> QED BY <1>2, <2>1 DEF z
<1>3. CASE r.heap = h /\ r.lost = {} /\ r.wild = TRUE /\ TailFree
  <2>1. Owners(h.hdr, z, d \cup {}, TRUE)
    BY <1>1, <1>3 DEF Owners
  <2> QED BY <1>3, <2>1 DEF z
<1>4. CASE Freed(h.hdr, r.heap, b) /\ r.lost = {} /\ r.wild = FALSE
  <2>1. /\ Good(r.heap) /\ UsedOf(r.heap.hdr) = UsedOf(h.hdr) \ {b}
        /\ \A x \in UsedOf(h.hdr) : x # b => r.heap.hdr[x].size = h.hdr[x].size
    BY <1>4 DEF Freed
  <2>2. Owners(r.heap.hdr, z, d \cup {}, FALSE)
    BY <1>1, <2>1 DEF Owners
  <2> QED BY <1>4, <2>1, <2>2 DEF z
<1> QED BY <1>2, <1>3, <1>4 DEF FreeOutcome

LEMMA InitStep ==
    Init => IInv
<1> SUFFICES ASSUME Init PROVE IInv
  OBVIOUS
<1>1. heap = [hdr |-> InitialBlocks, list |-> InitialList] /\ live = << >> /\ lost = {} /\ wild = FALSE
  BY DEF Init, HeapInit
<1>2. heap.hdr = InitialBlocks /\ heap.list = InitialList /\ heap = [hdr |-> heap.hdr, list |-> heap.list]
  BY <1>1
<1>3. Shape(InitialBlocks) /\ Merged(InitialBlocks)
  BY InitialShape
<1>4. FreeOf(InitialBlocks) = InitialSet /\ UsedOf(InitialBlocks) = {}
  BY AllFreeAtFirst
<1>5. ListOf(InitialList, FreeOf(InitialBlocks))
  BY <1>4, InitialListIs
<1>6. Good(heap)
  BY <1>2, <1>3, <1>5 DEF Good
<1>7. DOMAIN live = {}
  BY <1>1
<1>8. Owners(heap.hdr, live, lost, wild)
  BY <1>1, <1>2, <1>4, <1>7 DEF Owners
<1> QED BY <1>6, <1>8 DEF IInv

LEMMA mallocStep ==
    ASSUME IInv, ~wild, NEW n \in Requests, malloc(n)
    PROVE  IInv'
<1>1. PICK i \in FirstFit(heap, ALIGN(n)) :
          heap' = Take(heap, i, ALIGN(n)) /\ live' = Put(live, heap.list[i], n)
  BY DEF malloc
<1>2. lost' = lost /\ wild' = FALSE /\ wild = FALSE
  BY DEF malloc, IInv, Owners
<1>3. Good(heap) /\ Owners(heap.hdr, live, lost, FALSE)
  BY <1>2 DEF IInv
<1>4. ALIGN(n) \in Nat
  BY ALIGNIs
<1>5. heap.list[i] \in FreeOf(heap.hdr) /\ Handed(heap.hdr, heap', heap.list[i], ALIGN(n))
  BY <1>1, <1>3, <1>4, TakeGood
<1>6. Owners(heap'.hdr, Put(live, heap.list[i], n), lost, FALSE)
  BY <1>3, <1>5, OwnersTake
<1>7. Good(heap')
  BY <1>5 DEF Handed
<1> QED BY <1>1, <1>2, <1>6, <1>7 DEF IInv

LEMMA freeStep ==
    ASSUME IInv, ~wild, NEW b \in DOMAIN live, free(b)
    PROVE  IInv'
<1> DEFINE r == FreeBlock(heap, b)
<1>1. /\ heap' = r.heap /\ lost' = lost \cup r.lost /\ wild' = r.wild
      /\ live' = Restrict(live, DOMAIN live \ {b})
  BY DEF free
<1>2. Good(heap) /\ Owners(heap.hdr, live, lost, FALSE) /\ b \in UsedOf(heap.hdr)
  BY DEF IInv, Owners
<1>3. FreeOutcome(heap, r, b)
  BY <1>2, FreeBlockIs
<1> HIDE DEF r
<1>4. /\ Good(r.heap)
      /\ Owners(r.heap.hdr, Restrict(live, DOMAIN live \ {b}), lost \cup r.lost, r.wild)
  BY <1>2, <1>3, OwnersFree
<1> QED BY <1>1, <1>4 DEF IInv

LEMMA reallocFitsStep ==
    ASSUME IInv, ~wild, NEW b \in DOMAIN live, NEW n \in Requests, reallocFits(b, n)
    PROVE  IInv'
<1>1. n <= heap.hdr[b].size /\ heap' = heap /\ lost' = lost /\ wild' = wild
  BY DEF reallocFits
<1>2. /\ DOMAIN live' = DOMAIN live /\ live'[b] = n
      /\ \A x \in DOMAIN live : x # b => live'[x] = live[x]
  BY DEF reallocFits
<1>3. Good(heap) /\ Owners(heap.hdr, live, lost, wild)
  BY DEF IInv
<1>4. \A x \in DOMAIN live' : live'[x] \in Requests /\ live'[x] <= heap.hdr[x].size
  BY <1>1, <1>2, <1>3 DEF Owners
<1>5. Owners(heap.hdr, live', lost, wild)
  BY <1>2, <1>3, <1>4 DEF Owners
<1> QED BY <1>1, <1>3, <1>5 DEF IInv

LEMMA reallocGrowsStep ==
    ASSUME IInv, ~wild, NEW b \in DOMAIN live, NEW n \in Requests, reallocGrows(b, n)
    PROVE  IInv'
<1> DEFINE next == NEXT(heap.hdr, b)
<1>1. /\ Good(heap) /\ Owners(heap.hdr, live, lost, FALSE) /\ b \in UsedOf(heap.hdr)
      /\ wild = FALSE
  BY DEF IInv, Owners
<1>2. CanGrow(heap.hdr, b, ALIGN(n))
  BY DEF reallocGrows
<1>3. CASE IsBlock(heap.hdr, next)
  <2>1. /\ heap' = Splice([hdr  |-> Absorb(heap.hdr, b, next),
                           list |-> Without(heap.list, next)],
                          b, ALIGN(n),
                          heap.hdr[b].size + heap.hdr[next].size + BLOCKSIZE)
        /\ live' = [live EXCEPT ![b] = n] /\ lost' = lost /\ wild' = wild
    BY <1>3 DEF reallocGrows
  <2>2. ALIGN(n) \in Nat
    BY ALIGNIs
  <2>3. Handed(heap.hdr, heap', b, ALIGN(n))
    BY <1>1, <1>2, <1>3, <2>1, <2>2, GrowGood
  <2>4. Owners(heap'.hdr, [live EXCEPT ![b] = n], lost, FALSE)
    BY <1>1, <2>3, OwnersGrow
  <2>5. Good(heap')
    BY <2>3 DEF Handed
  <2> QED BY <1>1, <2>1, <2>4, <2>5 DEF IInv
<1>4. CASE ~IsBlock(heap.hdr, next)
  <2>1. wild' = TRUE /\ heap' = heap /\ live' = live /\ lost' = lost
    BY <1>4 DEF reallocGrows
  <2>2. TailFree
    BY <1>2, <1>4 DEF CanGrow, Mergeable
  <2>3. Owners(heap.hdr, live, lost, TRUE)
    BY <1>1, <2>2 DEF Owners
  <2> QED BY <1>1, <2>1, <2>3 DEF IInv
<1> QED BY <1>3, <1>4

LEMMA reallocMovesStep ==
    ASSUME IInv, ~wild, NEW b \in DOMAIN live, NEW n \in Requests, reallocMoves(b, n)
    PROVE  IInv'
<1>1. PICK i \in FirstFit(heap, ALIGN(n)) :
          LET f == FreeBlock(Take(heap, i, ALIGN(n)), b) IN
          /\ heap' = f.heap
          /\ lost' = lost \cup f.lost
          /\ wild' = f.wild
          /\ live' = Put(Restrict(live, DOMAIN live \ {b}), heap.list[i], n)
  BY DEF reallocMoves
<1> DEFINE t == Take(heap, i, ALIGN(n))
           c == heap.list[i]
           r == FreeBlock(t, b)
           moved == Put(live, c, n)
<1>2. /\ Good(heap) /\ Owners(heap.hdr, live, lost, FALSE) /\ b \in UsedOf(heap.hdr)
      /\ wild = FALSE
  BY DEF IInv, Owners
<1>3. ALIGN(n) \in Nat
  BY ALIGNIs
<1>4. c \in FreeOf(heap.hdr) /\ Handed(heap.hdr, t, c, ALIGN(n))
  BY <1>2, <1>3, TakeGood
<1> HIDE DEF t
<1>5. Good(t) /\ b \in UsedOf(t.hdr) /\ b # c
  <2>1. Good(t) /\ UsedOf(t.hdr) = UsedOf(heap.hdr) \cup {c}
    BY <1>4 DEF Handed
  <2> QED BY <1>2, <1>4, <2>1 DEF UsedOf, FreeOf
<1>6. Owners(t.hdr, moved, lost, FALSE)
  BY <1>2, <1>4, OwnersTake
<1>7. FreeOutcome(t, r, b)
  BY <1>5, FreeBlockIs
<1>8. /\ heap' = r.heap /\ lost' = lost \cup r.lost /\ wild' = r.wild
      /\ live' = Put(Restrict(live, DOMAIN live \ {b}), c, n)
  BY <1>1, Zenon DEF t
<1> HIDE DEF c, r
<1>9. Restrict(moved, DOMAIN moved \ {b}) = Put(Restrict(live, DOMAIN live \ {b}), c, n)
  BY <1>5 DEF Restrict, Put
<1>10. b \in DOMAIN moved
  BY DEF Put
<1> HIDE DEF moved
<1>11. /\ Good(r.heap)
       /\ Owners(r.heap.hdr, Restrict(moved, DOMAIN moved \ {b}), lost \cup r.lost, r.wild)
  BY <1>5, <1>6, <1>7, <1>10, OwnersFree
<1> QED BY <1>8, <1>9, <1>11 DEF IInv

LEMMA NextStep ==
    IInv /\ [Next]_vars => IInv'
<1> SUFFICES ASSUME IInv, [Next]_vars PROVE IInv'
  OBVIOUS
<1>1. CASE UNCHANGED vars
  BY <1>1 DEF vars, IInv
<1>2. CASE Next
  <2>1. ~wild
    BY <1>2 DEF Next
  <2>2. ASSUME NEW n \in Requests, malloc(n) PROVE IInv'
    BY <2>1, <2>2, mallocStep
  <2>3. ASSUME NEW b \in DOMAIN live, free(b) PROVE IInv'
    BY <2>1, <2>3, freeStep
  <2>4. ASSUME NEW b \in DOMAIN live, NEW n \in Requests, realloc(b, n) PROVE IInv'
    <3>1. reallocFits(b, n) \/ reallocGrows(b, n) \/ reallocMoves(b, n)
      BY <2>4 DEF realloc
    <3> QED BY <2>1, <3>1, reallocFitsStep, reallocGrowsStep, reallocMovesStep
  <2> QED BY <1>2, <2>2, <2>3, <2>4 DEF Next
<1> QED BY <1>1, <1>2

----------------------------------------------------------------------------
(* The theorems *)

LEMMA IInvHolds == Spec => []IInv
BY InitStep, NextStep, PTL DEF Spec

\* Whatever is allocated, freed and reallocated, headers hold sizes and flags, the
\* list names blocks, and owners own blocks of the heap (stdlib.c, 138-288).
THEOREM TypeOKHolds == Spec => []TypeOK
<1>1. IInv => TypeOK
  <2> SUFFICES ASSUME IInv PROVE TypeOK
    OBVIOUS
  <2>1. Good(heap) /\ Owners(heap.hdr, live, lost, wild)
    BY DEF IInv
  <2>2. heap.hdr \in [DOMAIN heap.hdr -> HeaderSet]
    BY <2>1 DEF Good, Shape, Headers
  <2>3. heap.list \in Seq(DOMAIN heap.hdr)
    <3>1. heap.list \in Seq(FreeOf(heap.hdr)) /\ FreeOf(heap.hdr) \subseteq DOMAIN heap.hdr
      BY <2>1 DEF Good, ListOf, FreeOf
    <3> QED BY <3>1
  <2>4. DOMAIN live \subseteq DOMAIN heap.hdr /\ wild \in BOOLEAN
    BY <2>1 DEF Owners, UsedOf
  <2>5. \A b \in DOMAIN live : live[b] \in Requests
    BY <2>1 DEF Owners
  <2> QED BY <2>2, <2>3, <2>4, <2>5 DEF TypeOK, Blocks, HeaderSet
<1> QED BY <1>1, IInvHolds, PTL

\* The blocks always lie back to back from one end of the heap to the other, and
\* each knows the size of the one before: the walks NEXT and PREV of free and realloc
\* land on headers (stdlib.c, 166-243).
THEOREM TilingHolds == Spec => []Tiling
<1>1. IInv => Tiling
  <2> SUFFICES ASSUME IInv PROVE Tiling
    OBVIOUS
  <2>1. Tiled(heap.hdr)
    BY DEF IInv, Good, Shape
  <2> QED BY <2>1 DEF Tiling, Tiled, Blocks, First, Tail0
<1> QED BY <1>1, IInvHolds, PTL

\* An address within a page has the number of the page.
LEMMA PageOf ==
    ASSUME NEW a \in Nat, NEW k \in Int, k * Page <= a, a < (k + 1) * Page
    PROVE  a \div Page = k
<1>1. Page \in Nat \ {0}
  BY ParamAssumption DEF BLOCKSIZE
<1> DEFINE q == a \div Page
<1>2. q \in Nat /\ Page * q <= a /\ a < Page * q + Page
  BY <1>1, DivIs
<1> HIDE DEF q
<1>3. /\ Page * q \in Int /\ q * Page = Page * q /\ (q + 1) * Page = Page * q + Page
      /\ k * Page \in Int /\ (k + 1) * Page \in Int
  BY <1>1, <1>2
<1> DEFINE pq == Page * q
           lo == k * Page
           hi == (k + 1) * Page
<1>4. q * Page < (k + 1) * Page /\ k * Page < (q + 1) * Page
  <2>1. pq \in Int /\ lo \in Int /\ hi \in Int /\ pq <= a /\ a < pq + Page /\ lo <= a /\ a < hi
    BY <1>2, <1>3
  <2> HIDE DEF pq, lo, hi
  <2>2. pq < hi /\ lo < pq + Page
    BY <1>1, <2>1
  <2> QED BY <1>3, <2>2 DEF pq, lo, hi
<1>5. q <= k /\ k <= q
  BY <1>1, <1>2, <1>4, MultLess
<1> QED BY <1>2, <1>5 DEF q

\* What malloc and realloc hand out has the room that was asked for and lies within
\* one page, however the blocks have been split and merged: the buffers may be used
\* for DMA (stdlib.c, 69-71).
THEOREM NoPageCrossingHolds == Spec => []NoPageCrossing
<1>1. IInv => NoPageCrossing
  <2> SUFFICES ASSUME IInv, NEW b \in DOMAIN live
               PROVE  /\ live[b] <= heap.hdr[b].size
                      /\ (b + BLOCKSIZE) \div Page = (b + BLOCKSIZE + heap.hdr[b].size - 1) \div Page
    BY DEF NoPageCrossing
  <2> DEFINE f == heap.hdr
  <2>1. /\ Headers(f) /\ Tiled(f) /\ Paged(f) /\ b \in DOMAIN f /\ live[b] <= f[b].size
    BY DEF IInv, Good, Shape, Owners, UsedOf
  <2>2. /\ b \in Int /\ f[b].size \in Nat /\ NEXT(f, b) = b + f[b].size + 16 /\ First <= b
    BY <2>1, HeaderIs DEF Tiled
  <2>3. PICK k \in Int : k * Page <= b + 4 /\ NEXT(f, b) + 4 <= (k + 1) * Page
    BY <2>1 DEF Paged, InPage, FieldOffset
  <2>4. First + 4 \in Nat
    <3>1. Aligned \in Nat /\ Before \in Nat /\ Before <= Aligned
      BY AlignedIs, SizesAre
    <3> QED BY <3>1 DEF First, HeapStart, FieldOffset
  <2>5. k * Page \in Int /\ (k + 1) * Page \in Int
    BY ParamAssumption
  <2> HIDE DEF f
  <2>6. First \in Int
    BY FirstIsInt
  <2>7. b + 16 \in Nat /\ k * Page <= b + 16 /\ b + 16 < (k + 1) * Page
    BY <2>2, <2>3, <2>4, <2>5, <2>6
  <2>8. /\ b + 15 + f[b].size \in Nat /\ k * Page <= b + 15 + f[b].size
        /\ b + 15 + f[b].size < (k + 1) * Page
    BY <2>2, <2>3, <2>4, <2>5, <2>6
  <2>9. (b + 16) \div Page = k /\ (b + 15 + f[b].size) \div Page = k
    BY <2>7, <2>8, PageOf
  <2>10. b + 16 + f[b].size - 1 = b + 15 + f[b].size
    BY <2>2
  <2> QED BY <2>1, <2>9, <2>10 DEF BLOCKSIZE, f
<1> QED BY <1>1, IInvHolds, PTL

\* Unless the word after the heap looks like a free block, HeapList holds exactly the
\* free blocks, each once, and every other block has an owner or is one whose free()
\* was ignored (stdlib.c, 121-136 and 195-243).
THEOREM FreeListExactHolds == ~TailFree => (Spec => []FreeListExact)
<1> SUFFICES ASSUME ~TailFree PROVE Spec => []FreeListExact
  OBVIOUS
<1>1. IInv => FreeListExact
  <2> SUFFICES ASSUME IInv PROVE FreeListExact
    OBVIOUS
  <2>1. /\ IsInjective(heap.list) /\ ToSet(heap.list) = FreeOf(heap.hdr)
    BY DEF IInv, Good, ListOf
  <2>2. UsedOf(heap.hdr) = DOMAIN live \cup lost
    BY DEF IInv, Owners
  <2>3. FreeOf(heap.hdr) = DOMAIN heap.hdr \ UsedOf(heap.hdr)
    BY DEF FreeOf, UsedOf
  <2> QED BY <2>1, <2>2, <2>3 DEF FreeListExact, Blocks, FreeOf
<1> QED BY <1>1, IInvHolds, PTL

\* The first block is one that HeapInit made.
LEMMA FirstIsInitial ==
    First \in DOMAIN InitialBlocks \/ First = Tail0
<1>1. Before \in Nat /\ Pages \in Nat /\ After \in Nat
  BY SizesAre
<1>2. CASE Before > 0
  BY <1>2, InitialHeaders
<1>3. CASE Before = 0 /\ 0 \in 0 .. LastPage
  BY <1>3, InitialHeaders
<1>4. CASE Before = 0 /\ 0 \notin 0 .. LastPage
  <2>1. After = 0 /\ Pages = 0
    BY <1>1, <1>4 DEF LastPage
  <2>2. Tail0 = PageBlock(0) + 0 /\ First = PageBlock(0)
    BY <1>4, <2>1, InitialHeaders
  <2>3. PageBlock(0) \in Int
    BY PageBlockIs
  <2> QED BY <2>2, <2>3
<1> QED BY <1>1, <1>2, <1>3, <1>4

\* Two tilings by the same blocks are the same.
LEMMA TilingIsUnique ==
    ASSUME NEW f, NEW g, Headers(f), Headers(g), Tiled(f), Tiled(g), DOMAIN f = DOMAIN g,
           NEW b \in DOMAIN f
    PROVE  f[b].size = g[b].size /\ (b # First => f[b].prev = g[b].prev)
<1>1. ASSUME NEW x \in DOMAIN f PROVE NEXT(f, x) = NEXT(g, x)
  <2>1. /\ NEXT(f, x) \in Int /\ NEXT(g, x) \in Int /\ x < NEXT(f, x) /\ x < NEXT(g, x) /\ x \in Int
    BY HeaderIs
  <2>2. /\ NEXT(f, x) <= Tail0 /\ NEXT(g, x) <= Tail0 /\ Tail0 \in Int
        /\ NEXT(f, x) = Tail0 \/ NEXT(f, x) \in DOMAIN f
        /\ NEXT(g, x) = Tail0 \/ NEXT(g, x) \in DOMAIN f
    BY FirstIsInt DEF Tiled
  <2>3. \A c \in DOMAIN f : (c <= x \/ c >= NEXT(f, x)) /\ (c <= x \/ c >= NEXT(g, x))
    BY DEF Tiled
  <2> QED BY <2>1, <2>2, <2>3
<1>2. ASSUME NEW x \in DOMAIN f PROVE f[x].size = g[x].size
  <2>1. /\ NEXT(f, x) = x + f[x].size + 16 /\ NEXT(g, x) = x + g[x].size + 16
        /\ f[x].size \in Nat /\ g[x].size \in Nat /\ x \in Int
    BY HeaderIs
  <2> QED BY <1>1, <2>1
<1>3. ASSUME b # First PROVE f[b].prev = g[b].prev
  <2> DEFINE p == PREV(f, b)
             q == PREV(g, b)
  <2>1. p \in DOMAIN f /\ f[p].size = f[b].prev /\ q \in DOMAIN f /\ g[q].size = g[b].prev
    BY <1>3 DEF Tiled
  <2>2. /\ p = b - f[b].prev - 16 /\ q = b - g[b].prev - 16
        /\ f[b].prev \in Nat /\ g[b].prev \in Nat /\ b \in Int
    BY HeaderIs
  <2> HIDE DEF p, q
  <2>3. NEXT(f, p) = p + f[p].size + 16 /\ NEXT(g, q) = q + g[q].size + 16
    BY <2>1, HeaderIs
  <2>4. NEXT(f, p) = b /\ NEXT(g, q) = b
    BY <2>1, <2>2, <2>3
  <2>5. NEXT(f, q) = b
    BY <1>1, <2>1, <2>4
  <2>6. p = q
    BY <2>1, <2>4, <2>5, OneBefore
  <2> QED BY <1>2, <2>1, <2>6
<1> QED BY <1>2, <1>3

\* A heap without a block in use has the headers that HeapInit wrote.
LEMMA AllFreeIsInitial ==
    ASSUME NEW f, Shape(f), Merged(f), UsedOf(f) = {}
    PROVE  f = InitialBlocks
<1> DEFINE g == InitialBlocks
<1>1. Headers(f) /\ Tiled(f) /\ Original(f) /\ Headers(g) /\ Tiled(g)
  BY InitialShape DEF Shape
<1>2. \A x \in DOMAIN f : f[x].free
  BY DEF UsedOf
<1>3. ASSUME NEW x \in DOMAIN f PROVE x \in DOMAIN g
  <2>1. CASE x = First
    <3>1. First # Tail0
      BY <1>1, <2>1, TailIsNoBlock
    <3> QED BY <2>1, <3>1, FirstIsInitial
  <2>2. CASE x # First
    <3> DEFINE p == PREV(f, x)
    <3>1. p \in DOMAIN f /\ f[p].size = f[x].prev
      BY <1>1, <2>2 DEF Tiled
    <3>2. p = x - f[x].prev - 16 /\ f[x].prev \in Nat /\ x \in Int
      BY <1>1, HeaderIs
    <3> HIDE DEF p
    <3>3. NEXT(f, p) = p + f[p].size + 16
      BY <1>1, <3>1, HeaderIs
    <3>4. NEXT(f, p) = x
      BY <3>1, <3>2, <3>3
    <3>5. f[x].aligned
      BY <1>2, <3>1, <3>4 DEF Merged
    <3> QED BY <1>1, <3>5 DEF Original
  <2> QED BY <2>1, <2>2
<1>4. DOMAIN f = DOMAIN g
  BY <1>1, <1>3 DEF Original
<1>5. ASSUME NEW x \in DOMAIN f PROVE f[x] = g[x]
  <2>1. f[x] \in HeaderSet /\ g[x] \in HeaderSet
    BY <1>1, <1>4, HeaderIs
  <2>2. f[x].size = g[x].size /\ (x # First => f[x].prev = g[x].prev)
    BY <1>1, <1>4, TilingIsUnique
  <2>3. x = First => f[x].prev = g[x].prev
    BY <1>1 DEF Original
  <2>4. f[x].free /\ g[x].free
    BY <1>2, <1>4, AllFreeAtFirst DEF UsedOf
  <2>5. f[x].aligned <=> g[x].aligned
    BY <1>1, <1>4 DEF Original
  <2> HIDE DEF g
  <2>6. f[x].free = g[x].free /\ f[x].aligned = g[x].aligned
    BY <2>1, <2>4, <2>5 DEF HeaderSet
  <2> QED BY <2>1, <2>2, <2>3, <2>6 DEF HeaderSet
<1> HIDE DEF g
<1>6. f = g
  BY <1>1, <1>4, <1>5 DEF Headers
<1> QED BY <1>6 DEF g

\* Unless the word after the heap looks like a free block, everything that malloc and
\* realloc split is merged again by free: once all blocks are freed the headers are
\* those of HeapInit (stdlib.c, 92-119 and 195-243).
THEOREM AllFreedIsInitialHolds == ~TailFree => (Spec => []AllFreedIsInitial)
<1> SUFFICES ASSUME ~TailFree PROVE Spec => []AllFreedIsInitial
  OBVIOUS
<1>1. IInv => AllFreedIsInitial
  <2> SUFFICES ASSUME IInv, live = << >>, lost = {} PROVE heap.hdr = InitialBlocks
    BY DEF AllFreedIsInitial
  <2>1. DOMAIN live = {}
    OBVIOUS
  <2>2. UsedOf(heap.hdr) = {}
    BY <2>1 DEF IInv, Owners
  <2>3. Shape(heap.hdr) /\ Merged(heap.hdr)
    BY DEF IInv, Good
  <2> QED BY <2>2, <2>3, AllFreeIsInitial
<1> QED BY <1>1, IInvHolds, PTL
=============================================================================
