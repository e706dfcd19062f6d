-------------------------------- MODULE Heap --------------------------------
(***************************************************************************)
(* The loader's heap (src/src/stdlib.c, lines 11-288): HeapInit, malloc,   *)
(* free and realloc on the conventional memory after the OSLDR image.      *)
(*                                                                         *)
(* Blocks lie back to back.  Each has a header with its own size, the size *)
(* of the block before it (PrevSize) and the flags FREE and ALIGNED; the   *)
(* free ones are also on HeapList.  A block is named by the address of its *)
(* header, and heap.hdr maps those addresses to what the headers hold      *)
(* (PrevSize without its flags, which no code reads).  The header fields   *)
(* straddle the page boundaries by FieldOffset, so that the user areas lie *)
(* within one page.                                                        *)
(***************************************************************************)
EXTENDS Naturals, FiniteSets, SequencesExt

CONSTANTS
    Page,           \* 65536: what a DMA transfer may not cross
    ImageEnd,       \* &ImageEndAddress, where the heap may begin
    MemEnd,         \* end of conventional memory
    TailFree,       \* does the word after the heap look like a free block?
    Requests,       \* sizes passed to malloc and realloc
    MaxLive         \* bound: blocks allocated at a time

BLOCKSIZE == 16
MIN_BLOCKSIZE == 4
FieldOffset == 4        \* offsetof(HEAPBLOCK, Size)
Paragraph == 16

RoundTo(n, k) == k * ((n + k - 1) \div k)

ALIGN(n) == RoundTo(n, 4)

ASSUME ParamAssumption ==
    /\ Page \in Nat /\ Page > 2 * BLOCKSIZE /\ Page % Paragraph = 0
    /\ ImageEnd \in Nat \ {0} /\ ImageEnd % 4 = 0
    /\ MemEnd \in Nat /\ MemEnd % 4 = 0
    /\ MemEnd - ImageEnd >= RoundTo(RoundTo(ImageEnd, Paragraph), Page)
                                - RoundTo(ImageEnd, Paragraph)
    /\ TailFree \in BOOLEAN
    /\ Requests \subseteq Nat \ {0}

VARIABLES
    heap,           \* [hdr, list]: the headers and HeapList
    live,           \* block -> the size its owner last asked for
    lost,           \* blocks whose free() did nothing
    wild            \* has Unlink been applied to something that is no block?

vars == <<heap, live, lost, wild>>

----------------------------------------------------------------------------
(* HeapInit *)

Address == RoundTo(ImageEnd, Paragraph)
Aligned == RoundTo(Address, Page)

Size0 == MemEnd - ImageEnd
Usable(n) == IF n < BLOCKSIZE + MIN_BLOCKSIZE THEN 0 ELSE n
Before == Usable(Aligned - Address)
AfterAll == (Size0 - (Aligned - Address)) % Page
After == Usable(AfterAll)
Pages == (Size0 - (Aligned - Address) - AfterAll) \div Page

HeapStart == Aligned - Before
HeapEnd == Aligned + Pages * Page + After      \* HeapStart + HeapSize

Header(prev, size, aligned) ==
    [prev |-> prev, size |-> size, free |-> TRUE, aligned |-> aligned]

\* One block before the first page boundary, one for each page, one after the
\* last; each is linked at the head of the list, the last one first.
PageBlock(i) == Aligned + i * Page - FieldOffset

InitialList ==
    (IF Before > 0 THEN <<Address - FieldOffset>> ELSE << >>)
    \o [k \in 1 .. Pages |-> PageBlock(k - 1)]
    \o (IF After > 0 THEN <<PageBlock(Pages)>> ELSE << >>)

\* PrevSize of the first block is never written: HASPREV keeps it from being read.
SizeBefore(b) ==
    IF b > Aligned - FieldOffset THEN Page - BLOCKSIZE
    ELSE IF Before > 0 THEN Before - BLOCKSIZE ELSE 0

InitialBlocks ==
    [b \in ToSet(InitialList) |->
        IF b < Aligned - FieldOffset THEN Header(0, Before - BLOCKSIZE, FALSE)
        ELSE Header(SizeBefore(b),
                    (IF b = PageBlock(Pages) THEN After ELSE Page) - BLOCKSIZE, TRUE)]

HeapInit == [hdr |-> InitialBlocks, list |-> InitialList]

----------------------------------------------------------------------------
(* Headers and the free list *)

NEXT(hdr, b) == b + hdr[b].size + BLOCKSIZE

PREV(hdr, b) == b - hdr[b].prev - BLOCKSIZE

HASPREV(b) == b + FieldOffset > HeapStart

\* HASNEXT compares the block itself, not its successor, with the end of the
\* heap and is always true.  After the last block comes memory that is not the
\* heap's: its first word decides whether it passes for a free block.
IsBlock(hdr, b) == b \in DOMAIN hdr

Mergeable(hdr, b) ==
    IF IsBlock(hdr, b) THEN hdr[b].free /\ ~hdr[b].aligned ELSE TailFree

\* Unlink
Without(list, b) == RemoveFirst(list, b)

\* f with the value v at b.
Put(f, b, v) == [x \in DOMAIN f \cup {b} |-> IF x = b THEN v ELSE f[x]]

\* The block after b is told b's size.  (The PrevSize after the last block lies
\* in the heap and is never read.)
TellNext(hdr, b) ==
    LET n == NEXT(hdr, b) IN
    IF IsBlock(hdr, n) THEN [hdr EXCEPT ![n].prev = hdr[b].size] ELSE hdr

\* Block b, no longer free, has n bytes.
Resized(hdr, b, n) == [hdr EXCEPT ![b] = [@ EXCEPT !.size = n, !.free = FALSE]]

MutSplice(h, b, n, total) ==
    LET rest == total - n
        new  == b + n + BLOCKSIZE
    IN IF rest >= MIN_BLOCKSIZE + BLOCKSIZE
       THEN [hdr  |-> TellNext(Put(Resized(h.hdr, b, n), new,
                                   Header(n, rest, FALSE)), new),
             list |-> <<new>> \o h.list]
       ELSE [hdr |-> TellNext(Resized(h.hdr, b, total), b), list |-> h.list]

\* Block b keeps n bytes; the rest of its `total` bytes becomes a new free block
\* if it is large enough to be one.
Splice(h, b, n, total) ==
    LET rest == total - n
        new  == b + n + BLOCKSIZE
    IN IF rest >= MIN_BLOCKSIZE + BLOCKSIZE
       THEN [hdr  |-> TellNext(Put(Resized(h.hdr, b, n), new,
                                   Header(n, rest - BLOCKSIZE, FALSE)), new),
             list |-> <<new>> \o h.list]
       ELSE [hdr |-> TellNext(Resized(h.hdr, b, total), b), list |-> h.list]

\* `from` disappears into the block before it.
Absorb(hdr, b, from) ==
    LET grown == [hdr EXCEPT ![b].size = hdr[b].size + hdr[from].size + BLOCKSIZE]
    IN TellNext(Restrict(grown, DOMAIN hdr \ {from}), b)

----------------------------------------------------------------------------
(* malloc *)

FirstFit(h, n) ==
    {i \in DOMAIN h.list :
        /\ h.hdr[h.list[i]].size >= n
        /\ \A j \in 1 .. i - 1 : h.hdr[h.list[j]].size < n}

\* The i-th block of the list is handed out for a request of n bytes.
Take(h, i, n) ==
    LET b == h.list[i] IN
    Splice([hdr |-> h.hdr, list |-> Without(h.list, b)], b, n, h.hdr[b].size)

----------------------------------------------------------------------------
(* free *)

MutMergeNext(h, b) ==
    LET n == NEXT(h.hdr, b) IN
    IF IsBlock(h.hdr, n) /\ h.hdr[n].free
    THEN [hdr |-> Absorb(h.hdr, b, n), list |-> Without(h.list, n)]
    ELSE h

MergeNext(h, b) ==
    LET n == NEXT(h.hdr, b) IN
    IF IsBlock(h.hdr, n) /\ Mergeable(h.hdr, n)
    THEN [hdr |-> Absorb(h.hdr, b, n), list |-> Without(h.list, n)]
    ELSE h

MutMergePrev(h, b) ==
    LET p == PREV(h.hdr, b) IN
    IF HASPREV(b) /\ ~h.hdr[b].aligned /\ h.hdr[p].free
    THEN [hdr |-> Absorb(h.hdr, p, b), list |-> <<p>> \o h.list]
    ELSE [hdr |-> h.hdr, list |-> <<b>> \o h.list]

\* Merge with a free block before it, and link what results.
MergePrev(h, b) ==
    LET p == PREV(h.hdr, b) IN
    IF HASPREV(b) /\ ~h.hdr[b].aligned /\ h.hdr[p].free
    THEN [hdr |-> Absorb(h.hdr, p, b), list |-> <<p>> \o Without(h.list, p)]
    ELSE [hdr |-> h.hdr, list |-> <<b>> \o h.list]

Release(h, b) ==
    MergePrev(MergeNext([hdr |-> [h.hdr EXCEPT ![b].free = TRUE], list |-> h.list], b), b)

\* Releasing b applies Unlink to the memory after the heap.
ReleaseIsWild(h, b) ==
    ~IsBlock(h.hdr, NEXT(h.hdr, b)) /\ Mergeable(h.hdr, NEXT(h.hdr, b))

\* What free(b) does: nothing at all when no block is on the list, because an
\* empty list is taken for a heap that is not initialised.
FreeBlock(h, b) ==
    [heap |-> IF h.list = << >> \/ ReleaseIsWild(h, b) THEN h ELSE Release(h, b),
     lost |-> IF h.list = << >> THEN {b} ELSE {},
     wild |-> h.list # << >> /\ ReleaseIsWild(h, b)]

----------------------------------------------------------------------------
(* Calls.  One that returns NULL changes nothing and is not a step; the
   caller of free or realloc owns the block it passes. *)

malloc(n) ==
    /\ Cardinality(DOMAIN live) < MaxLive
    /\ \E i \in FirstFit(heap, ALIGN(n)) :
          /\ heap' = Take(heap, i, ALIGN(n))
          /\ live' = Put(live, heap.list[i], n)
    /\ UNCHANGED <<lost, wild>>

free(b) ==
    LET f == FreeBlock(heap, b) IN
    /\ heap' = f.heap
    /\ lost' = lost \cup f.lost
    /\ wild' = f.wild
    /\ live' = Restrict(live, DOMAIN live \ {b})

\* The block is already large enough.
reallocFits(b, n) ==
    /\ n <= heap.hdr[b].size
    /\ live' = [live EXCEPT ![b] = n]
    /\ UNCHANGED <<heap, lost, wild>>

MutCanGrow(hdr, b, n) ==
    /\ Mergeable(hdr, NEXT(hdr, b))
    /\ IsBlock(hdr, NEXT(hdr, b))

\* Can b be extended into the block after it?  (SIZE(Next) without its header.)
CanGrow(hdr, b, n) ==
    /\ Mergeable(hdr, NEXT(hdr, b))
    /\ IsBlock(hdr, NEXT(hdr, b)) => hdr[b].size + hdr[NEXT(hdr, b)].size >= n

reallocGrows(b, n) ==
    LET next == NEXT(heap.hdr, b) IN
    /\ n > heap.hdr[b].size
    /\ CanGrow(heap.hdr, b, ALIGN(n))
    /\ IF IsBlock(heap.hdr, next)
       THEN /\ heap' = Splice([hdr  |-> Absorb(heap.hdr, b, next),
                               list |-> Without(heap.list, next)],
                              b, ALIGN(n),
                              heap.hdr[b].size + heap.hdr[next].size + BLOCKSIZE)
            /\ live' = [live EXCEPT ![b] = n]
            /\ UNCHANGED <<lost, wild>>
       ELSE wild' = TRUE /\ UNCHANGED <<heap, live, lost>>

\* A new block is allocated, the contents copied and the old block freed.
reallocMoves(b, n) ==
    /\ n > heap.hdr[b].size
    /\ ~(IsBlock(heap.hdr, NEXT(heap.hdr, b)) /\ CanGrow(heap.hdr, b, ALIGN(n)))
    /\ \E i \in FirstFit(heap, ALIGN(n)) :
          LET f == FreeBlock(Take(heap, i, ALIGN(n)), b) IN
          /\ heap' = f.heap
          /\ lost' = lost \cup f.lost
          /\ wild' = f.wild
          /\ live' = Put(Restrict(live, DOMAIN live \ {b}), heap.list[i], n)

realloc(b, n) ==
    /\ heap.list # << >>
    /\ reallocFits(b, n) \/ reallocGrows(b, n) \/ reallocMoves(b, n)

Init ==
    /\ heap = HeapInit
    /\ live = << >>
    /\ lost = {}
    /\ wild = FALSE

\* Nothing more is said of a heap whose list has been overwritten.
Next ==
    /\ ~wild
    /\ \/ \E n \in Requests : malloc(n)
       \/ \E b \in DOMAIN live : free(b)
       \/ \E b \in DOMAIN live, n \in Requests : realloc(b, n)

Spec == Init /\ [][Next]_vars

----------------------------------------------------------------------------
(* Properties *)

Blocks == DOMAIN heap.hdr

\* Headers hold sizes and flags, the list and the owners name blocks.
TypeOK ==
    /\ heap.hdr \in [Blocks -> [prev : Nat, size : Nat, free : BOOLEAN, aligned : BOOLEAN]]
    /\ heap.list \in Seq(Blocks)
    /\ DOMAIN live \subseteq Blocks
    /\ \A b \in DOMAIN live : live[b] \in Requests
    /\ wild \in BOOLEAN

\* The blocks lie back to back from one end of the heap to the other, and each
\* header knows the size of the block before it: the walks NEXT and PREV that
\* free and realloc merge along always land on headers.
Tiling ==
    /\ \A b \in Blocks :
          LET n == NEXT(heap.hdr, b) IN
          /\ b >= HeapStart - FieldOffset
          /\ n = HeapEnd - FieldOffset \/ (n \in Blocks /\ heap.hdr[n].prev = heap.hdr[b].size)
          /\ \A c \in Blocks : c <= b \/ c >= n
    /\ \A b \in Blocks : b = HeapStart - FieldOffset \/ PREV(heap.hdr, b) \in Blocks

\* HeapList holds every free block once, and every other block has an owner (or
\* its free() was ignored because everything else was in use): no merge or
\* splice leaves a block on the list that is in use, or off it and unowned.
FreeListExact ==
    /\ IsInjective(heap.list)
    /\ ToSet(heap.list) = {b \in Blocks : heap.hdr[b].free}
    /\ ToSet(heap.list) = Blocks \ (DOMAIN live \cup lost)

\* Every owner has at least the room it last asked for, and its bytes do not
\* cross a page: buffers handed to a DMA transfer may not (stdlib.c, 69-71).
NoPageCrossing ==
    \A b \in DOMAIN live :
        LET first == b + BLOCKSIZE
            last  == first + heap.hdr[b].size - 1
        IN live[b] <= heap.hdr[b].size /\ first \div Page = last \div Page

\* Nothing that is not a block of the heap is ever unlinked from HeapList.
OnlyBlocksUnlinked == ~wild

\* A block that its owner freed can be allocated again.
NothingLost == lost = {}

\* What malloc hands out lies below the end of conventional memory.
HeapInsideMemory == \A b \in DOMAIN live : NEXT(heap.hdr, b) <= MemEnd

\* Once everything is freed the heap is as HeapInit made it, up to the order of
\* the list.
AllFreedIsInitial ==
    live = << >> /\ lost = {} => heap.hdr = InitialBlocks
=============================================================================
