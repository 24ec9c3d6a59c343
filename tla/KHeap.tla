-------------------------------- MODULE KHeap --------------------------------
(***************************************************************************)
(* The kernel heap of src/src/kernel/kheap.c: a buddy allocator over the   *)
(* pages of the heap's address range.                                      *)
(*                                                                         *)
(* kmalloc and kfree run under g_kheap_lock with interrupts off, so each   *)
(* is one action.  Addresses are page numbers.  The loops of buddy_split   *)
(* and buddy_coalesce are written as what they leave behind.  The free     *)
(* lists take their nodes from a pool of twice as many nodes as the heap   *)
(* has pages; no page is on two lists, so fl_push never finds it empty.    *)
(* Left out: demand paging, and the lifetime count g_total_allocs, which   *)
(* nothing reads but kheap_get_stats.                                      *)
(***************************************************************************)
EXTENDS Integers, Sequences, FiniteSetsExt, SequencesExt

CONSTANTS
  MaxLevel,  \* BUDDY_MAX_LEVEL (11 in the code)
  PageSize,  \* PAGE_SIZE, in bytes (4096 in the code)
  WordSize,  \* the number of values of a uint64_t
  Sizes      \* the sizes, in bytes, that callers ask for

ASSUME LevelsExist == MaxLevel \in Nat
ASSUME SizesAreWords == Sizes \subseteq 0..(WordSize - 1)

Levels == 0..MaxLevel

\* The heap is two blocks of the highest level.
HEAP_PAGE_COUNT == 2 * 2^MaxLevel

Pages == 0..(HEAP_PAGE_COUNT - 1)

PAGE_ALLOCATED == 255
PAGE_INTERIOR == 254

VARIABLES
  freeList,        \* g_free_list[]: the page_idx of the nodes, head first
  blockLevel,      \* g_block_level[]
  allocLevel,      \* g_alloc_level[]: level + 1, 0 for a free page
  allocatedPages,  \* g_allocated_pages
  activeAllocs     \* g_active_allocs

vars == << freeList, blockLevel, allocLevel, allocatedPages, activeAllocs >>

Block(start, level) == start..(start + 2^level - 1)

\* The start of the block of the given level that holds page p.
HeadOf(p, level) == p - (p % (2^level))

\* p XOR 2^level, for the start p of a block of that level.
buddy_of(p, level) == IF HeadOf(p, level + 1) = p THEN p + 2^level ELSE p - 2^level

\* mark_block_free's tag of page p in a block of that level.
FreeTag(p, level) == IF HeadOf(p, level) = p THEN level ELSE PAGE_INTERIOR

kheap_init ==
  /\ freeList = [l \in Levels |-> IF l = MaxLevel THEN << 2^MaxLevel, 0 >> ELSE << >>]
  /\ blockLevel = [p \in Pages |-> FreeTag(p, MaxLevel)]
  /\ allocLevel = [p \in Pages |-> 0]
  /\ allocatedPages = 0
  /\ activeAllocs = 0

-----------------------------------------------------------------------------
\* Wrong variant: rounds down.
BadPagesFor(size) == Max({1, size \div PageSize})

\* kmalloc rounds up to pages, in 64-bit arithmetic, and takes at least one.
PagesFor(size) == Max({1, ((size + PageSize - 1) % WordSize) \div PageSize})

\* The search stops at the highest level, whether that is enough or not.
min_level_for_pages(n) == Min({l \in Levels : 2^l >= n} \cup {MaxLevel})

\* The levels that have a block for a request of the given level.
Stocked(need) == {l \in need..MaxLevel : freeList[l] # << >>}

\* The free lists after a block at pg was popped from level from and split down
\* to level to: every right half goes to the list of its level.
SplitLists(pg, from, to) ==
  [l \in Levels |->
     CASE l = from -> Tail(freeList[l])
       [] l \in to..(from - 1) -> << pg + 2^l >> \o freeList[l]
       [] OTHER -> freeList[l]]

\* The tag of page p of the block after the split; the left half is allocated.
SplitTag(pg, from, to, p) ==
  IF p \in Block(pg, to) THEN PAGE_ALLOCATED
  ELSE IF \E l \in to..(from - 1) : p = pg + 2^l
       THEN CHOOSE l \in to..(from - 1) : p = pg + 2^l
       ELSE blockLevel[p]

\* Wrong variant: only the first page of the block records the level.
BadMallocTagsHead(size) ==
  LET need == min_level_for_pages(PagesFor(size))
      from == Min(Stocked(need))
      pg   == Head(freeList[from])
  IN  /\ Stocked(need) # {}
      /\ freeList' = SplitLists(pg, from, need)
      /\ blockLevel' = [p \in Pages |-> SplitTag(pg, from, need, p)]
      /\ allocLevel' = [allocLevel EXCEPT ![pg] = need + 1]
      /\ allocatedPages' = allocatedPages + 2^need
      /\ activeAllocs' = activeAllocs + 1

\* A request that some list can satisfy.  (Otherwise kmalloc returns NULL and
\* changes nothing.)
kmalloc(size) ==
  LET need == min_level_for_pages(PagesFor(size))
      from == Min(Stocked(need))
      pg   == Head(freeList[from])
  IN  /\ Stocked(need) # {}
      /\ freeList' = SplitLists(pg, from, need)
      /\ blockLevel' = [p \in Pages |-> SplitTag(pg, from, need, p)]
      /\ allocLevel' = [p \in Pages |-> IF p \in Block(pg, need) THEN need + 1 ELSE
                                        IF p \in Block(pg, from) THEN 0 ELSE allocLevel[p]]
      /\ allocatedPages' = allocatedPages + 2^need
      /\ activeAllocs' = activeAllocs + 1

-----------------------------------------------------------------------------
\* Wrong variant: never merges into a block of the highest level.
BadMergeStopsEarly(p, l) ==
  \/ l >= MaxLevel - 1
  \/ blockLevel[buddy_of(HeadOf(p, l), l)] # l

\* buddy_coalesce stops at level l: there is no level above, or the buddy of
\* the block that holds page p is not a free block of that level.
MergeStops(p, l) ==
  \/ l >= MaxLevel
  \/ buddy_of(HeadOf(p, l), l) >= HEAP_PAGE_COUNT
  \/ blockLevel[buddy_of(HeadOf(p, l), l)] # l

\* The level of the block that freeing the block of level l at p ends with.
MergedLevel(p, l) == Min({m \in l..MaxLevel : MergeStops(p, m)})

\* Wrong variant: the buddies stay on their lists.
BadMergedLists(p, l) ==
  LET top == MergedLevel(p, l)
  IN  [freeList EXCEPT ![top] = << HeadOf(p, top) >> \o @]

\* Every buddy merged leaves its list; the merged block is pushed on its own.
MergedLists(p, l) ==
  LET top == MergedLevel(p, l)
  IN  [k \in Levels |->
         CASE k = top -> << HeadOf(p, top) >> \o freeList[k]
           [] k \in l..(top - 1) ->
                SelectSeq(freeList[k], LAMBDA b : b # buddy_of(HeadOf(p, k), k))
           [] OTHER -> freeList[k]]

\* Wrong variant: the statistics are lowered by the merged block.
BadFreeCounts(p) ==
  LET level == allocLevel[p] - 1
      top   == MergedLevel(p, level)
      block == Block(HeadOf(p, top), top)
  IN  /\ blockLevel[p] = PAGE_ALLOCATED
      /\ allocLevel[p] # 0
      /\ freeList' = MergedLists(p, level)
      /\ blockLevel' = [q \in Pages |-> IF q \in block THEN FreeTag(q, top) ELSE blockLevel[q]]
      /\ allocLevel' = [q \in Pages |-> IF q \in block THEN 0 ELSE allocLevel[q]]
      /\ allocatedPages' = allocatedPages - 2^top
      /\ activeAllocs' = activeAllocs - 1

\* Wrong variant: a held buddy of the same size is merged as if it were free, and
\* its pages are no longer counted.
BadFreeTakesBuddy(p) ==
  LET held  == allocLevel[p] - 1
      both  == held < MaxLevel /\ allocLevel[buddy_of(HeadOf(p, held), held)] = allocLevel[p]
      level == IF both THEN held + 1 ELSE held
      top   == MergedLevel(p, level)
      block == Block(HeadOf(p, top), top)
  IN  /\ blockLevel[p] = PAGE_ALLOCATED
      /\ allocLevel[p] # 0
      /\ freeList' = MergedLists(p, level)
      /\ blockLevel' = [q \in Pages |-> IF q \in block THEN FreeTag(q, top) ELSE blockLevel[q]]
      /\ allocLevel' = [q \in Pages |-> IF q \in block THEN 0 ELSE allocLevel[q]]
      /\ allocatedPages' = allocatedPages - 2^level
      /\ activeAllocs' = activeAllocs - 1

\* kfree of any page of an allocated block.  (A page of a free block, an address
\* outside the heap or not aligned is ignored.)
kfree(p) ==
  LET level == allocLevel[p] - 1
      top   == MergedLevel(p, level)
      block == Block(HeadOf(p, top), top)
  IN  /\ blockLevel[p] = PAGE_ALLOCATED
      /\ allocLevel[p] # 0
      /\ freeList' = MergedLists(p, level)
      /\ blockLevel' = [q \in Pages |-> IF q \in block THEN FreeTag(q, top) ELSE blockLevel[q]]
      /\ allocLevel' = [q \in Pages |-> IF q \in block THEN 0 ELSE allocLevel[q]]
      /\ allocatedPages' = allocatedPages - 2^level
      /\ activeAllocs' = activeAllocs - 1

Next ==
  \/ \E size \in Sizes : kmalloc(size)
  \/ \E p \in Pages : kfree(p)

Spec == kheap_init /\ [][Next]_vars
-----------------------------------------------------------------------------
\* The arrays and lists stay within their C types.
TypeOK ==
  /\ freeList \in [Levels -> Seq(Pages)]
  /\ blockLevel \in [Pages -> Levels \cup {PAGE_ALLOCATED, PAGE_INTERIOR}]
  /\ allocLevel \in [Pages -> 0..(MaxLevel + 1)]
  /\ allocatedPages \in Pages \cup {HEAP_PAGE_COUNT}
  /\ activeAllocs \in Nat

\* The free blocks, as the lists have them.
FreeBlocks == UNION {{<< p, l >> : p \in Range(freeList[l])} : l \in Levels}

\* kheap_verify_integrity returns 1: heads tagged with the level of their list,
\* interior pages tagged as such, no page on two lists, and the lists account
\* for every page that g_allocated_pages does not count.
kheap_verify_integrity ==
  /\ \A l \in Levels : \A i \in DOMAIN freeList[l] :
       /\ blockLevel[freeList[l][i]] = l
       /\ \A q \in Block(freeList[l][i], l) \ {freeList[l][i]} :
            q \in Pages => blockLevel[q] = PAGE_INTERIOR
  /\ \A l, m \in Levels : \A i \in DOMAIN freeList[l], j \in DOMAIN freeList[m] :
       freeList[l][i] = freeList[m][j] => l = m /\ i = j
  /\ MapThenSumSet(LAMBDA l : Len(freeList[l]) * 2^l, Levels)
       = HEAP_PAGE_COUNT - allocatedPages

\* Every page is in exactly one block: one on a free list, or an allocated one,
\* all of whose pages carry its level, so that kfree finds the block from any of
\* them.
BlocksPartition ==
  \A p \in Pages :
    IF blockLevel[p] = PAGE_ALLOCATED
    THEN /\ allocLevel[p] # 0
         /\ \A q \in Block(HeadOf(p, allocLevel[p] - 1), allocLevel[p] - 1) :
              blockLevel[q] = PAGE_ALLOCATED /\ allocLevel[q] = allocLevel[p]
         /\ \A b \in FreeBlocks : p \notin Block(b[1], b[2])
    ELSE /\ allocLevel[p] = 0
         /\ \E b \in FreeBlocks : p \in Block(b[1], b[2])

\* kmalloc fails only if the pages are not there: when every list from a level
\* up is empty, no aligned block of that level is free.  This is what merging
\* in kfree is for.
FailsOnlyWhenFull ==
  \A l \in Levels : Stocked(l) = {} =>
    \A p \in Pages : \E q \in Block(HeadOf(p, l), l) : blockLevel[q] = PAGE_ALLOCATED

\* A request of at most 2^MaxLevel pages gets a block that holds it.
GrantCoversRequest ==
  [][\A size \in Sizes : size <= PageSize * 2^MaxLevel /\ kmalloc(size) =>
       (allocatedPages' - allocatedPages) * PageSize >= size]_vars

\* The runs of pages that callers hold.
HeldRuns ==
  {<< p, p + 2^l - 1 >> : << p, l >> \in
     {b \in Pages \X Levels : HeadOf(b[1], b[2]) = b[1] /\ allocLevel[b[1]] = b[2] + 1}}

Abstract == INSTANCE Heap WITH PageCount <- HEAP_PAGE_COUNT, runs <- HeldRuns

\* The buddy allocator keeps the promise of kheap.h: every kmalloc returns pages
\* that nobody holds and every kfree takes back one whole run.
ImplementsHeap == Abstract!HeapSpec

\* kheap.c: "Allocation beyond heap capacity returns NULL (OOM)."
OversizeFails ==
  [][\A size \in Sizes : size > PageSize * HEAP_PAGE_COUNT => ~kmalloc(size)]_vars
=============================================================================
