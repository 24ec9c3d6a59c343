-------------------------------- MODULE Heap --------------------------------
(***************************************************************************)
(* What kmalloc and kfree of src/src/kernel/kheap.h promise: the heap is a *)
(* range of pages; kmalloc hands out a run of pages that nobody holds and  *)
(* kfree takes back the run that contains the page it is given.            *)
(***************************************************************************)
EXTENDS Integers

CONSTANT PageCount  \* HEAP_PAGE_COUNT

Pages == 0..(PageCount - 1)

VARIABLE runs  \* the runs of pages held by callers, as pairs << first, last >>

Runs == {r \in Pages \X Pages : r[1] <= r[2]}

Disjoint(a, b) == a[2] < b[1] \/ b[2] < a[1]

HeapInit == runs = {}

Malloc(r) ==
  /\ \A h \in runs : Disjoint(h, r)
  /\ runs' = runs \cup {r}

Free(p) == runs' = {r \in runs : ~(r[1] <= p /\ p <= r[2])}

HeapNext == (\E r \in Runs : Malloc(r)) \/ (\E p \in Pages : Free(p))

HeapSpec == HeapInit /\ [][HeapNext]_runs
-----------------------------------------------------------------------------
\* No page is handed to two callers at a time.
NoPageSharedByTwo ==
  /\ runs \subseteq Runs
  /\ \A a, b \in runs : a = b \/ Disjoint(a, b)

\* A call takes at most one run away from its holder, and a call that hands one
\* out takes none: nobody loses a run by what others allocate or free.
TakesOneRun ==
  [][/\ \A a, b \in runs \ runs' : a = b
     /\ runs' \ runs # {} => runs \subseteq runs']_runs
=============================================================================
