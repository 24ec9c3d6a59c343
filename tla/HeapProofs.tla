----------------------------- MODULE HeapProofs -----------------------------
(***************************************************************************)
(* The abstract heap keeps its promise for every number of pages, and so   *)
(* does whatever implements it.                                            *)
(***************************************************************************)
EXTENDS Heap, TLAPS

\* A page lies in at most one run, so that Free takes at most one.
LEMMA FreeTakesOne ==
  ASSUME PageCount \in Nat, NoPageSharedByTwo, NEW p \in Pages, Free(p)
  PROVE  \A a, b \in runs \ runs' : a = b
<1> SUFFICES ASSUME NEW a \in runs \ runs', NEW b \in runs \ runs'
             PROVE  a = b
  OBVIOUS
<1>1. a \in Runs /\ b \in Runs
  BY DEF NoPageSharedByTwo
<1>2. a[1] <= p /\ p <= a[2] /\ b[1] <= p /\ p <= b[2]
  BY DEF Free
<1>3. ~Disjoint(a, b)
  BY <1>1, <1>2 DEF Disjoint, Runs, Pages
<1> QED
  BY <1>3 DEF NoPageSharedByTwo

\* kmalloc and kfree preserve the disjointness of the runs.
LEMMA HeapStep ==
  ASSUME NoPageSharedByTwo, [HeapNext]_runs
  PROVE  NoPageSharedByTwo'
<1>1. CASE UNCHANGED runs
  BY <1>1 DEF NoPageSharedByTwo
<1>2. ASSUME NEW r \in Runs, Malloc(r)
      PROVE  NoPageSharedByTwo'
  BY <1>2 DEF NoPageSharedByTwo, Malloc, Disjoint
<1>3. ASSUME NEW p \in Pages, Free(p)
      PROVE  NoPageSharedByTwo'
  BY <1>3 DEF NoPageSharedByTwo, Free
<1> QED
  BY <1>1, <1>2, <1>3 DEF HeapNext

\* No page of the heap is ever handed to two callers of kmalloc at a time.
THEOREM HeapNeverShares == HeapSpec => []NoPageSharedByTwo
<1>1. HeapInit => NoPageSharedByTwo
  BY DEF HeapInit, NoPageSharedByTwo
<1>2. NoPageSharedByTwo /\ [HeapNext]_runs => NoPageSharedByTwo'
  BY HeapStep
<1> QED
  BY <1>1, <1>2, PTL DEF HeapSpec

\* kfree takes at most one run and kmalloc takes none.
THEOREM HeapTakesOneRun ==
  ASSUME PageCount \in Nat
  PROVE  HeapSpec => TakesOneRun
<1> DEFINE Keeps == /\ \A a, b \in runs \ runs' : a = b
                    /\ runs' \ runs # {} => runs \subseteq runs'
<1>1. NoPageSharedByTwo /\ [HeapNext]_runs => [Keeps]_runs
  <2> SUFFICES ASSUME NoPageSharedByTwo, HeapNext PROVE Keeps
    OBVIOUS
  <2>1. ASSUME NEW r \in Runs, Malloc(r) PROVE Keeps
    BY <2>1 DEF Malloc
  <2>2. ASSUME NEW p \in Pages, Free(p) PROVE Keeps
    <3>1. \A a, b \in runs \ runs' : a = b
      BY <2>2, FreeTakesOne
    <3>2. runs' \subseteq runs
      BY <2>2 DEF Free
    <3> QED
      BY <3>1, <3>2
  <2> QED
    BY <2>1, <2>2 DEF HeapNext
<1> QED
  BY <1>1, HeapNeverShares, PTL DEF HeapSpec, TakesOneRun
=============================================================================
