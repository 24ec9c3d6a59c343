-------------------------------- MODULE MLFQ --------------------------------
(***************************************************************************)
(* The multi-level feedback queue of src/src/kernel/mlfq.c.                *)
(*                                                                         *)
(* The four linked ready queues are sequences; the fields of a PCB that    *)
(* the queue code reads or writes (state, mlfq_level, remaining_ticks)     *)
(* are functions over tasks.  All of it is one record, and every function  *)
(* of mlfq.c is an operator from such a record to the next one, so that    *)
(* the callers in scheduler.c and task.c can be written as compositions    *)
(* of the calls they make.                                                 *)
(***************************************************************************)
EXTENDS Integers, Sequences

CONSTANTS
  Tasks,         \* the PCBs, the idle task's included
  NULL,          \* the null task pointer
  Idle,          \* g_idle_task
  Quantum,       \* mlfq_quanta[]: the ticks of each level ({2,4,8,16} in the code)
  BoostInterval  \* MLFQ_BOOST_INTERVAL (200 in the code)

MLFQ_LEVELS == 4

Levels == 0..(MLFQ_LEVELS - 1)

ASSUME IdleIsATask == Idle \in Tasks /\ NULL \notin Tasks

ASSUME QuantumPositive == Quantum \in [Levels -> Nat \ {0}]

ASSUME BoostIntervalPositive == BoostInterval \in Nat \ {0}

\* task_state_t without TASK_STATE_SLEEPING, which no code assigns.
States == {"CREATED", "READY", "RUNNING", "BLOCKED", "ZOMBIE", "DEAD"}

RunQueues ==
  [queue  : [Levels -> Seq(Tasks)],  \* mlfq_queues[]: head to tail
   bitmap : SUBSET Levels,           \* mlfq_bitmap
   level  : [Tasks -> Levels],       \* task->mlfq_level
   left   : [Tasks -> Nat],          \* task->remaining_ticks
   state  : [Tasks -> States],       \* task->state
   ticks  : Nat]                     \* g_ticks_since_boost

InQueue(q, t) == \E i \in 1..Len(q) : q[i] = t

Queued(r, t) == \E l \in Levels : InQueue(r.queue[l], t)

\* The walk of mlfq_dequeue stops at the first link that points to t.
FirstAt(q, t) ==
  CHOOSE i \in 1..Len(q) : q[i] = t /\ \A j \in 1..(i - 1) : q[j] # t

Unlink(q, t) ==
  LET p == FirstAt(q, t)
  IN  [i \in 1..(Len(q) - 1) |-> IF i < p THEN q[i] ELSE q[i + 1]]

(***************************************************************************)
(* The functions of mlfq.c.                                                *)
(***************************************************************************)

\* mlfq_init, with the PCBs as task_create leaves them (zeroed, CREATED).
mlfq_init ==
  [queue  |-> [l \in Levels |-> << >>],
   bitmap |-> {},
   level  |-> [t \in Tasks |-> 0],
   left   |-> [t \in Tasks |-> 0],
   state  |-> [t \in Tasks |-> "CREATED"],
   ticks  |-> 0]

mlfq_enqueue(r, t, l) ==
  [r EXCEPT !.level[t] = l,
            !.state[t] = "READY",
            !.left[t]  = Quantum[l],
            !.queue[l] = Append(@, t),
            !.bitmap   = @ \cup {l}]

\* Wrong variant: the bit of a queue that became empty stays set.
BadDequeue(r, t) ==
  LET l == r.level[t]
  IN  IF InQueue(r.queue[l], t) THEN [r EXCEPT !.queue[l] = Unlink(@, t)] ELSE r

\* A task that is not in the queue of its level is left alone.
mlfq_dequeue(r, t) ==
  LET l == r.level[t]
      q == Unlink(r.queue[l], t)
  IN  IF InQueue(r.queue[l], t)
      THEN [r EXCEPT !.queue[l] = q,
                     !.bitmap   = IF Len(q) = 0 THEN @ \ {l} ELSE @]
      ELSE r

\* __builtin_ctz(mlfq_bitmap): the lowest level with tasks.
mlfq_pick_highest(r) ==
  IF r.bitmap = {}
  THEN NULL
  ELSE LET top == CHOOSE l \in r.bitmap : \A m \in r.bitmap : l <= m
       IN  Head(r.queue[top])

\* Wrong variant: at the last level the quantum is reloaded, but the task, which
\* left its queue when it was picked, is not queued again.
BadDecay(r, t) ==
  LET l == r.level[t]
  IN  IF l >= MLFQ_LEVELS - 1
      THEN [r EXCEPT !.left[t] = Quantum[l]]
      ELSE mlfq_enqueue(mlfq_dequeue(r, t), t, l + 1)

\* Wrong variant: the level wraps around instead of stopping at the last one.
BadDecayWraps(r, t) ==
  mlfq_enqueue(mlfq_dequeue(r, t), t, (r.level[t] + 1) % MLFQ_LEVELS)

mlfq_decay(r, t) ==
  LET l == r.level[t]
  IN  mlfq_enqueue(mlfq_dequeue(r, t), t,
                   IF l >= MLFQ_LEVELS - 1 THEN l ELSE l + 1)

\* Wrong variant: a boosted task keeps the rest of its old quantum.
BadBoostKeepsTicks(r) ==
  LET moved(t) == \E l \in Levels \ {0} : InQueue(r.queue[l], t)
  IN  [queue  |-> [l \in Levels |->
                     IF l = 0 THEN ((r.queue[0] \o r.queue[1]) \o r.queue[2]) \o r.queue[3]
                              ELSE << >>],
       bitmap |-> IF r.bitmap = {} THEN {} ELSE {0},
       level  |-> [t \in Tasks |-> IF moved(t) THEN 0 ELSE r.level[t]],
       left   |-> r.left,
       state  |-> r.state,
       ticks  |-> 0]

\* Wrong variant: every level is lowered by one, with no floor.
BadBoostNoFloor(r) ==
  [r EXCEPT !.level = [t \in Tasks |-> @[t] - 1], !.ticks = 0]

\* The lists of levels 1-3 are joined in level order and appended to level 0.
\* The states are not touched, nor is a task that is in no queue.
mlfq_boost_all(r) ==
  LET moved(t) == \E l \in Levels \ {0} : InQueue(r.queue[l], t)
      collected == \E l \in Levels \ {0} : Len(r.queue[l]) > 0
  IN  [queue  |-> [l \in Levels |->
                     IF l = 0 THEN ((r.queue[0] \o r.queue[1]) \o r.queue[2]) \o r.queue[3]
                              ELSE << >>],
       bitmap |-> (r.bitmap \cap {0}) \cup (IF collected THEN {0} ELSE {}),
       level  |-> [t \in Tasks |-> IF moved(t) THEN 0 ELSE r.level[t]],
       left   |-> [t \in Tasks |-> IF moved(t) THEN Quantum[0] ELSE r.left[t]],
       state  |-> r.state,
       ticks  |-> 0]

\* Wrong variant: the counter restarts but nobody is promoted.
BadTick(r) == [r EXCEPT !.ticks = IF @ + 1 >= BoostInterval THEN 0 ELSE @ + 1]

mlfq_tick(r) ==
  LET counted == [r EXCEPT !.ticks = @ + 1]
  IN  IF counted.ticks >= BoostInterval THEN mlfq_boost_all(counted) ELSE counted

-----------------------------------------------------------------------------
(***************************************************************************)
(* What the functions above rely on and re-establish.                      *)
(***************************************************************************)

\* The linked lists share no node: no task is linked twice, in one queue or
\* in two (mlfq.h: a task to enqueue "must not already be in a queue").
NoDuplicates(r) ==
  \A l, m \in Levels : \A i \in 1..Len(r.queue[l]), j \in 1..Len(r.queue[m]) :
    r.queue[l][i] = r.queue[m][j] => l = m /\ i = j

\* mlfq_dequeue looks only in the queue of task->mlfq_level, so that field
\* must name the queue the task is in.
LevelTags(r) ==
  \A l \in Levels : \A i \in 1..Len(r.queue[l]) : r.level[r.queue[l][i]] = l

\* mlfq_pick_highest trusts the bitmap: a set bit is a non-empty queue.
BitmapExact(r) == \A l \in Levels : l \in r.bitmap <=> Len(r.queue[l]) > 0

WellFormed(r) == NoDuplicates(r) /\ LevelTags(r) /\ BitmapExact(r)

\* No task is owed more ticks than the quantum of its level.
WithinQuantum(r) == \A t \in Tasks : r.left[t] <= Quantum[r.level[t]]
=============================================================================
