------------------------------ MODULE Scheduler ------------------------------
(***************************************************************************)
(* The scheduler of src/src/kernel/scheduler.c over the queues of mlfq.c,  *)
(* with the writes that task.c makes to the scheduling state (a task       *)
(* blocks itself in task_wait, becomes a zombie in task_exit, is freed by  *)
(* task_destroy).                                                          *)
(*                                                                         *)
(* One CPU.  Every function below runs with interrupts off: scheduler_tick *)
(* inside the timer interrupt, the others inside a system call (SFMASK     *)
(* clears IF) or before the kernel's first sti.  Each is therefore one     *)
(* atomic action, and an execution is an interleaving of timer ticks with  *)
(* the calls made by whichever task is current.                            *)
(***************************************************************************)
EXTENDS MLFQ, FiniteSets

VARIABLES
  rq,          \* the MLFQ and the scheduling fields of every PCB
  current,     \* g_current
  readyCount,  \* g_ready_count
  exited       \* the tasks that called task_exit: they only execute hlt from then on

vars == << rq, current, readyCount, exited >>

state == rq.state

\* scheduler_init: the idle task is queued at level 3 and also current.
Init ==
  /\ rq = [mlfq_enqueue(mlfq_init, Idle, MLFQ_LEVELS - 1) EXCEPT !.state[Idle] = "RUNNING"]
  /\ current = Idle
  /\ readyCount = 0
  /\ exited = {}

-----------------------------------------------------------------------------
(***************************************************************************)
(* Calls made by the running task.                                         *)
(***************************************************************************)

\* Wrong variant: the idle task makes calls too.
BadCanCall(t) == t \notin exited

\* The current task makes calls until it has exited, and even while BLOCKED:
\* blocking does not take the CPU away before the quantum ends.  The idle task
\* makes none.
CanCall(t) == t # Idle /\ t \notin exited

\* g_ready_count counts every task but the idle task.
Counted(t) == IF t = Idle THEN 0 ELSE 1

\* A task just built by task_create, task_create_elf or sys_fork.
scheduler_add_task(t) ==
  /\ state[t] = "CREATED"
  /\ rq' = mlfq_enqueue(rq, t, 0)
  /\ readyCount' = readyCount + 1
  /\ UNCHANGED << current, exited >>

\* Called on a task that is waiting for the CPU.
scheduler_remove_task(t) ==
  /\ state[t] = "READY"
  /\ t # Idle
  /\ rq' = [mlfq_dequeue(rq, t) EXCEPT !.state[t] = "ZOMBIE"]
  /\ readyCount' = readyCount - Counted(t)
  /\ UNCHANGED << current, exited >>

\* Wrong variant: the state is set and the task is not queued.
BadWoken(r, t) == [r EXCEPT !.state[t] = "READY"]

\* The effect of scheduler_wake_task on a BLOCKED task.
Woken(r, t) == mlfq_enqueue([r EXCEPT !.state[t] = "READY"], t, 0)

\* Wrong variant: the ready count is not raised.
BadWake(t) ==
  /\ t # current
  /\ state[t] = "BLOCKED"
  /\ rq' = Woken(rq, t)
  /\ UNCHANGED << current, readyCount, exited >>

\* The current task wakes another one.
scheduler_wake_task(t) ==
  /\ t # current
  /\ state[t] = "BLOCKED"
  /\ rq' = Woken(rq, t)
  /\ readyCount' = readyCount + 1
  /\ UNCHANGED << current, exited >>

\* The effect of scheduler_unqueue_task: nothing happens to a task that is
\* neither RUNNING nor READY.
Unqueueable(t) == state[t] \in {"RUNNING", "READY"}

\* Wrong variant: a task that runs is taken to be in no queue.
BadUnqueue(t) == rq

scheduler_unqueue_task(t) == IF Unqueueable(t) THEN mlfq_dequeue(rq, t) ELSE rq

\* task_wait, on the path where no child has exited: scheduler_unqueue_task
\* and then state = BLOCKED.  The call returns, so the task stays current
\* until its quantum ends.
BlockSelf ==
  /\ CanCall(current)
  /\ rq' = [scheduler_unqueue_task(current) EXCEPT !.state[current] = "BLOCKED"]
  /\ readyCount' = IF Unqueueable(current) THEN readyCount - Counted(current) ELSE readyCount
  /\ UNCHANGED << current, exited >>

\* task_exit: the state is set and nothing else; no queue is touched.
Zombified == [rq EXCEPT !.state[current] = "ZOMBIE"]

ExitSelf ==
  /\ CanCall(current)
  /\ rq' = Zombified
  /\ exited' = exited \cup {current}
  /\ UNCHANGED << current, readyCount >>

\* task_exit of a task whose parent t waits for its children.
ExitAndWake(t) ==
  /\ CanCall(current)
  /\ t # current
  /\ state[t] = "BLOCKED"
  /\ rq' = Woken(Zombified, t)
  /\ readyCount' = readyCount + 1
  /\ exited' = exited \cup {current}
  /\ UNCHANGED current

\* task_destroy, called by task_wait on a zombie child and by sys_fork on a
\* child whose address space could not be cloned.
Destroy(t) ==
  /\ t # current
  /\ t # Idle
  /\ state[t] \in {"CREATED", "ZOMBIE"}
  /\ rq' = [rq EXCEPT !.state[t] = "DEAD"]
  /\ UNCHANGED << current, readyCount, exited >>

-----------------------------------------------------------------------------
(***************************************************************************)
(* The timer interrupt.                                                    *)
(***************************************************************************)

\* mlfq_tick, then one tick of the current task's quantum.
Charged ==
  LET r == mlfq_tick(rq)
  IN  [r EXCEPT !.left[current] = IF @ > 0 THEN @ - 1 ELSE 0]

\* The quantum is over: a task that is still RUNNING is demoted and requeued.
Expired == IF Charged.state[current] = "RUNNING" THEN mlfq_decay(Charged, current) ELSE Charged

NextTask ==
  LET t == mlfq_pick_highest(Expired)
  IN  IF t = NULL THEN Idle ELSE t

TickKeep ==
  /\ Charged.left[current] > 0
  /\ rq' = Charged
  /\ UNCHANGED << current, readyCount, exited >>

\* Wrong variant: the state that mlfq_decay set to READY is not put right.
BadTickStay ==
  /\ Charged.left[current] = 0
  /\ NextTask = current
  /\ rq' = Expired
  /\ UNCHANGED << current, readyCount, exited >>

\* The task picked is the one that was running; it stays in its queue.
TickStay ==
  /\ Charged.left[current] = 0
  /\ NextTask = current
  /\ rq' = [Expired EXCEPT !.state[current] = "RUNNING"]
  /\ UNCHANGED << current, readyCount, exited >>

TickSwitch ==
  /\ Charged.left[current] = 0
  /\ NextTask # current
  /\ rq' = [mlfq_dequeue(Expired, NextTask) EXCEPT !.state[NextTask] = "RUNNING"]
  /\ current' = NextTask
  /\ UNCHANGED << readyCount, exited >>

scheduler_tick == TickKeep \/ TickStay \/ TickSwitch

-----------------------------------------------------------------------------
Next ==
  \/ scheduler_tick
  \/ BlockSelf
  \/ ExitSelf
  \/ \E t \in Tasks : \/ scheduler_add_task(t)
                      \/ scheduler_remove_task(t)
                      \/ scheduler_wake_task(t)
                      \/ ExitAndWake(t)
                      \/ Destroy(t)

Spec == Init /\ [][Next]_vars

\* The timer keeps interrupting: the PIT is periodic, every interrupt is
\* acknowledged, and kernel tasks and ring 3 run with IF set.
\* (A tick is possible in every state, so weak fairness is just this.)
FairSpec == Spec /\ []<><<scheduler_tick>>_vars
-----------------------------------------------------------------------------
(***************************************************************************)
(* Invariants.                                                             *)
(***************************************************************************)

\* The variables stay within the C types that scheduler.c and mlfq.c give them.
TypeOK ==
  /\ rq \in RunQueues
  /\ current \in Tasks
  /\ readyCount \in Int
  /\ exited \in SUBSET Tasks

\* The ready queues are well formed whatever calls and ticks interleave: no
\* task is linked twice, task->mlfq_level names the queue the task is in, and
\* the bitmap tells which queues have tasks.
QueueWF == WellFormed(rq)

\* A task that is ready is in a queue, so the scheduler can find it: the
\* orphan that the comment in mlfq_decay is about cannot arise.
NoLostTask == \A t \in Tasks : state[t] = "READY" => Queued(rq, t)

\* What waits in a queue is ready, is the task that was picked twice in a row
\* and never left its queue, or is the leftover of an exited task; never a
\* blocked or a new task, which scheduler_wake_task and scheduler_add_task
\* would link a second time.
QueuedIsSchedulable ==
  \A t \in Tasks : Queued(rq, t) => state[t] \notin {"CREATED", "BLOCKED"}

\* Only the current task is RUNNING.
OneRunning == \A t \in Tasks : state[t] = "RUNNING" => t = current

\* The idle task runs or waits in a queue: mlfq_pick_highest never comes back
\* empty-handed, so the fallback in scheduler_tick is never taken.
IdleAvailable ==
  /\ Idle = current \/ Queued(rq, Idle)
  /\ state[Idle] = IF Idle = current THEN "RUNNING" ELSE "READY"

\* No task is owed more ticks than the quantum of the level it is at, and the
\* boost is never overdue.
BudgetBounded ==
  /\ WithinQuantum(rq)
  /\ rq.ticks < BoostInterval

\* A task that makes calls is RUNNING or, after task_wait, BLOCKED.
CallerState == current \notin exited => state[current] \in {"RUNNING", "BLOCKED"}

\* The inductive invariant.
Inv ==
  /\ TypeOK
  /\ QueueWF
  /\ NoLostTask
  /\ QueuedIsSchedulable
  /\ OneRunning
  /\ IdleAvailable
  /\ BudgetBounded
  /\ CallerState

\* The tasks that can use the CPU, the idle task aside.
Runnable == {t \in Tasks \ {Idle} : state[t] \in {"READY", "RUNNING"}}

\* g_ready_count never falls below the number of runnable tasks, so the
\* unsigned decrements of scheduler.c never wrap.
CountNeverShort == readyCount >= Cardinality(Runnable)

(***************************************************************************)
(* Action and temporal properties.                                         *)
(***************************************************************************)

\* Right after a periodic boost every queued task is at level 0, but for the
\* one whose quantum ended on the same tick and was demoted from there.
BoostPromotesQueued ==
  [][rq.ticks + 1 >= BoostInterval /\ scheduler_tick =>
       \A t \in Tasks : Queued(rq', t) /\ rq'.level[t] # 0 => t = current]_vars

\* Between boosts a task that stays runnable is never promoted: only a wake-up
\* or the boost moves it to a level with a smaller number.
OnlyBoostPromotes ==
  [][\A t \in Tasks : rq'.level[t] < rq.level[t] =>
        rq'.ticks = 0 \/ state[t] \in {"BLOCKED", "CREATED"}]_vars

\* No starvation: a ready task runs, unless it is removed, however the other
\* tasks block, wake and use up their quanta.
ReadyRuns ==
  \A t \in Tasks : state[t] = "READY" ~> state[t] # "READY"

\* scheduler.c says of the idle task that it "only runs when no other tasks
\* are ready".
IdleOnlyWhenNothingReady ==
  [][current' = Idle /\ current # Idle =>
       \A t \in Tasks \ {Idle} : rq'.state[t] # "READY"]_vars
=============================================================================
