----------------------------- MODULE MCScheduler -----------------------------
(* Small instances of Scheduler. *)
EXTENDS Scheduler, TLC

CONSTANTS t1, t2, t3

\* The quanta keep the order of the code's {2,4,8,16}, scaled down.
MCQuantum == <<1, 1, 2, 3>>

MCQuanta == [l \in Levels |-> MCQuantum[l + 1]]

\* One tick at every level: the fewest states in which levels still matter.
MCUnitQuanta == [l \in Levels |-> 1]

\* For liveness: every task has been added, and tasks tick, block, wake and exit
\* for ever.  (Tasks that are removed or destroyed only leave more CPU.)
LiveInit ==
  /\ rq = [[mlfq_init EXCEPT !.queue[0] = <<t1, t2, t3>>,
                             !.queue[MLFQ_LEVELS - 1] = <<Idle>>,
                             !.bitmap = {0, MLFQ_LEVELS - 1},
                             !.level[Idle] = MLFQ_LEVELS - 1,
                             !.left = [t \in Tasks |-> 1]]
             EXCEPT !.state = [t \in Tasks |-> IF t = Idle THEN "RUNNING" ELSE "READY"]]
  /\ current = Idle
  /\ readyCount = 3
  /\ exited = {}

LiveNext ==
  \/ scheduler_tick
  \/ BlockSelf
  \/ ExitSelf
  \/ \E t \in Tasks : scheduler_wake_task(t)

LiveSpec == LiveInit /\ [][LiveNext]_vars /\ []<><<scheduler_tick>>_vars

MCSymmetry == Permutations(Tasks \ {Idle})
=============================================================================
