------------------------------ MODULE TaskLife ------------------------------
(***************************************************************************)
(* The life of a task: fork, exit, wait and reaping, as in                 *)
(* src/src/kernel/task.c and the system calls sys_fork, sys_exit and       *)
(* sys_wait of src/src/kernel/syscall.c, over the scheduler.               *)
(*                                                                         *)
(* Two kinds of task differ in what follows task_exit.  sys_exit executes  *)
(* hlt with the interrupt flag that SYSCALL cleared, so no timer interrupt *)
(* is delivered any more: the machine stops.  A kernel-mode task           *)
(* (cmd_exit of user/shell.c) executes hlt with interrupts on and is       *)
(* preempted.  PCBs are not reused: a freed one keeps its contents, which  *)
(* is what the kernel still reads through a stale pointer to it.           *)
(***************************************************************************)
EXTENDS Scheduler, SequencesExt

CONSTANTS
  InitTask,    \* g_init_task: the task with PID 1
  KernelTasks  \* the tasks with is_kernel set

ASSUME InitTaskIsATask == InitTask \in Tasks \ {Idle}

ASSUME KernelTasksAreTasks == KernelTasks \subseteq Tasks

VARIABLES
  parent,    \* task->parent
  children,  \* task->children, linked by sibling_next: head first
  waiting,   \* task->is_waiting_for_children
  freed,     \* the PCBs that task_destroy returned to the slab allocator
  halted     \* the CPU executes hlt with interrupts off

family == << parent, children, waiting, freed, halted >>

lifeVars == << vars, family >>

LifeInit ==
  /\ Init
  /\ parent = [t \in Tasks |-> NULL]
  /\ children = [t \in Tasks |-> << >>]
  /\ waiting = [t \in Tasks |-> FALSE]
  /\ freed = {}
  /\ halted = FALSE

\* kernel_main creates the first task and adds it before the first sti.
Boot ==
  /\ ~halted
  /\ current = Idle
  /\ scheduler_add_task(InitTask)
  /\ UNCHANGED family

-----------------------------------------------------------------------------
(***************************************************************************)
(* Families are made by sys_fork, for user tasks, and with the same        *)
(* assignments by the tests in src/src/tests/test_zombie.c, for kernel     *)
(* tasks.  All of these calls run with interrupts off.                     *)
(***************************************************************************)

\* sys_fork links the new PCB to its parent before it clones the address space.
Adopted(c) ==
  /\ ~halted
  /\ CanCall(current)
  /\ c \notin {Idle, InitTask}
  /\ parent' = [parent EXCEPT ![c] = current]
  /\ children' = [children EXCEPT ![current] = << c >> \o @]
  /\ UNCHANGED << waiting, halted >>

sys_fork(c) ==
  /\ Adopted(c)
  /\ scheduler_add_task(c)
  /\ UNCHANGED freed

\* vmm_clone_address_space failed: the child is destroyed, its links stay.
sys_fork_fails(c) ==
  /\ state[c] = "CREATED"
  /\ Adopted(c)
  /\ Destroy(c)
  /\ freed' = freed \cup {c}

\* Wrong variant: the children stay linked to the task that exits.
BadReparentNot(t) == UNCHANGED << parent, children >>

\* Wrong variant: the old list of children is not emptied.
BadReparentKeeps(t) ==
  /\ parent' = [c \in Tasks |-> IF c \in Range(children[t]) THEN InitTask ELSE parent[c]]
  /\ children' = [children EXCEPT ![InitTask] = Reverse(children[t]) \o @]

\* Wrong variant: the whole list is linked in as if it were one task.
BadReparentNests(t) ==
  /\ parent' = [c \in Tasks |-> IF c \in Range(children[t]) THEN InitTask ELSE parent[c]]
  /\ children' = [children EXCEPT ![InitTask] = << children[t] >> \o @, ![t] = << >>]

\* task_reparent_children pushes the children, one by one, on init's list.
task_reparent_children(t) ==
  /\ parent' = [c \in Tasks |-> IF c \in Range(children[t]) THEN InitTask ELSE parent[c]]
  /\ children' = [children EXCEPT ![InitTask] = Reverse(children[t]) \o @, ![t] = << >>]

\* Wrong variant: the state of the child is tested, not the parent's.
BadParentToWake(t) ==
  /\ parent[t] # NULL
  /\ waiting[parent[t]]
  /\ state[t] = "BLOCKED"

\* Must the exiting task t wake its parent?
ParentToWake(t) ==
  /\ parent[t] # NULL
  /\ waiting[parent[t]]
  /\ state[parent[t]] = "BLOCKED"

\* task_exit and the hlt that its callers sys_exit and cmd_exit execute next.
task_exit ==
  /\ ~halted
  /\ current # InitTask
  /\ task_reparent_children(current)
  /\ IF ParentToWake(current)
     THEN /\ ExitAndWake(parent[current])
          /\ waiting' = [waiting EXCEPT ![parent[current]] = FALSE]
     ELSE ExitSelf /\ UNCHANGED waiting
  /\ halted' = (current \notin KernelTasks)
  /\ UNCHANGED freed

\* The exit of PID 1 ends in cli; hlt.  Its children are moved to its own list,
\* which is then emptied.
init_exit ==
  /\ ~halted
  /\ current = InitTask
  /\ ExitSelf
  /\ children' = [children EXCEPT ![InitTask] = << >>]
  /\ halted' = TRUE
  /\ UNCHANGED << parent, waiting, freed >>

\* Where the zombies are on the list of children.
Zombies(t) == {i \in 1..Len(children[t]) : state[children[t][i]] = "ZOMBIE"}

\* Wrong variant: any zombie of the system is reaped.
BadReap ==
  \E c \in Tasks :
    /\ ~halted
    /\ CanCall(current)
    /\ state[c] = "ZOMBIE"
    /\ Destroy(c)
    /\ freed' = freed \cup {c}
    /\ UNCHANGED << parent, children, waiting, halted >>

\* task_wait finds a zombie child, the first on the list; unlinks and destroys it.
task_wait_reaps ==
  \E i \in Zombies(current) :
    /\ ~halted
    /\ CanCall(current)
    /\ \A j \in Zombies(current) : i <= j
    /\ Destroy(children[current][i])
    /\ children' = [children EXCEPT ![current] = RemoveAt(@, i)]
    /\ freed' = freed \cup {children[current][i]}
    /\ UNCHANGED << parent, waiting, halted >>

\* Wrong variant: the flag that task_exit looks at is not set.
BadWaitNoFlag ==
  /\ ~halted
  /\ Zombies(current) = {}
  /\ children[current] # << >>
  /\ BlockSelf
  /\ UNCHANGED family

\* Wrong variant: the task is marked BLOCKED and left in its queue.
BadWaitStaysQueued ==
  /\ ~halted
  /\ Zombies(current) = {}
  /\ children[current] # << >>
  /\ CanCall(current)
  /\ rq' = [rq EXCEPT !.state[current] = "BLOCKED"]
  /\ waiting' = [waiting EXCEPT ![current] = TRUE]
  /\ UNCHANGED << current, readyCount, exited, parent, children, freed, halted >>

\* task_wait finds children but no zombie.  (With no children at all it
\* returns -1 and changes nothing.)
task_wait_blocks ==
  /\ ~halted
  /\ Zombies(current) = {}
  /\ children[current] # << >>
  /\ BlockSelf
  /\ waiting' = [waiting EXCEPT ![current] = TRUE]
  /\ UNCHANGED << parent, children, freed, halted >>

LifeTick == ~halted /\ scheduler_tick /\ UNCHANGED family

LifeNext ==
  \/ LifeTick
  \/ Boot
  \/ \E c \in Tasks : sys_fork(c) \/ sys_fork_fails(c)
  \/ task_exit
  \/ init_exit
  \/ task_wait_reaps
  \/ task_wait_blocks

LifeSpec == LifeInit /\ [][LifeNext]_lifeVars

\* The timer interrupt is delivered as long as the CPU accepts interrupts.
LifeFairSpec == LifeSpec /\ WF_lifeVars(LifeTick)
-----------------------------------------------------------------------------
Exists(t) == t \notin freed

\* The family links stay in the types task.h gives them.
LifeTypeOK ==
  /\ parent \in [Tasks -> Tasks \cup {NULL}]
  /\ children \in [Tasks -> Seq(Tasks)]
  /\ waiting \in [Tasks -> BOOLEAN]
  /\ freed \in SUBSET Tasks
  /\ halted \in BOOLEAN

\* The parent pointers and the lists of children agree: every task that exists
\* and has a parent is on that parent's list, exactly once, and on no other,
\* through forks, failed forks, reparenting and reaping, until init exits.
FamilyTree ==
  \A c \in Tasks : Exists(c) /\ InitTask \notin exited =>
    \A p \in Tasks :
      Cardinality({i \in DOMAIN children[p] : children[p][i] = c})
        = IF parent[c] = p THEN 1 ELSE 0

\* No task that exists is left with a parent that has exited or was freed:
\* task_exit hands the children over to init (task.h, "ensure no task becomes
\* an orphan without a parent to reap it").
NoOrphans ==
  \A c \in Tasks : Exists(c) /\ parent[c] # NULL /\ parent[c] # InitTask =>
    Exists(parent[c]) /\ parent[c] \notin exited

\* A BLOCKED task can be woken: its waiting flag is set, and task_exit of a
\* child looks at that flag first.
BlockedIsWaiting == \A t \in Tasks : state[t] = "BLOCKED" => waiting[t]

\* A task is freed once, and only by the task that is its parent at the time.
FreedByParent ==
  [][\A t \in freed' \ freed : parent'[t] = current /\ t # current]_lifeVars

\* A waiting task other than init has no unreaped zombie: the exit of a child
\* wakes its parent, so an exit is never missed between the search for a zombie
\* and the block.
NoMissedExit ==
  \A p \in Tasks \ {InitTask} : state[p] = "BLOCKED" => Zombies(p) = {}

(***************************************************************************)
(* What the comments say, and the code does not do.                        *)
(***************************************************************************)

\* task.c: "scheduler will remove from MLFQ": no freed task is in a queue.
FreedIsNotQueued == \A t \in freed : ~Queued(rq, t)

\* task.h: task_exit "notifies the parent if waiting": unless init itself exits,
\* a task that is ready, such as the parent just notified, gets the CPU.
NotifiedParentRuns ==
  \A t \in Tasks : state[t] = "READY" ~> state[t] # "READY" \/ InitTask \in exited
=============================================================================
