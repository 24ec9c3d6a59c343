--------------------------- MODULE TaskLifeProofs ---------------------------
(***************************************************************************)
(* TLAPS proofs about TaskLife: fork, exit, wait and reaping use the       *)
(* scheduler as Scheduler allows, so what is proved of the scheduler holds *)
(* of the whole life cycle.                                                *)
(***************************************************************************)
EXTENDS TaskLife, SchedulerProofs

\* The family links are well typed before the first fork.
LEMMA LifeInitType == LifeInit => LifeTypeOK
<1> SUFFICES ASSUME LifeInit PROVE LifeTypeOK
  OBVIOUS
<1>1. << >> \in Seq(Tasks)
  OBVIOUS
<1>2. children \in [Tasks -> Seq(Tasks)]
  BY <1>1 DEF LifeInit
<1>3. parent \in [Tasks -> Tasks \cup {NULL}] /\ waiting \in [Tasks -> BOOLEAN]
  BY DEF LifeInit
<1> QED BY <1>2, <1>3 DEF LifeInit, LifeTypeOK

\* Linking, reparenting and unlinking keep the links well typed.
LEMMA LifeNextType == TypeOK /\ LifeTypeOK /\ [LifeNext]_lifeVars => LifeTypeOK'
<1> SUFFICES ASSUME TypeOK, LifeTypeOK, [LifeNext]_lifeVars PROVE LifeTypeOK'
  OBVIOUS
<1> USE DEF LifeTypeOK
<1>0. current \in Tasks
  BY DEF TypeOK
<1>1. ASSUME UNCHANGED family PROVE LifeTypeOK'
  BY <1>1 DEF family
<1>2. CASE LifeTick \/ Boot
  BY <1>1, <1>2 DEF LifeTick, Boot
<1>3. ASSUME NEW c \in Tasks, sys_fork(c) \/ sys_fork_fails(c) PROVE LifeTypeOK'
  <2>1. << c >> \o children[current] \in Seq(Tasks)
    BY <1>0
  <2>2. Adopted(c) /\ freed' \in SUBSET Tasks
    BY <1>3 DEF sys_fork, sys_fork_fails
  <2> QED BY <2>1, <2>2, <1>0 DEF Adopted
<1>4. CASE task_exit
  <2>1. Reverse(children[current]) \o children[InitTask] \in Seq(Tasks)
    <3>1. Reverse(children[current]) \in Seq(Tasks)
      BY <1>0 DEF Reverse
    <3> QED BY <3>1, InitTaskIsATask
  <2>2a. parent' \in [Tasks -> Tasks \cup {NULL}]
    BY <1>4, InitTaskIsATask DEF task_exit, task_reparent_children
  <2>2b. << >> \in Seq(Tasks)
    OBVIOUS
  <2>2c. children' = [children EXCEPT
                        ![InitTask] = Reverse(children[current]) \o @, ![current] = << >>]
    BY <1>4 DEF task_exit, task_reparent_children
  <2>2d. current # InitTask
    BY <1>4 DEF task_exit
  <2>2. children' \in [Tasks -> Seq(Tasks)]
    BY <2>1, <2>2b, <2>2c, <2>2d, <1>0, InitTaskIsATask
  <2>3. waiting' \in [Tasks -> BOOLEAN]
    BY <1>4 DEF task_exit
  <2> QED BY <1>4, <2>2a, <2>2, <2>3 DEF task_exit
<1>5. CASE init_exit
  <2>1. << >> \in Seq(Tasks)
    OBVIOUS
  <2>2. children' \in [Tasks -> Seq(Tasks)]
    BY <1>5, <2>1 DEF init_exit
  <2> QED BY <1>5, <2>2 DEF init_exit
<1>6. CASE task_wait_reaps
  <2>1. PICK i \in Zombies(current) :
           /\ children' = [children EXCEPT ![current] = RemoveAt(@, i)]
           /\ freed' = freed \cup {children[current][i]}
           /\ UNCHANGED << parent, waiting, halted >>
    BY <1>6 DEF task_wait_reaps
  <2>2. children[current] \in Seq(Tasks) /\ i \in 1..Len(children[current])
    BY <1>0 DEF Zombies
  <2>3. RemoveAt(children[current], i) \in Seq(Tasks)
    BY <2>2 DEF RemoveAt
  <2>4. children[current][i] \in Tasks
    BY <2>2
  <2> QED BY <2>1, <2>3, <2>4
<1>7. CASE task_wait_blocks
  BY <1>7 DEF task_wait_blocks
<1>8. CASE UNCHANGED lifeVars
  BY <1>1, <1>8 DEF lifeVars
<1> QED BY <1>2, <1>3, <1>4, <1>5, <1>6, <1>7, <1>8 DEF LifeNext

\* Every call of task.c and every tick is a step of the scheduler's
\* specification.
LEMMA LifeNextIsNext == TypeOK /\ LifeTypeOK /\ [LifeNext]_lifeVars => [Next]_vars
<1> SUFFICES ASSUME TypeOK, LifeTypeOK, [LifeNext]_lifeVars PROVE [Next]_vars
  OBVIOUS
<1>1. CASE LifeTick
  BY <1>1 DEF LifeTick, Next
<1>2. CASE Boot
  BY <1>2, InitTaskIsATask DEF Boot, Next
<1>3. ASSUME NEW c \in Tasks, sys_fork(c) PROVE Next
  BY <1>3 DEF sys_fork, Next
<1>4. ASSUME NEW c \in Tasks, sys_fork_fails(c) PROVE Next
  BY <1>4 DEF sys_fork_fails, Next
<1>5. CASE task_exit
  <2>1. CASE ParentToWake(current)
    <3>1. ExitAndWake(parent[current])
      BY <1>5, <2>1 DEF task_exit
    <3>2. parent[current] \in Tasks
      BY <2>1 DEF ParentToWake, TypeOK, LifeTypeOK
    <3> QED BY <3>1, <3>2 DEF Next
  <2>2. CASE ~ParentToWake(current)
    BY <1>5, <2>2 DEF task_exit, Next
  <2> QED BY <2>1, <2>2
<1>6. CASE init_exit
  BY <1>6 DEF init_exit, Next
<1>7. CASE task_wait_reaps
  <2>1. PICK i \in Zombies(current) : Destroy(children[current][i])
    BY <1>7 DEF task_wait_reaps
  <2>2. children[current][i] \in Tasks
    BY DEF Zombies, TypeOK, LifeTypeOK
  <2> QED BY <2>1, <2>2 DEF Next
<1>8. CASE task_wait_blocks
  BY <1>8 DEF task_wait_blocks, Next
<1>9. CASE UNCHANGED lifeVars
  BY <1>9 DEF lifeVars
<1> QED BY <1>1, <1>2, <1>3, <1>4, <1>5, <1>6, <1>7, <1>8, <1>9 DEF LifeNext

\* The life cycle implements the scheduler's specification, with the identity
\* as refinement mapping.
THEOREM LifeImplementsScheduler == LifeSpec => Spec
<1> DEFINE J == Inv /\ LifeTypeOK
<1>1. LifeInit => Init /\ J
  BY InitInv, LifeInitType DEF LifeInit
<1>2. Inv => TypeOK
  BY DEF Inv
<1>3. J /\ [LifeNext]_lifeVars => [Next]_vars /\ J'
  BY <1>2, LifeNextIsNext, LifeNextType, NextInv
<1> QED BY <1>1, <1>3, PTL DEF LifeSpec, Spec

\* Through every fork, exit, wait and reap the scheduler's invariant holds.
THEOREM LifeKeepsSchedulerInv == LifeSpec => []Inv
BY LifeImplementsScheduler, SchedulerInv, PTL

\* The family links keep their types.
THEOREM LifeTypes == LifeSpec => []LifeTypeOK
<1>1. LifeInit => LifeTypeOK
  BY LifeInitType
<1>2. Inv => TypeOK
  BY DEF Inv
<1>3. Inv /\ LifeTypeOK /\ [LifeNext]_lifeVars => LifeTypeOK'
  BY <1>2, LifeNextType
<1> QED BY <1>1, <1>3, LifeKeepsSchedulerInv, PTL DEF LifeSpec
=============================================================================
