--------------------------- MODULE SchedulerProofs ---------------------------
(***************************************************************************)
(* TLAPS proofs about Scheduler, for any set of tasks, any quanta and any  *)
(* boost interval.                                                         *)
(***************************************************************************)
EXTENDS Scheduler, TLAPS

\* No task occurs twice in q.
Distinct(q) == \A i, j \in 1..Len(q) : q[i] = q[j] => i = j

(***************************************************************************)
(* What each function of mlfq.c does to a well-formed set of queues.       *)
(***************************************************************************)

\* Unlinking a task that occurs once leaves the others, in order.
LEMMA UnlinkFacts ==
  ASSUME NEW q \in Seq(Tasks), NEW t \in Tasks, InQueue(q, t), Distinct(q)
  PROVE  /\ FirstAt(q, t) \in 1..Len(q)
         /\ q[FirstAt(q, t)] = t
         /\ Unlink(q, t) \in Seq(Tasks)
         /\ Len(Unlink(q, t)) = Len(q) - 1
         /\ \A i \in 1..(Len(q) - 1) :
              Unlink(q, t)[i] = IF i < FirstAt(q, t) THEN q[i] ELSE q[i + 1]
         /\ \A u \in Tasks : InQueue(Unlink(q, t), u) <=> InQueue(q, u) /\ u # t
<1>1. PICK k \in 1..Len(q) : q[k] = t
  BY DEF InQueue
<1>2. \A j \in 1..(k - 1) : q[j] # t
  BY <1>1 DEF Distinct
<1>3. FirstAt(q, t) \in 1..Len(q) /\ q[FirstAt(q, t)] = t
  BY <1>1, <1>2 DEF FirstAt
<1> DEFINE p == FirstAt(q, t)
           n == Len(q) - 1
           s == Unlink(q, t)
<1>4. p \in 1..Len(q) /\ q[p] = t
  BY <1>3
<1> HIDE DEF p
<1>5. s = [i \in 1..n |-> IF i < p THEN q[i] ELSE q[i + 1]]
  BY DEF s, Unlink, p
<1>6. n \in Nat /\ \A i \in 1..n : i \in 1..Len(q) /\ i + 1 \in 1..Len(q)
  BY <1>4
<1>7. \A i \in 1..n : (IF i < p THEN q[i] ELSE q[i + 1]) \in Tasks
  BY <1>6
<1>8. s \in Seq(Tasks) /\ Len(s) = n
  BY <1>5, <1>6, <1>7
<1>9. \A i \in 1..n : s[i] = IF i < p THEN q[i] ELSE q[i + 1]
  BY <1>5
<1>10. ASSUME NEW u \in Tasks
       PROVE  InQueue(s, u) <=> InQueue(q, u) /\ u # t
  <2>1. ASSUME InQueue(s, u) PROVE InQueue(q, u) /\ u # t
    <3>1. PICK i \in 1..n : s[i] = u
      BY <2>1, <1>8 DEF InQueue
    <3>2. PICK j \in 1..Len(q) : q[j] = u /\ j # p
      <4>1. CASE i < p
        BY <3>1, <4>1, <1>9, <1>6
      <4>2. CASE ~(i < p)
        BY <3>1, <4>2, <1>9, <1>6, <1>4
      <4> QED BY <4>1, <4>2
    <3> QED BY <3>2, <1>4 DEF InQueue, Distinct
  <2>2. ASSUME InQueue(q, u), u # t PROVE InQueue(s, u)
    <3>1. PICK i \in 1..Len(q) : q[i] = u
      BY <2>2 DEF InQueue
    <3>2. i # p
      BY <3>1, <2>2, <1>4
    <3>3. CASE i < p
      <4>1. i \in 1..n /\ s[i] = u
        BY <3>1, <3>3, <1>4, <1>9
      <4> QED BY <4>1, <1>8 DEF InQueue
    <3>4. CASE i > p
      <4>1. i - 1 \in 1..n /\ s[i - 1] = u
        BY <3>1, <3>4, <1>4, <1>9
      <4> QED BY <4>1, <1>8 DEF InQueue
    <3> QED BY <3>2, <3>3, <3>4, <1>4
  <2> QED BY <2>1, <2>2
<1> QED BY <1>4, <1>8, <1>9, <1>10 DEF p, s

\* mlfq_enqueue of a task that is in no queue adds that task and makes it READY.
LEMMA EnqueueFacts ==
  ASSUME NEW r \in RunQueues, WellFormed(r), NEW t \in Tasks, ~Queued(r, t),
         NEW l \in Levels
  PROVE  LET s == mlfq_enqueue(r, t, l)
         IN  /\ s \in RunQueues
             /\ WellFormed(s)
             /\ \A u \in Tasks : Queued(s, u) <=> Queued(r, u) \/ u = t
             /\ s.state = [r.state EXCEPT ![t] = "READY"]
             /\ s.level = [r.level EXCEPT ![t] = l]
             /\ s.ticks = r.ticks
             /\ WithinQuantum(r) => WithinQuantum(s)
<1> DEFINE s == mlfq_enqueue(r, t, l)
           q == r.queue[l]
<1>1. /\ s.queue = [r.queue EXCEPT ![l] = Append(q, t)]
      /\ s.bitmap = r.bitmap \cup {l}
      /\ s.level = [r.level EXCEPT ![t] = l]
      /\ s.left = [r.left EXCEPT ![t] = Quantum[l]]
      /\ s.state = [r.state EXCEPT ![t] = "READY"]
      /\ s.ticks = r.ticks
  BY DEF mlfq_enqueue, RunQueues
<1>2. q \in Seq(Tasks) /\ Append(q, t) \in Seq(Tasks)
  BY DEF RunQueues
<1>3. Quantum[l] \in Nat
  BY QuantumPositive
<1>4. s \in RunQueues
  BY <1>2, <1>3 DEF mlfq_enqueue, RunQueues, States
<1> HIDE DEF s
<1>5. /\ s.queue[l] = Append(q, t)
      /\ Len(s.queue[l]) = Len(q) + 1
      /\ \A i \in 1..Len(q) : s.queue[l][i] = q[i]
      /\ s.queue[l][Len(q) + 1] = t
      /\ \A m \in Levels \ {l} : s.queue[m] = r.queue[m]
  BY <1>1, <1>2 DEF RunQueues
<1>6. \A m \in Levels : \A i \in 1..Len(r.queue[m]) : r.queue[m][i] \in Tasks /\ r.queue[m][i] # t
  BY DEF Queued, InQueue, RunQueues
<1>7. \A m \in Levels : \A i \in 1..Len(s.queue[m]) :
         \/ i \in 1..Len(r.queue[m]) /\ s.queue[m][i] = r.queue[m][i]
         \/ m = l /\ i = Len(q) + 1 /\ s.queue[m][i] = t
  <2> SUFFICES ASSUME NEW m \in Levels, NEW i \in 1..Len(s.queue[m])
               PROVE  \/ i \in 1..Len(r.queue[m]) /\ s.queue[m][i] = r.queue[m][i]
                      \/ m = l /\ i = Len(q) + 1 /\ s.queue[m][i] = t
    OBVIOUS
  <2>1. CASE m # l
    BY <2>1, <1>5
  <2>2. CASE m = l
    BY <2>2, <1>5, <1>2
  <2> QED BY <2>1, <2>2
<1>8. NoDuplicates(s)
  <2> SUFFICES ASSUME NEW a \in Levels, NEW b \in Levels,
                      NEW i \in 1..Len(s.queue[a]), NEW j \in 1..Len(s.queue[b]),
                      s.queue[a][i] = s.queue[b][j]
               PROVE  a = b /\ i = j
    BY DEF NoDuplicates
  <2>1. NoDuplicates(r)
    BY DEF WellFormed
  <2>2. \/ i \in 1..Len(r.queue[a]) /\ s.queue[a][i] = r.queue[a][i]
        \/ a = l /\ i = Len(q) + 1 /\ s.queue[a][i] = t
    BY <1>7
  <2>3. \/ j \in 1..Len(r.queue[b]) /\ s.queue[b][j] = r.queue[b][j]
        \/ b = l /\ j = Len(q) + 1 /\ s.queue[b][j] = t
    BY <1>7
  <2>4. CASE s.queue[a][i] = t
    BY <2>2, <2>3, <2>4, <1>6
  <2>5. CASE s.queue[a][i] # t
    BY <2>1, <2>2, <2>3, <2>5 DEF NoDuplicates
  <2> QED BY <2>4, <2>5
<1>9. LevelTags(s)
  <2> SUFFICES ASSUME NEW m \in Levels, NEW i \in 1..Len(s.queue[m])
               PROVE  s.level[s.queue[m][i]] = m
    BY DEF LevelTags
  <2>1. LevelTags(r)
    BY DEF WellFormed
  <2>2. CASE i \in 1..Len(r.queue[m]) /\ s.queue[m][i] = r.queue[m][i]
    <3>1. r.queue[m][i] \in Tasks /\ r.queue[m][i] # t /\ r.level[r.queue[m][i]] = m
      BY <2>1, <2>2, <1>6 DEF LevelTags
    <3> QED BY <3>1, <2>2, <1>1 DEF RunQueues
  <2>3. CASE m = l /\ s.queue[m][i] = t
    BY <2>3, <1>1 DEF RunQueues
  <2> QED BY <2>2, <2>3, <1>7
<1>10. BitmapExact(s)
  BY <1>1, <1>2, <1>5 DEF WellFormed, BitmapExact
<1>11. ASSUME NEW u \in Tasks
       PROVE  Queued(s, u) <=> Queued(r, u) \/ u = t
  <2>1. ASSUME Queued(s, u) PROVE Queued(r, u) \/ u = t
    BY <2>1, <1>7 DEF Queued, InQueue
  <2>2. ASSUME Queued(r, u) PROVE Queued(s, u)
    <3>1. PICK m \in Levels : \E i \in 1..Len(r.queue[m]) : r.queue[m][i] = u
      BY <2>2 DEF Queued, InQueue
    <3>2. \E i \in 1..Len(s.queue[m]) : s.queue[m][i] = u
      <4>1. CASE m # l
        BY <4>1, <3>1, <1>5
      <4>2. CASE m = l
        BY <4>2, <3>1, <1>5, <1>2
      <4> QED BY <4>1, <4>2
    <3> QED BY <3>2 DEF Queued, InQueue
  <2>3. Queued(s, t)
    <3>1. Len(q) + 1 \in 1..Len(s.queue[l])
      BY <1>5, <1>2
    <3> QED BY <3>1, <1>5 DEF Queued, InQueue
  <2> QED BY <2>1, <2>2, <2>3
<1>12. WithinQuantum(r) => WithinQuantum(s)
  <2> SUFFICES ASSUME WithinQuantum(r), NEW u \in Tasks
               PROVE  s.left[u] <= Quantum[s.level[u]]
    BY DEF WithinQuantum
  <2>1. CASE u = t
    BY <2>1, <1>1, <1>3 DEF RunQueues
  <2>2. CASE u # t
    <3>1. s.left[u] = r.left[u] /\ s.level[u] = r.level[u]
      BY <2>2, <1>1 DEF RunQueues
    <3> QED BY <3>1 DEF WithinQuantum
  <2> QED BY <2>1, <2>2
<1> QED BY <1>1, <1>4, <1>8, <1>9, <1>10, <1>11, <1>12 DEF s, WellFormed

\* mlfq_dequeue takes the task out of the queue it is in and changes nothing
\* else; on a task in no queue it does nothing.
LEMMA DequeueFacts ==
  ASSUME NEW r \in RunQueues, WellFormed(r), NEW t \in Tasks
  PROVE  LET s == mlfq_dequeue(r, t)
         IN  /\ s \in RunQueues
             /\ WellFormed(s)
             /\ \A u \in Tasks : Queued(s, u) <=> Queued(r, u) /\ u # t
             /\ s.state = r.state
             /\ s.level = r.level
             /\ s.left = r.left
             /\ s.ticks = r.ticks
<1> DEFINE s == mlfq_dequeue(r, t)
           l == r.level[t]
           q == r.queue[l]
           d == Unlink(q, t)
<1>1. l \in Levels /\ q \in Seq(Tasks)
  BY DEF RunQueues
<1>2. NoDuplicates(r) /\ LevelTags(r) /\ BitmapExact(r)
  BY DEF WellFormed
<1>3. \A m \in Levels : InQueue(r.queue[m], t) => m = l
  BY <1>2 DEF LevelTags, InQueue
<1>4. CASE ~InQueue(q, t)
  <2>1. s = r
    BY <1>4 DEF mlfq_dequeue
  <2>2. ~Queued(r, t)
    BY <1>3, <1>4 DEF Queued
  <2> QED BY <2>1, <2>2
<1>5. CASE InQueue(q, t)
  <2>1. Distinct(q)
    BY <1>1, <1>2 DEF NoDuplicates, Distinct
  <2>2. /\ FirstAt(q, t) \in 1..Len(q)
        /\ q[FirstAt(q, t)] = t
        /\ d \in Seq(Tasks)
        /\ Len(d) = Len(q) - 1
        /\ \A i \in 1..(Len(q) - 1) : d[i] = IF i < FirstAt(q, t) THEN q[i] ELSE q[i + 1]
        /\ \A u \in Tasks : InQueue(d, u) <=> InQueue(q, u) /\ u # t
    BY <1>1, <1>5, <2>1, UnlinkFacts
  <2> DEFINE p == FirstAt(q, t)
  <2>3. s = [r EXCEPT !.queue[l] = d, !.bitmap = IF Len(d) = 0 THEN @ \ {l} ELSE @]
    BY <1>5 DEF mlfq_dequeue
  <2> HIDE DEF s, d, p
  <2>4. /\ s.queue = [r.queue EXCEPT ![l] = d]
        /\ s.bitmap = IF Len(d) = 0 THEN r.bitmap \ {l} ELSE r.bitmap
        /\ s.level = r.level /\ s.left = r.left /\ s.state = r.state /\ s.ticks = r.ticks
    BY <2>3 DEF RunQueues
  <2>5. s \in RunQueues
    BY <2>2, <2>3 DEF RunQueues
  <2>6. s.queue[l] = d /\ \A m \in Levels \ {l} : s.queue[m] = r.queue[m]
    BY <2>4, <1>1 DEF RunQueues
  \* Every cell of s comes from a cell of r, in the same queue and order.
  <2> DEFINE from(m, i) == IF m # l \/ i < p THEN i ELSE i + 1
  <2>7. ASSUME NEW m \in Levels, NEW i \in 1..Len(s.queue[m])
        PROVE  from(m, i) \in 1..Len(r.queue[m]) /\ s.queue[m][i] = r.queue[m][from(m, i)]
    <3>1. CASE m # l
      BY <3>1, <2>6
    <3>2. CASE m = l
      <4>1. i \in 1..(Len(q) - 1) /\ s.queue[m][i] = d[i]
        BY <3>2, <2>2, <2>6
      <4>2. d[i] = IF i < p THEN q[i] ELSE q[i + 1]
        BY <4>1, <2>2 DEF p
      <4>3. i \in 1..Len(q) /\ i + 1 \in 1..Len(q)
        BY <4>1, <1>1
      <4> QED BY <3>2, <4>1, <4>2, <4>3
    <3> QED BY <3>1, <3>2
  <2>8. NoDuplicates(s)
    <3> SUFFICES ASSUME NEW a \in Levels, NEW b \in Levels,
                        NEW i \in 1..Len(s.queue[a]), NEW j \in 1..Len(s.queue[b]),
                        s.queue[a][i] = s.queue[b][j]
                 PROVE  a = b /\ i = j
      BY DEF NoDuplicates
    <3>1. a = b /\ from(a, i) = from(b, j)
      <4> HIDE DEF from
      <4>1. from(a, i) \in 1..Len(r.queue[a]) /\ s.queue[a][i] = r.queue[a][from(a, i)]
        BY <2>7
      <4>2. from(b, j) \in 1..Len(r.queue[b]) /\ s.queue[b][j] = r.queue[b][from(b, j)]
        BY <2>7
      <4>3. \A x \in 1..Len(r.queue[a]), y \in 1..Len(r.queue[b]) :
               r.queue[a][x] = r.queue[b][y] => a = b /\ x = y
        BY <1>2 DEF NoDuplicates
      <4> QED BY <4>1, <4>2, <4>3
    <3>2. p \in 1..Len(q)
      BY <2>2 DEF p
    <3>3. i \in Int /\ j \in Int /\ p \in Int
      BY <3>2
    <3> QED BY <3>1, <3>3
  <2>9. LevelTags(s)
    <3> HIDE DEF from
    <3> QED BY <2>7, <2>4, <1>2 DEF LevelTags
  <2>10. BitmapExact(s)
    <3> SUFFICES ASSUME NEW m \in Levels
                 PROVE  m \in s.bitmap <=> Len(s.queue[m]) > 0
      BY DEF BitmapExact
    <3>1. m \in r.bitmap <=> Len(r.queue[m]) > 0
      BY <1>2 DEF BitmapExact
    <3>2. CASE m # l
      BY <3>1, <3>2, <2>4, <2>6
    <3>3. CASE m = l
      <4>1. Len(q) > 0 /\ Len(d) \in Nat
        BY <2>2, <1>1
      <4>2. m \in r.bitmap
        BY <3>1, <3>3, <4>1
      <4>3. s.queue[m] = d
        BY <3>3, <2>6
      <4>4. CASE Len(d) = 0
        <5>1. m \notin s.bitmap
          BY <4>4, <3>3, <2>4
        <5> QED BY <5>1, <4>3, <4>4
      <4>5. CASE Len(d) # 0
        <5>1. m \in s.bitmap
          BY <4>2, <4>5, <2>4
        <5> QED BY <5>1, <4>1, <4>3, <4>5
      <4> QED BY <4>4, <4>5
    <3> QED BY <3>2, <3>3
  <2>11. ASSUME NEW u \in Tasks
         PROVE  Queued(s, u) <=> Queued(r, u) /\ u # t
    <3>1. \A m \in Levels : InQueue(s.queue[m], u) <=> InQueue(r.queue[m], u) /\ u # t
      <4> TAKE m \in Levels
      <4>1. CASE m # l
        BY <4>1, <2>6, <1>3
      <4>2. CASE m = l
        BY <4>2, <2>6, <2>2
      <4> QED BY <4>1, <4>2
    <3> QED BY <3>1 DEF Queued
  <2> QED BY <2>4, <2>5, <2>8, <2>9, <2>10, <2>11 DEF s, WellFormed
<1> QED BY <1>4, <1>5

\* Appending one list to another that has no task in common with it.
LEMMA ConcatFacts ==
  ASSUME NEW a \in Seq(Tasks), NEW b \in Seq(Tasks), Distinct(a), Distinct(b),
         \A u \in Tasks : ~(InQueue(a, u) /\ InQueue(b, u))
  PROVE  /\ a \o b \in Seq(Tasks)
         /\ Len(a \o b) = Len(a) + Len(b)
         /\ Distinct(a \o b)
         /\ \A u \in Tasks : InQueue(a \o b, u) <=> InQueue(a, u) \/ InQueue(b, u)
<1> DEFINE c == a \o b
<1>1. /\ c \in Seq(Tasks)
      /\ Len(c) = Len(a) + Len(b)
      /\ \A i \in 1..Len(c) : c[i] = IF i <= Len(a) THEN a[i] ELSE b[i - Len(a)]
  OBVIOUS
<1> HIDE DEF c
<1>2. Len(a) \in Nat /\ Len(b) \in Nat
  OBVIOUS
<1>3. ASSUME NEW i \in 1..Len(c)
      PROVE  /\ c[i] \in Tasks
             /\ \/ i \in 1..Len(a) /\ c[i] = a[i]
                \/ i - Len(a) \in 1..Len(b) /\ c[i] = b[i - Len(a)]
  BY <1>1, <1>2
<1>4. Distinct(c)
  <2> SUFFICES ASSUME NEW i \in 1..Len(c), NEW j \in 1..Len(c), c[i] = c[j]
               PROVE  i = j
    BY DEF Distinct
  <2>1. CASE i \in 1..Len(a) /\ c[i] = a[i] /\ j \in 1..Len(a) /\ c[j] = a[j]
    BY <2>1 DEF Distinct
  <2>2. CASE i - Len(a) \in 1..Len(b) /\ c[i] = b[i - Len(a)] /\ j - Len(a) \in 1..Len(b) /\ c[j] = b[j - Len(a)]
    <3>1. i - Len(a) = j - Len(a)
      BY <2>2 DEF Distinct
    <3> QED BY <3>1, <1>2
  <2>3. CASE i \in 1..Len(a) /\ c[i] = a[i] /\ j - Len(a) \in 1..Len(b) /\ c[j] = b[j - Len(a)]
    BY <2>3, <1>3 DEF InQueue
  <2>4. CASE i - Len(a) \in 1..Len(b) /\ c[i] = b[i - Len(a)] /\ j \in 1..Len(a) /\ c[j] = a[j]
    BY <2>4, <1>3 DEF InQueue
  <2> QED BY <1>3, <2>1, <2>2, <2>3, <2>4
<1>5. ASSUME NEW u \in Tasks
      PROVE  InQueue(c, u) <=> InQueue(a, u) \/ InQueue(b, u)
  <2>1. ASSUME InQueue(c, u) PROVE InQueue(a, u) \/ InQueue(b, u)
    BY <2>1, <1>3 DEF InQueue
  <2>2. ASSUME InQueue(a, u) PROVE InQueue(c, u)
    <3>1. PICK i \in 1..Len(a) : a[i] = u
      BY <2>2 DEF InQueue
    <3>2. i \in 1..Len(c) /\ c[i] = u
      BY <3>1, <1>1, <1>2
    <3> QED BY <3>2 DEF InQueue
  <2>3. ASSUME InQueue(b, u) PROVE InQueue(c, u)
    <3>1. PICK i \in 1..Len(b) : b[i] = u
      BY <2>3 DEF InQueue
    <3>2. /\ i + Len(a) \in 1..Len(c)
          /\ ~(i + Len(a) <= Len(a))
          /\ (i + Len(a)) - Len(a) = i
      BY <1>1, <1>2
    <3>3. c[i + Len(a)] = u
      BY <3>1, <3>2, <1>1
    <3> QED BY <3>2, <3>3 DEF InQueue
  <2> QED BY <2>1, <2>2, <2>3
<1> QED BY <1>1, <1>4, <1>5 DEF c

\* The boost moves every queued task to level 0 with a fresh quantum, keeps
\* every state, and neither loses nor adds a task.
LEMMA BoostFacts ==
  ASSUME NEW r \in RunQueues, WellFormed(r)
  PROVE  LET s == mlfq_boost_all(r)
         IN  /\ s \in RunQueues
             /\ WellFormed(s)
             /\ \A u \in Tasks : Queued(s, u) <=> Queued(r, u)
             /\ \A u \in Tasks : Queued(s, u) => s.level[u] = 0
             /\ s.state = r.state
             /\ s.ticks = 0
             /\ WithinQuantum(r) => WithinQuantum(s)
<1> DEFINE s == mlfq_boost_all(r)
           q0 == r.queue[0]
           q1 == r.queue[1]
           q2 == r.queue[2]
           q3 == r.queue[3]
           c1 == q0 \o q1
           c2 == c1 \o q2
           c3 == c2 \o q3
           moved(t) == \E l \in Levels \ {0} : InQueue(r.queue[l], t)
           level == [t \in Tasks |-> IF moved(t) THEN 0 ELSE r.level[t]]
           left == [t \in Tasks |-> IF moved(t) THEN Quantum[0] ELSE r.left[t]]
           queue == [l \in Levels |-> IF l = 0 THEN c3 ELSE << >>]
           collected == \E l \in Levels \ {0} : Len(r.queue[l]) > 0
           bitmap == (r.bitmap \cap {0}) \cup (IF collected THEN {0} ELSE {})
<1>1. s = [queue |-> queue, bitmap |-> bitmap, level |-> level, left |-> left,
           state |-> r.state, ticks |-> 0]
  BY DEF mlfq_boost_all
<1>2. Levels = {0, 1, 2, 3}
  BY DEF Levels, MLFQ_LEVELS
<1>3. NoDuplicates(r) /\ LevelTags(r) /\ BitmapExact(r)
  BY DEF WellFormed
<1>3a. bitmap = IF r.bitmap = {} THEN {} ELSE {0}
  <2>1. r.bitmap \subseteq Levels
    BY DEF RunQueues
  <2>2. collected <=> \E l \in Levels \ {0} : l \in r.bitmap
    BY <1>3 DEF BitmapExact
  <2> QED BY <1>2, <2>1, <2>2
<1> HIDE DEF bitmap
<1>4. /\ q0 \in Seq(Tasks) /\ q1 \in Seq(Tasks) /\ q2 \in Seq(Tasks) /\ q3 \in Seq(Tasks)
      /\ Distinct(q0) /\ Distinct(q1) /\ Distinct(q2) /\ Distinct(q3)
  <2>1. \A l \in Levels : r.queue[l] \in Seq(Tasks) /\ Distinct(r.queue[l])
    BY <1>3 DEF RunQueues, NoDuplicates, Distinct
  <2> QED BY <2>1, <1>2
<1>5. ASSUME NEW u \in Tasks
      PROVE  /\ ~(InQueue(q0, u) /\ InQueue(q1, u))
             /\ ~((InQueue(q0, u) \/ InQueue(q1, u)) /\ InQueue(q2, u))
             /\ ~((InQueue(q0, u) \/ InQueue(q1, u) \/ InQueue(q2, u)) /\ InQueue(q3, u))
  <2>1. \A l \in Levels : InQueue(r.queue[l], u) => r.level[u] = l
    BY <1>3 DEF LevelTags, InQueue
  <2> QED BY <2>1, <1>2
<1> HIDE DEF q0, q1, q2, q3
<1>6. /\ c1 \in Seq(Tasks) /\ Distinct(c1) /\ Len(c1) = Len(q0) + Len(q1)
      /\ \A u \in Tasks : InQueue(c1, u) <=> InQueue(q0, u) \/ InQueue(q1, u)
  BY <1>4, <1>5, ConcatFacts
<1> HIDE DEF c1
<1>7. /\ c2 \in Seq(Tasks) /\ Distinct(c2) /\ Len(c2) = Len(c1) + Len(q2)
      /\ \A u \in Tasks : InQueue(c2, u) <=> InQueue(c1, u) \/ InQueue(q2, u)
  <2>1. \A u \in Tasks : ~(InQueue(c1, u) /\ InQueue(q2, u))
    BY <1>5, <1>6
  <2> QED BY <2>1, <1>4, <1>6, ConcatFacts
<1> HIDE DEF c2
<1>8. /\ c3 \in Seq(Tasks) /\ Distinct(c3) /\ Len(c3) = Len(c2) + Len(q3)
      /\ \A u \in Tasks : InQueue(c3, u) <=> InQueue(c2, u) \/ InQueue(q3, u)
  <2>1. \A u \in Tasks : ~(InQueue(c2, u) /\ InQueue(q3, u))
    BY <1>5, <1>6, <1>7
  <2> QED BY <2>1, <1>4, <1>7, ConcatFacts
<1> HIDE DEF c3
<1>9. s \in RunQueues
  <2>1. queue \in [Levels -> Seq(Tasks)] /\ bitmap \in SUBSET Levels
    BY <1>2, <1>3a, <1>8
  <2>2. level \in [Tasks -> Levels] /\ left \in [Tasks -> Nat]
    BY <1>2, QuantumPositive DEF RunQueues
  <2> HIDE DEF queue, bitmap, level, left, s
  <2> QED BY <2>1, <2>2, <1>1 DEF RunQueues
<1> HIDE DEF s
<1>10. \A u \in Tasks : InQueue(c3, u) <=> Queued(r, u)
  BY <1>2, <1>6, <1>7, <1>8 DEF Queued, q0, q1, q2, q3
<1>11. s.queue[0] = c3 /\ \A l \in Levels \ {0} : s.queue[l] = << >>
  BY <1>1, <1>2
<1>12. \A u \in Tasks : Queued(s, u) <=> Queued(r, u)
  <2> SUFFICES ASSUME NEW u \in Tasks
               PROVE  Queued(s, u) <=> InQueue(c3, u)
    BY <1>10
  <2>1. \A l \in Levels \ {0} : ~InQueue(s.queue[l], u)
    BY <1>11 DEF InQueue
  <2> QED BY <2>1, <1>2, <1>11 DEF Queued
<1>13. \A u \in Tasks : Queued(r, u) => s.level[u] = 0
  <2> SUFFICES ASSUME NEW u \in Tasks, Queued(r, u)
               PROVE  s.level[u] = 0
    OBVIOUS
  <2>1. CASE moved(u)
    BY <2>1, <1>1
  <2>2. CASE ~moved(u)
    <3>1. InQueue(r.queue[0], u)
      BY <2>2 DEF Queued
    <3>2. r.level[u] = 0
      BY <3>1, <1>2, <1>3 DEF LevelTags, InQueue
    <3> QED BY <3>2, <2>2, <1>1
  <2> QED BY <2>1, <2>2
<1>14. NoDuplicates(s)
  <2> SUFFICES ASSUME NEW a \in Levels, NEW b \in Levels,
                      NEW i \in 1..Len(s.queue[a]), NEW j \in 1..Len(s.queue[b]),
                      s.queue[a][i] = s.queue[b][j]
               PROVE  a = b /\ i = j
    BY DEF NoDuplicates
  <2>1. a = 0 /\ b = 0
    BY <1>11
  <2> QED BY <2>1, <1>8, <1>11 DEF Distinct
<1>15. LevelTags(s)
  <2> SUFFICES ASSUME NEW l \in Levels, NEW i \in 1..Len(s.queue[l])
               PROVE  s.level[s.queue[l][i]] = l
    BY DEF LevelTags
  <2>1. l = 0
    BY <1>11
  <2>2. s.queue[l][i] \in Tasks /\ InQueue(c3, s.queue[l][i])
    BY <2>1, <1>8, <1>11 DEF InQueue
  <2> QED BY <2>1, <2>2, <1>10, <1>13
<1>16. BitmapExact(s)
  <2>1. r.bitmap = {} <=> Len(c3) = 0
    <3>1. Len(q0) \in Nat /\ Len(q1) \in Nat /\ Len(q2) \in Nat /\ Len(q3) \in Nat
      BY <1>4
    <3>2. Len(c3) = 0 <=> Len(q0) = 0 /\ Len(q1) = 0 /\ Len(q2) = 0 /\ Len(q3) = 0
      BY <3>1, <1>6, <1>7, <1>8
    <3>3. r.bitmap \subseteq Levels
      BY DEF RunQueues
    <3>4. r.bitmap = {} <=> \A l \in Levels : ~(Len(r.queue[l]) > 0)
      BY <3>3, <1>3 DEF BitmapExact
    <3>5. (\A l \in Levels : ~(Len(r.queue[l]) > 0))
            <=> ~(Len(q0) > 0) /\ ~(Len(q1) > 0) /\ ~(Len(q2) > 0) /\ ~(Len(q3) > 0)
      BY <1>2 DEF q0, q1, q2, q3
    <3> QED BY <3>1, <3>2, <3>4, <3>5
  <2>2. Len(c3) \in Nat
    BY <1>8
  <2>3. s.bitmap = IF Len(c3) = 0 THEN {} ELSE {0}
    BY <2>1, <1>1, <1>3a
  <2> QED BY <2>2, <2>3, <1>2, <1>11 DEF BitmapExact
<1>17. WithinQuantum(r) => WithinQuantum(s)
  <2> SUFFICES ASSUME WithinQuantum(r), NEW u \in Tasks
               PROVE  s.left[u] <= Quantum[s.level[u]]
    BY DEF WithinQuantum
  <2>1. CASE moved(u)
    BY <2>1, <1>1, <1>2, QuantumPositive
  <2>2. CASE ~moved(u)
    BY <2>2, <1>1 DEF WithinQuantum
  <2> QED BY <2>1, <2>2
<1>18. s.state = r.state /\ s.ticks = 0
  BY <1>1
<1> HIDE DEF queue, bitmap, level, left
<1>19. WellFormed(s)
  BY <1>14, <1>15, <1>16 DEF WellFormed
<1> QED BY <1>9, <1>12, <1>13, <1>17, <1>18, <1>19 DEF s

\* Being in a queue, and the queues' form, do not depend on the states, on the
\* ticks left or on the boost counter.
LEMMA FrameFacts ==
  ASSUME NEW r \in RunQueues, NEW s \in RunQueues,
         s.queue = r.queue, s.bitmap = r.bitmap, s.level = r.level
  PROVE  /\ WellFormed(r) => WellFormed(s)
         /\ \A u \in Tasks : Queued(s, u) <=> Queued(r, u)
<1>1. WellFormed(r) => WellFormed(s)
  BY DEF WellFormed, NoDuplicates, LevelTags, BitmapExact
<1>2. \A u \in Tasks : Queued(s, u) <=> Queued(r, u)
  BY DEF Queued
<1> QED BY <1>1, <1>2

\* An assignment to task->state alone.
LEMMA StateWriteFacts ==
  ASSUME NEW r \in RunQueues, WellFormed(r), NEW t \in Tasks, NEW x \in States
  PROVE  LET s == [r EXCEPT !.state[t] = x]
         IN  /\ s \in RunQueues
             /\ WellFormed(s)
             /\ \A u \in Tasks : Queued(s, u) <=> Queued(r, u)
             /\ s.state = [r.state EXCEPT ![t] = x]
             /\ s.level = r.level
             /\ s.left = r.left
             /\ s.ticks = r.ticks
<1> DEFINE s == [r EXCEPT !.state[t] = x]
<1>1. s \in RunQueues
  BY DEF RunQueues
<1>2. /\ s.queue = r.queue /\ s.bitmap = r.bitmap /\ s.level = r.level
      /\ s.left = r.left /\ s.ticks = r.ticks
      /\ s.state = [r.state EXCEPT ![t] = x]
  BY DEF RunQueues
<1> HIDE DEF s
<1>3. WellFormed(s) /\ \A u \in Tasks : Queued(s, u) <=> Queued(r, u)
  BY <1>1, <1>2, FrameFacts
<1> QED BY <1>1, <1>2, <1>3 DEF s

\* mlfq_pick_highest returns NULL only when every queue is empty; otherwise it
\* returns a queued task.
LEMMA PickFacts ==
  ASSUME NEW r \in RunQueues, WellFormed(r)
  PROVE  /\ mlfq_pick_highest(r) = NULL => \A u \in Tasks : ~Queued(r, u)
         /\ mlfq_pick_highest(r) # NULL =>
              mlfq_pick_highest(r) \in Tasks /\ Queued(r, mlfq_pick_highest(r))
<1>1. BitmapExact(r) /\ r.bitmap \subseteq Levels
  BY DEF WellFormed, RunQueues
<1>2. CASE r.bitmap = {}
  <2>1. mlfq_pick_highest(r) = NULL
    BY <1>2 DEF mlfq_pick_highest
  <2>2. \A u \in Tasks : ~Queued(r, u)
    <3>1. \A l \in Levels : ~(Len(r.queue[l]) > 0)
      BY <1>1, <1>2 DEF BitmapExact
    <3>2. \A l \in Levels : Len(r.queue[l]) \in Nat
      BY DEF RunQueues
    <3> QED BY <3>1, <3>2 DEF Queued, InQueue
  <2> QED BY <2>1, <2>2
<1>3. CASE r.bitmap # {}
  <2> DEFINE top == CHOOSE l \in r.bitmap : \A m \in r.bitmap : l <= m
  <2>1. \E l \in r.bitmap : \A m \in r.bitmap : l <= m
    BY <1>1, <1>3 DEF Levels, MLFQ_LEVELS
  <2>2. top \in r.bitmap
    BY <2>1
  <2>3. mlfq_pick_highest(r) = Head(r.queue[top])
    BY <1>3 DEF mlfq_pick_highest
  <2> HIDE DEF top
  <2>4. top \in Levels /\ r.queue[top] \in Seq(Tasks) /\ Len(r.queue[top]) > 0
    BY <2>2, <1>1 DEF BitmapExact, RunQueues
  <2>5. 1 \in 1..Len(r.queue[top]) /\ Head(r.queue[top]) = r.queue[top][1]
    BY <2>4
  <2>6. Head(r.queue[top]) \in Tasks /\ Queued(r, Head(r.queue[top]))
    BY <2>4, <2>5 DEF Queued, InQueue
  <2> QED BY <2>3, <2>6, IdleIsATask
<1> QED BY <1>2, <1>3

\* mlfq_decay leaves the task queued exactly once, READY, whether or not it was
\* queued before.
LEMMA DecayFacts ==
  ASSUME NEW r \in RunQueues, WellFormed(r), NEW t \in Tasks
  PROVE  LET s == mlfq_decay(r, t)
         IN  /\ s \in RunQueues
             /\ WellFormed(s)
             /\ \A u \in Tasks : Queued(s, u) <=> Queued(r, u) \/ u = t
             /\ s.state = [r.state EXCEPT ![t] = "READY"]
             /\ \A u \in Tasks : u # t => s.level[u] = r.level[u]
             /\ s.ticks = r.ticks
             /\ WithinQuantum(r) => WithinQuantum(s)
<1> DEFINE d == mlfq_dequeue(r, t)
           l == IF r.level[t] >= MLFQ_LEVELS - 1 THEN r.level[t] ELSE r.level[t] + 1
<1>1. l \in Levels
  BY DEF RunQueues, Levels, MLFQ_LEVELS
<1>2. /\ d \in RunQueues /\ WellFormed(d)
      /\ \A u \in Tasks : Queued(d, u) <=> Queued(r, u) /\ u # t
      /\ d.state = r.state /\ d.level = r.level /\ d.left = r.left /\ d.ticks = r.ticks
  BY DequeueFacts
<1>3. mlfq_decay(r, t) = mlfq_enqueue(d, t, l)
  BY DEF mlfq_decay
<1>4. WithinQuantum(r) => WithinQuantum(d)
  BY <1>2 DEF WithinQuantum
<1> HIDE DEF d, l
<1>5. ~Queued(d, t)
  BY <1>2
<1>6. LET s == mlfq_enqueue(d, t, l)
      IN  /\ s \in RunQueues
          /\ WellFormed(s)
          /\ \A u \in Tasks : Queued(s, u) <=> Queued(d, u) \/ u = t
          /\ s.state = [d.state EXCEPT ![t] = "READY"]
          /\ s.level = [d.level EXCEPT ![t] = l]
          /\ s.ticks = d.ticks
          /\ WithinQuantum(d) => WithinQuantum(s)
  BY <1>1, <1>2, <1>5, EnqueueFacts
<1>7. \A u \in Tasks : u # t => [d.level EXCEPT ![t] = l][u] = r.level[u]
  BY <1>2 DEF RunQueues
<1> QED BY <1>2, <1>3, <1>4, <1>6, <1>7

-----------------------------------------------------------------------------
(***************************************************************************)
(* The timer tick.                                                         *)
(***************************************************************************)

\* mlfq_tick keeps the queues well formed and the boost never becomes overdue.
LEMMA TickFacts ==
  ASSUME NEW r \in RunQueues, WellFormed(r), WithinQuantum(r), r.ticks < BoostInterval
  PROVE  LET s == mlfq_tick(r)
         IN  /\ s \in RunQueues
             /\ WellFormed(s)
             /\ WithinQuantum(s)
             /\ s.ticks < BoostInterval
             /\ \A u \in Tasks : Queued(s, u) <=> Queued(r, u)
             /\ s.state = r.state
             /\ r.ticks + 1 >= BoostInterval => \A u \in Tasks : Queued(s, u) => s.level[u] = 0
<1> DEFINE c == [r EXCEPT !.ticks = @ + 1]
<1>1. c \in RunQueues
  <2>1. r.ticks \in Nat /\ r.ticks + 1 \in Nat
    BY DEF RunQueues
  <2> QED BY <2>1 DEF RunQueues
<1>2. /\ c.queue = r.queue /\ c.bitmap = r.bitmap /\ c.level = r.level
      /\ c.left = r.left /\ c.state = r.state /\ c.ticks = r.ticks + 1
  BY DEF RunQueues
<1>3. mlfq_tick(r) = IF c.ticks >= BoostInterval THEN mlfq_boost_all(c) ELSE c
  BY DEF mlfq_tick
<1> HIDE DEF c
<1>4. WellFormed(c) /\ \A u \in Tasks : Queued(c, u) <=> Queued(r, u)
  BY <1>1, <1>2, FrameFacts
<1>5. WithinQuantum(c)
  BY <1>2 DEF WithinQuantum
<1>6. r.ticks \in Nat /\ BoostInterval \in Nat /\ BoostInterval > 0
  BY BoostIntervalPositive DEF RunQueues
<1>7. CASE c.ticks >= BoostInterval
  <2>1. LET s == mlfq_boost_all(c)
        IN  /\ s \in RunQueues
            /\ WellFormed(s)
            /\ \A u \in Tasks : Queued(s, u) <=> Queued(c, u)
            /\ \A u \in Tasks : Queued(s, u) => s.level[u] = 0
            /\ s.state = c.state
            /\ s.ticks = 0
            /\ WithinQuantum(c) => WithinQuantum(s)
    BY <1>1, <1>4, BoostFacts
  <2>2. mlfq_tick(r) = mlfq_boost_all(c)
    BY <1>3, <1>7
  <2> QED BY <2>1, <2>2, <1>2, <1>4, <1>5, <1>6
<1>8. CASE ~(c.ticks >= BoostInterval)
  BY <1>8, <1>1, <1>2, <1>3, <1>4, <1>5, <1>6
<1> QED BY <1>7, <1>8

\* The current task is charged one tick; nothing else changes.
LEMMA ChargedFacts ==
  ASSUME TypeOK, QueueWF, BudgetBounded
  PROVE  /\ Charged \in RunQueues
         /\ WellFormed(Charged)
         /\ WithinQuantum(Charged)
         /\ Charged.ticks < BoostInterval
         /\ \A u \in Tasks : Queued(Charged, u) <=> Queued(rq, u)
         /\ Charged.state = rq.state
         /\ rq.ticks + 1 >= BoostInterval =>
              \A u \in Tasks : Queued(Charged, u) => Charged.level[u] = 0
<1> DEFINE r == mlfq_tick(rq)
           s == [r EXCEPT !.left[current] = IF @ > 0 THEN @ - 1 ELSE 0]
<1>1. /\ rq \in RunQueues /\ current \in Tasks /\ WellFormed(rq) /\ WithinQuantum(rq)
      /\ rq.ticks < BoostInterval
  BY DEF TypeOK, QueueWF, BudgetBounded
<1>2. /\ r \in RunQueues /\ WellFormed(r) /\ WithinQuantum(r) /\ r.ticks < BoostInterval
      /\ \A u \in Tasks : Queued(r, u) <=> Queued(rq, u)
      /\ r.state = rq.state
      /\ rq.ticks + 1 >= BoostInterval => \A u \in Tasks : Queued(r, u) => r.level[u] = 0
  BY <1>1, TickFacts
<1>3. Charged = s
  BY DEF Charged
<1> HIDE DEF r
<1>4. s \in RunQueues
  <2>1. (IF r.left[current] > 0 THEN r.left[current] - 1 ELSE 0) \in Nat
    <3>1. r.left[current] \in Nat
      BY <1>1, <1>2 DEF RunQueues
    <3> QED BY <3>1
  <2> QED BY <2>1, <1>1, <1>2 DEF RunQueues
<1>5. /\ s.queue = r.queue /\ s.bitmap = r.bitmap /\ s.level = r.level
      /\ s.state = r.state /\ s.ticks = r.ticks
      /\ s.left = [r.left EXCEPT ![current] = IF @ > 0 THEN @ - 1 ELSE 0]
  BY <1>2 DEF RunQueues
<1> HIDE DEF s
<1>6. WellFormed(s) /\ \A u \in Tasks : Queued(s, u) <=> Queued(r, u)
  BY <1>2, <1>4, <1>5, FrameFacts
<1>7. WithinQuantum(s)
  <2> SUFFICES ASSUME NEW u \in Tasks
               PROVE  s.left[u] <= Quantum[s.level[u]]
    BY DEF WithinQuantum
  <2>1. r.left[u] \in Nat /\ r.level[u] \in Levels /\ r.left[u] <= Quantum[r.level[u]]
    BY <1>2 DEF WithinQuantum, RunQueues
  <2>2. Quantum[r.level[u]] \in Nat
    BY <2>1, QuantumPositive
  <2>3. s.left[u] \in Nat /\ s.left[u] <= r.left[u]
    <3>1. r.left \in [Tasks -> Nat]
      BY <1>2 DEF RunQueues
    <3>2. CASE u = current
      BY <3>1, <3>2, <1>1, <1>5, <2>1
    <3>3. CASE u # current
      BY <3>1, <3>3, <1>1, <1>5, <2>1
    <3> QED BY <3>2, <3>3
  <2> QED BY <2>1, <2>2, <2>3, <1>5
<1> QED BY <1>2, <1>3, <1>4, <1>5, <1>6, <1>7

\* When the quantum has ended, a RUNNING task is back in a queue; the task
\* picked is one of the queued tasks, so the fallback to the idle task is idle.
LEMMA ExpiredFacts ==
  ASSUME Inv
  PROVE  /\ Expired \in RunQueues
         /\ WellFormed(Expired)
         /\ WithinQuantum(Expired)
         /\ Expired.ticks < BoostInterval
         /\ \A u \in Tasks : Queued(Expired, u) <=>
              Queued(rq, u) \/ (u = current /\ state[current] = "RUNNING")
         /\ Expired.state = [rq.state EXCEPT ![current] = IF @ = "RUNNING" THEN "READY" ELSE @]
         /\ rq.ticks + 1 >= BoostInterval =>
              \A u \in Tasks : Queued(Expired, u) /\ u # current => Expired.level[u] = 0
         /\ NextTask \in Tasks
         /\ Queued(Expired, NextTask)
<1>1. /\ rq \in RunQueues /\ current \in Tasks /\ rq.state \in [Tasks -> States]
      /\ IdleAvailable
  BY DEF Inv, TypeOK, RunQueues
<1>2. /\ Charged \in RunQueues /\ WellFormed(Charged) /\ WithinQuantum(Charged)
      /\ Charged.ticks < BoostInterval
      /\ \A u \in Tasks : Queued(Charged, u) <=> Queued(rq, u)
      /\ Charged.state = rq.state
      /\ rq.ticks + 1 >= BoostInterval =>
           \A u \in Tasks : Queued(Charged, u) => Charged.level[u] = 0
  BY ChargedFacts DEF Inv
<1>3. /\ Expired \in RunQueues /\ WellFormed(Expired) /\ WithinQuantum(Expired)
      /\ Expired.ticks < BoostInterval
      /\ \A u \in Tasks : Queued(Expired, u) <=>
           Queued(rq, u) \/ (u = current /\ state[current] = "RUNNING")
      /\ Expired.state = [rq.state EXCEPT ![current] = IF @ = "RUNNING" THEN "READY" ELSE @]
      /\ rq.ticks + 1 >= BoostInterval =>
           \A u \in Tasks : Queued(Expired, u) /\ u # current => Expired.level[u] = 0
  <2>1. CASE Charged.state[current] = "RUNNING"
    <3>1. Expired = mlfq_decay(Charged, current)
      BY <2>1 DEF Expired
    <3>2. LET s == mlfq_decay(Charged, current)
          IN  /\ s \in RunQueues
              /\ WellFormed(s)
              /\ \A u \in Tasks : Queued(s, u) <=> Queued(Charged, u) \/ u = current
              /\ s.state = [Charged.state EXCEPT ![current] = "READY"]
              /\ \A u \in Tasks : u # current => s.level[u] = Charged.level[u]
              /\ s.ticks = Charged.ticks
              /\ WithinQuantum(Charged) => WithinQuantum(s)
      BY <1>1, <1>2, DecayFacts
    <3> QED BY <3>1, <3>2, <2>1, <1>1, <1>2 DEF state
  <2>2. CASE Charged.state[current] # "RUNNING"
    <3>1. Expired = Charged
      BY <2>2 DEF Expired
    <3>2. rq.state = [rq.state EXCEPT ![current] = IF @ = "RUNNING" THEN "READY" ELSE @]
      BY <2>2, <1>1, <1>2
    <3> QED BY <3>1, <3>2, <2>2, <1>2 DEF state
  <2> QED BY <2>1, <2>2
<1>4. Queued(Expired, Idle)
  BY <1>1, <1>3, IdleIsATask DEF IdleAvailable
<1>5. mlfq_pick_highest(Expired) # NULL
  BY <1>3, <1>4, IdleIsATask, PickFacts
<1>6. NextTask = mlfq_pick_highest(Expired)
  BY <1>5 DEF NextTask
<1>7. NextTask \in Tasks /\ Queued(Expired, NextTask)
  BY <1>3, <1>5, <1>6, PickFacts
<1> QED BY <1>3, <1>7

-----------------------------------------------------------------------------
(***************************************************************************)
(* The inductive invariant.                                                *)
(***************************************************************************)

\* After scheduler_init the idle task is queued once, at level 3, and current.
LEMMA InitInv == Init => Inv
<1> SUFFICES ASSUME Init PROVE Inv
  OBVIOUS
<1> DEFINE e == mlfq_enqueue(mlfq_init, Idle, 3)
<1>1. mlfq_init \in RunQueues
  BY DEF mlfq_init, RunQueues, Levels, MLFQ_LEVELS, States
<1>2. WellFormed(mlfq_init) /\ \A u \in Tasks : ~Queued(mlfq_init, u)
  BY DEF mlfq_init, WellFormed, NoDuplicates, LevelTags, BitmapExact, Queued, InQueue
<1>3. WithinQuantum(mlfq_init)
  <2>1. Quantum[0] \in Nat
    BY QuantumPositive DEF Levels, MLFQ_LEVELS
  <2> QED BY <2>1 DEF WithinQuantum, mlfq_init
<1>4. /\ e \in RunQueues /\ WellFormed(e) /\ WithinQuantum(e)
      /\ \A u \in Tasks : Queued(e, u) <=> u = Idle
      /\ e.state = [mlfq_init.state EXCEPT ![Idle] = "READY"]
      /\ e.ticks = 0
  <2>1. 3 \in Levels /\ mlfq_init.ticks = 0
    BY DEF Levels, MLFQ_LEVELS, mlfq_init
  <2>2. ~Queued(mlfq_init, Idle)
    BY <1>2, IdleIsATask
  <2>3. LET s == mlfq_enqueue(mlfq_init, Idle, 3)
        IN  /\ s \in RunQueues
            /\ WellFormed(s)
            /\ \A u \in Tasks : Queued(s, u) <=> Queued(mlfq_init, u) \/ u = Idle
            /\ s.state = [mlfq_init.state EXCEPT ![Idle] = "READY"]
            /\ s.level = [mlfq_init.level EXCEPT ![Idle] = 3]
            /\ s.ticks = mlfq_init.ticks
            /\ WithinQuantum(mlfq_init) => WithinQuantum(s)
    BY <1>1, <1>2, <2>1, <2>2, IdleIsATask, EnqueueFacts
  <2> QED BY <2>1, <2>3, <1>2, <1>3
<1>5. rq = [e EXCEPT !.state[Idle] = "RUNNING"]
  BY DEF Init, MLFQ_LEVELS
<1> HIDE DEF e
<1>6. /\ rq \in RunQueues /\ WellFormed(rq)
      /\ \A u \in Tasks : Queued(rq, u) <=> u = Idle
      /\ rq.state = [e.state EXCEPT ![Idle] = "RUNNING"]
      /\ rq.level = e.level /\ rq.left = e.left /\ rq.ticks = 0
  <2>1. "RUNNING" \in States
    BY DEF States
  <2> QED BY <1>4, <1>5, <2>1, IdleIsATask, StateWriteFacts
<1>7. \A u \in Tasks : rq.state[u] = IF u = Idle THEN "RUNNING" ELSE "CREATED"
  BY <1>4, <1>6, IdleIsATask DEF mlfq_init
<1>8. current = Idle /\ readyCount = 0 /\ exited = {}
  BY DEF Init
<1>9. TypeOK
  BY <1>6, <1>8, IdleIsATask DEF TypeOK
<1>10. QueueWF
  BY <1>6 DEF QueueWF
<1>11. NoLostTask /\ QueuedIsSchedulable /\ OneRunning /\ IdleAvailable /\ CallerState
  BY <1>6, <1>7, <1>8, IdleIsATask
     DEF NoLostTask, QueuedIsSchedulable, OneRunning, IdleAvailable, CallerState, state
<1>12. BudgetBounded
  BY <1>4, <1>6, BoostIntervalPositive DEF BudgetBounded, WithinQuantum
<1> QED BY <1>9, <1>10, <1>11, <1>12 DEF Inv

\* The conjuncts of Inv about rq' follow from what the lemmas above say of it.
LEMMA InvParts ==
  ASSUME rq' \in RunQueues, current' \in Tasks, readyCount' \in Int,
         exited' \in SUBSET Tasks, WellFormed(rq'), WithinQuantum(rq'),
         rq'.ticks < BoostInterval,
         NoLostTask', QueuedIsSchedulable', OneRunning', IdleAvailable', CallerState'
  PROVE  Inv'
BY DEF Inv, TypeOK, QueueWF, BudgetBounded

\* A new task is queued once, at level 0.
LEMMA AddInv ==
  ASSUME Inv, NEW t \in Tasks, scheduler_add_task(t)
  PROVE  Inv'
<1>1. /\ rq \in RunQueues /\ WellFormed(rq) /\ WithinQuantum(rq) /\ rq.ticks < BoostInterval
      /\ rq.state \in [Tasks -> States] /\ rq.state[t] = "CREATED"
      /\ current \in Tasks /\ readyCount \in Int /\ exited \in SUBSET Tasks
  BY DEF Inv, TypeOK, QueueWF, BudgetBounded, RunQueues, scheduler_add_task, state
<1>2. ~Queued(rq, t)
  BY <1>1 DEF Inv, QueuedIsSchedulable, state
<1>3. /\ rq' \in RunQueues /\ WellFormed(rq') /\ WithinQuantum(rq') /\ rq'.ticks < BoostInterval
      /\ \A u \in Tasks : Queued(rq', u) <=> Queued(rq, u) \/ u = t
      /\ rq'.state = [rq.state EXCEPT ![t] = "READY"]
  <2>1. 0 \in Levels /\ rq' = mlfq_enqueue(rq, t, 0)
    BY DEF scheduler_add_task, Levels, MLFQ_LEVELS
  <2> QED BY <2>1, <1>1, <1>2, EnqueueFacts
<1>4. /\ current' = current /\ exited' = exited
      /\ readyCount' \in Int
  BY <1>1 DEF scheduler_add_task
<1>5. NoLostTask'
  BY <1>1, <1>3 DEF Inv, NoLostTask, state
<1>6. QueuedIsSchedulable'
  BY <1>1, <1>3 DEF Inv, QueuedIsSchedulable, state
<1>7. OneRunning'
  BY <1>1, <1>3, <1>4 DEF Inv, OneRunning, state
<1>8. t # Idle
  BY <1>1 DEF Inv, IdleAvailable, state
<1>9. IdleAvailable'
  BY <1>1, <1>3, <1>4, <1>8, IdleIsATask DEF Inv, IdleAvailable, state
<1>10. CallerState'
  BY <1>1, <1>3, <1>4 DEF Inv, CallerState, state
<1> QED BY <1>1, <1>3, <1>4, <1>5, <1>6, <1>7, <1>9, <1>10, InvParts

\* Waking a task that is in no queue puts it in one.
LEMMA WokenFacts ==
  ASSUME NEW r \in RunQueues, WellFormed(r), NEW t \in Tasks, ~Queued(r, t)
  PROVE  LET s == Woken(r, t)
         IN  /\ s \in RunQueues
             /\ WellFormed(s)
             /\ \A u \in Tasks : Queued(s, u) <=> Queued(r, u) \/ u = t
             /\ s.state = [r.state EXCEPT ![t] = "READY"]
             /\ s.ticks = r.ticks
             /\ WithinQuantum(r) => WithinQuantum(s)
<1> DEFINE w == [r EXCEPT !.state[t] = "READY"]
<1>1. /\ w \in RunQueues /\ WellFormed(w)
      /\ \A u \in Tasks : Queued(w, u) <=> Queued(r, u)
      /\ w.state = [r.state EXCEPT ![t] = "READY"]
      /\ w.level = r.level /\ w.left = r.left /\ w.ticks = r.ticks
  <2>1. "READY" \in States
    BY DEF States
  <2> QED BY <2>1, StateWriteFacts
<1>2. Woken(r, t) = mlfq_enqueue(w, t, 0)
  BY DEF Woken
<1> HIDE DEF w
<1>3. ~Queued(w, t) /\ 0 \in Levels
  BY <1>1 DEF Levels, MLFQ_LEVELS
<1>4. LET s == mlfq_enqueue(w, t, 0)
      IN  /\ s \in RunQueues
          /\ WellFormed(s)
          /\ \A u \in Tasks : Queued(s, u) <=> Queued(w, u) \/ u = t
          /\ s.state = [w.state EXCEPT ![t] = "READY"]
          /\ s.level = [w.level EXCEPT ![t] = 0]
          /\ s.ticks = w.ticks
          /\ WithinQuantum(w) => WithinQuantum(s)
  BY <1>1, <1>3, EnqueueFacts
<1>5. [w.state EXCEPT ![t] = "READY"] = [r.state EXCEPT ![t] = "READY"]
  <2>1. r.state \in [Tasks -> States]
    BY DEF RunQueues
  <2> QED BY <2>1, <1>1
<1>6. WithinQuantum(r) => WithinQuantum(w)
  BY <1>1 DEF WithinQuantum
<1> QED BY <1>1, <1>2, <1>4, <1>5, <1>6

\* A woken task is queued once, at level 0: no blocked task is in a queue.
LEMMA WakeInv ==
  ASSUME Inv, NEW t \in Tasks, scheduler_wake_task(t)
  PROVE  Inv'
<1>1. /\ rq \in RunQueues /\ WellFormed(rq) /\ WithinQuantum(rq) /\ rq.ticks < BoostInterval
      /\ rq.state \in [Tasks -> States] /\ rq.state[t] = "BLOCKED" /\ t # current
      /\ current \in Tasks /\ readyCount \in Int /\ exited \in SUBSET Tasks
  BY DEF Inv, TypeOK, QueueWF, BudgetBounded, RunQueues, scheduler_wake_task, state
<1>2. ~Queued(rq, t)
  BY <1>1 DEF Inv, QueuedIsSchedulable, state
<1>3. rq' = Woken(rq, t)
  BY DEF scheduler_wake_task
<1>4. /\ rq' \in RunQueues /\ WellFormed(rq') /\ WithinQuantum(rq') /\ rq'.ticks < BoostInterval
      /\ \A u \in Tasks : Queued(rq', u) <=> Queued(rq, u) \/ u = t
      /\ rq'.state = [rq.state EXCEPT ![t] = "READY"]
  BY <1>1, <1>2, <1>3, WokenFacts
<1>5. current' = current /\ exited' = exited /\ readyCount' \in Int
  BY <1>1 DEF scheduler_wake_task
<1>6. NoLostTask'
  BY <1>1, <1>4 DEF Inv, NoLostTask, state
<1>7. QueuedIsSchedulable'
  BY <1>1, <1>4 DEF Inv, QueuedIsSchedulable, state
<1>8. OneRunning'
  BY <1>1, <1>4, <1>5 DEF Inv, OneRunning, state
<1>9. t # Idle
  BY <1>1 DEF Inv, IdleAvailable, state
<1>10. IdleAvailable'
  BY <1>1, <1>4, <1>5, <1>9, IdleIsATask DEF Inv, IdleAvailable, state
<1>11. CallerState'
  BY <1>1, <1>4, <1>5 DEF Inv, CallerState, state
<1> QED BY <1>1, <1>4, <1>5, <1>6, <1>7, <1>8, <1>10, <1>11, InvParts

\* A removed task was waiting in a queue and is in none afterwards.
LEMMA RemoveInv ==
  ASSUME Inv, NEW t \in Tasks, scheduler_remove_task(t)
  PROVE  Inv'
<1> DEFINE d == mlfq_dequeue(rq, t)
<1>1. /\ rq \in RunQueues /\ WellFormed(rq) /\ WithinQuantum(rq) /\ rq.ticks < BoostInterval
      /\ rq.state \in [Tasks -> States] /\ rq.state[t] = "READY" /\ t # Idle
      /\ current \in Tasks /\ readyCount \in Int /\ exited \in SUBSET Tasks
  BY DEF Inv, TypeOK, QueueWF, BudgetBounded, RunQueues, scheduler_remove_task, state
<1>2. /\ d \in RunQueues /\ WellFormed(d)
      /\ \A u \in Tasks : Queued(d, u) <=> Queued(rq, u) /\ u # t
      /\ d.state = rq.state /\ d.level = rq.level /\ d.left = rq.left /\ d.ticks = rq.ticks
  BY <1>1, DequeueFacts
<1>3. rq' = [d EXCEPT !.state[t] = "ZOMBIE"]
  BY DEF scheduler_remove_task
<1> HIDE DEF d
<1>4. /\ rq' \in RunQueues /\ WellFormed(rq')
      /\ \A u \in Tasks : Queued(rq', u) <=> Queued(rq, u) /\ u # t
      /\ rq'.state = [rq.state EXCEPT ![t] = "ZOMBIE"]
      /\ rq'.level = rq.level /\ rq'.left = rq.left /\ rq'.ticks = rq.ticks
  <2>1. "ZOMBIE" \in States
    BY DEF States
  <2> QED BY <2>1, <1>2, <1>3, StateWriteFacts
<1>5. WithinQuantum(rq') /\ rq'.ticks < BoostInterval
  BY <1>1, <1>4 DEF WithinQuantum
<1>6. current' = current /\ exited' = exited /\ readyCount' \in Int
  BY <1>1 DEF scheduler_remove_task, Counted
<1>7. NoLostTask'
  BY <1>1, <1>4 DEF Inv, NoLostTask, state
<1>8. QueuedIsSchedulable'
  BY <1>1, <1>4 DEF Inv, QueuedIsSchedulable, state
<1>9. OneRunning'
  BY <1>1, <1>4, <1>6 DEF Inv, OneRunning, state
<1>10. IdleAvailable'
  BY <1>1, <1>4, <1>6, IdleIsATask DEF Inv, IdleAvailable, state
<1>11. CallerState'
  BY <1>1, <1>4, <1>6 DEF Inv, CallerState, state
<1> QED BY <1>1, <1>4, <1>5, <1>6, <1>7, <1>8, <1>9, <1>10, <1>11, InvParts

\* A task that blocks itself is RUNNING, and dequeued if the scheduler had left
\* it in its queue, or BLOCKED already, and in no queue.
LEMMA BlockInv ==
  ASSUME Inv, BlockSelf
  PROVE  Inv'
<1> DEFINE d == scheduler_unqueue_task(current)
<1>1. /\ rq \in RunQueues /\ WellFormed(rq) /\ WithinQuantum(rq) /\ rq.ticks < BoostInterval
      /\ rq.state \in [Tasks -> States] /\ current # Idle /\ current \notin exited
      /\ current \in Tasks /\ readyCount \in Int /\ exited \in SUBSET Tasks
  BY DEF Inv, TypeOK, QueueWF, BudgetBounded, RunQueues, BlockSelf, CanCall, state
<1>2. rq.state[current] \in {"RUNNING", "BLOCKED"}
  BY <1>1 DEF Inv, CallerState, state
<1>3. /\ d \in RunQueues /\ WellFormed(d)
      /\ \A u \in Tasks : Queued(d, u) <=> Queued(rq, u) /\ u # current
      /\ d.state = rq.state /\ d.level = rq.level /\ d.left = rq.left /\ d.ticks = rq.ticks
  <2>1. CASE rq.state[current] = "RUNNING"
    <3>1. d = mlfq_dequeue(rq, current)
      BY <2>1 DEF scheduler_unqueue_task, Unqueueable, state
    <3> HIDE DEF d
    <3> QED BY <3>1, <1>1, DequeueFacts
  <2>2. CASE rq.state[current] = "BLOCKED"
    <3>1. d = rq
      BY <2>2 DEF scheduler_unqueue_task, Unqueueable, state
    <3>2. ~Queued(rq, current)
      BY <2>2, <1>1 DEF Inv, QueuedIsSchedulable, state
    <3> HIDE DEF d
    <3> QED BY <3>1, <3>2, <1>1
  <2> QED BY <2>1, <2>2, <1>2
<1>4. rq' = [d EXCEPT !.state[current] = "BLOCKED"]
  BY DEF BlockSelf
<1> HIDE DEF d
<1>5. /\ rq' \in RunQueues /\ WellFormed(rq')
      /\ \A u \in Tasks : Queued(rq', u) <=> Queued(rq, u) /\ u # current
      /\ rq'.state = [rq.state EXCEPT ![current] = "BLOCKED"]
      /\ rq'.level = rq.level /\ rq'.left = rq.left /\ rq'.ticks = rq.ticks
  <2>1. "BLOCKED" \in States
    BY DEF States
  <2> QED BY <2>1, <1>1, <1>3, <1>4, StateWriteFacts
<1>6. WithinQuantum(rq') /\ rq'.ticks < BoostInterval
  BY <1>1, <1>5 DEF WithinQuantum
<1>7. current' = current /\ exited' = exited /\ readyCount' \in Int
  BY <1>1 DEF BlockSelf, Counted
<1>8. NoLostTask'
  BY <1>1, <1>5 DEF Inv, NoLostTask, state
<1>9. QueuedIsSchedulable'
  BY <1>1, <1>5 DEF Inv, QueuedIsSchedulable, state
<1>10. OneRunning'
  BY <1>1, <1>5, <1>7 DEF Inv, OneRunning, state
<1>11. IdleAvailable'
  BY <1>1, <1>5, <1>7, IdleIsATask DEF Inv, IdleAvailable, state
<1>12. CallerState'
  BY <1>1, <1>5, <1>7 DEF CallerState, state
<1> QED BY <1>1, <1>5, <1>6, <1>7, <1>8, <1>9, <1>10, <1>11, <1>12, InvParts

\* task_exit and task_destroy write the state of a task that is not READY, so
\* nothing that has to be queued is lost; the zombie may stay queued.
LEMMA ZombifiedFacts ==
  ASSUME Inv, CanCall(current)
  PROVE  /\ rq \in RunQueues /\ rq.state \in [Tasks -> States]
         /\ current \in Tasks /\ readyCount \in Int /\ exited \in SUBSET Tasks
         /\ current # Idle /\ rq.state[current] # "READY"
         /\ Zombified \in RunQueues /\ WellFormed(Zombified) /\ WithinQuantum(Zombified)
         /\ Zombified.ticks < BoostInterval
         /\ \A u \in Tasks : Queued(Zombified, u) <=> Queued(rq, u)
         /\ Zombified.state = [rq.state EXCEPT ![current] = "ZOMBIE"]
<1>1. /\ rq \in RunQueues /\ WellFormed(rq) /\ WithinQuantum(rq) /\ rq.ticks < BoostInterval
      /\ rq.state \in [Tasks -> States] /\ current # Idle /\ current \notin exited
      /\ current \in Tasks /\ readyCount \in Int /\ exited \in SUBSET Tasks
  BY DEF Inv, TypeOK, QueueWF, BudgetBounded, RunQueues, CanCall, state
<1>2. rq.state[current] # "READY"
  BY <1>1 DEF Inv, CallerState, state
<1> DEFINE z == Zombified
<1>3. z = [rq EXCEPT !.state[current] = "ZOMBIE"] /\ "ZOMBIE" \in States
  BY DEF Zombified, States
<1> HIDE DEF z
<1>4. /\ z \in RunQueues /\ WellFormed(z)
      /\ \A u \in Tasks : Queued(z, u) <=> Queued(rq, u)
      /\ z.state = [rq.state EXCEPT ![current] = "ZOMBIE"]
      /\ z.level = rq.level /\ z.left = rq.left /\ z.ticks = rq.ticks
  BY <1>1, <1>3, StateWriteFacts
<1>5. WithinQuantum(z)
  BY <1>1, <1>4 DEF WithinQuantum
<1> QED BY <1>1, <1>2, <1>4, <1>5 DEF z

\* The exiting task becomes a zombie.
LEMMA ExitInv ==
  ASSUME Inv, ExitSelf
  PROVE  Inv'
<1>1. CanCall(current) /\ rq' = Zombified
  BY DEF ExitSelf
<1>2. /\ rq.state \in [Tasks -> States]
      /\ current \in Tasks /\ readyCount \in Int /\ exited \in SUBSET Tasks /\ current # Idle
      /\ rq' \in RunQueues /\ WellFormed(rq') /\ WithinQuantum(rq') /\ rq'.ticks < BoostInterval
      /\ \A u \in Tasks : Queued(rq', u) <=> Queued(rq, u)
      /\ rq'.state = [rq.state EXCEPT ![current] = "ZOMBIE"]
  BY <1>1, ZombifiedFacts
<1>4. current' = current /\ exited' = exited \cup {current} /\ readyCount' = readyCount
  BY DEF ExitSelf
<1>5. NoLostTask'
  BY <1>2 DEF Inv, NoLostTask, state
<1>6. QueuedIsSchedulable'
  BY <1>2 DEF Inv, QueuedIsSchedulable, state
<1>7. OneRunning'
  BY <1>2, <1>4 DEF Inv, OneRunning, state
<1>8. IdleAvailable'
  BY <1>2, <1>4, IdleIsATask DEF Inv, IdleAvailable, state
<1>9. CallerState'
  BY <1>4 DEF CallerState
<1> QED BY <1>2, <1>4, <1>5, <1>6, <1>7, <1>8, <1>9, InvParts

\* The exiting task becomes a zombie and its waiting parent is queued.
LEMMA ExitAndWakeInv ==
  ASSUME Inv, NEW t \in Tasks, ExitAndWake(t)
  PROVE  Inv'
<1> DEFINE z == Zombified
<1>1. CanCall(current) /\ rq' = Woken(z, t) /\ t # current /\ rq.state[t] = "BLOCKED"
  BY DEF ExitAndWake, state
<1>2. /\ rq.state \in [Tasks -> States]
      /\ current \in Tasks /\ readyCount \in Int /\ exited \in SUBSET Tasks /\ current # Idle
      /\ z \in RunQueues /\ WellFormed(z) /\ WithinQuantum(z) /\ z.ticks < BoostInterval
      /\ \A u \in Tasks : Queued(z, u) <=> Queued(rq, u)
      /\ z.state = [rq.state EXCEPT ![current] = "ZOMBIE"]
  BY <1>1, ZombifiedFacts
<1> HIDE DEF z
<1>3. ~Queued(z, t)
  BY <1>1, <1>2 DEF Inv, QueuedIsSchedulable, state
<1>4. /\ rq' \in RunQueues /\ WellFormed(rq') /\ WithinQuantum(rq') /\ rq'.ticks < BoostInterval
      /\ \A u \in Tasks : Queued(rq', u) <=> Queued(rq, u) \/ u = t
      /\ rq'.state = [z.state EXCEPT ![t] = "READY"]
  BY <1>1, <1>2, <1>3, WokenFacts
<1>5. \A u \in Tasks : rq'.state[u] = IF u = t THEN "READY"
                                      ELSE IF u = current THEN "ZOMBIE" ELSE rq.state[u]
  BY <1>1, <1>2, <1>4
<1>6. current' = current /\ exited' = exited \cup {current} /\ readyCount' \in Int
  BY <1>2 DEF ExitAndWake
<1>7. NoLostTask'
  BY <1>4, <1>5 DEF Inv, NoLostTask, state
<1>8. QueuedIsSchedulable'
  BY <1>4, <1>5 DEF Inv, QueuedIsSchedulable, state
<1>9. OneRunning'
  BY <1>5, <1>6 DEF Inv, OneRunning, state
<1>10. t # Idle
  BY <1>1 DEF Inv, IdleAvailable, state
<1>11. IdleAvailable'
  BY <1>2, <1>4, <1>5, <1>6, <1>10, IdleIsATask DEF Inv, IdleAvailable, state
<1>12. CallerState'
  BY <1>6 DEF CallerState
<1> QED BY <1>2, <1>4, <1>6, <1>7, <1>8, <1>9, <1>11, <1>12, InvParts

\* Freeing a task that is neither current nor idle.
LEMMA DestroyInv ==
  ASSUME Inv, NEW t \in Tasks, Destroy(t)
  PROVE  Inv'
<1>1. /\ rq \in RunQueues /\ WellFormed(rq) /\ WithinQuantum(rq) /\ rq.ticks < BoostInterval
      /\ rq.state \in [Tasks -> States] /\ t # Idle /\ t # current
      /\ current \in Tasks /\ readyCount \in Int /\ exited \in SUBSET Tasks
  BY DEF Inv, TypeOK, QueueWF, BudgetBounded, RunQueues, Destroy, state
<1>2. /\ rq' \in RunQueues /\ WellFormed(rq')
      /\ \A u \in Tasks : Queued(rq', u) <=> Queued(rq, u)
      /\ rq'.state = [rq.state EXCEPT ![t] = "DEAD"]
      /\ rq'.level = rq.level /\ rq'.left = rq.left /\ rq'.ticks = rq.ticks
  <2>1. "DEAD" \in States /\ rq' = [rq EXCEPT !.state[t] = "DEAD"]
    BY DEF States, Destroy
  <2> QED BY <2>1, <1>1, StateWriteFacts
<1>3. WithinQuantum(rq') /\ rq'.ticks < BoostInterval
  BY <1>1, <1>2 DEF WithinQuantum
<1>4. current' = current /\ exited' = exited /\ readyCount' = readyCount
  BY DEF Destroy
<1>5. NoLostTask'
  BY <1>1, <1>2 DEF Inv, NoLostTask, state
<1>6. QueuedIsSchedulable'
  BY <1>1, <1>2 DEF Inv, QueuedIsSchedulable, state
<1>7. OneRunning'
  BY <1>1, <1>2, <1>4 DEF Inv, OneRunning, state
<1>8. IdleAvailable'
  BY <1>1, <1>2, <1>4, IdleIsATask DEF Inv, IdleAvailable, state
<1>9. CallerState'
  BY <1>1, <1>2, <1>4 DEF Inv, CallerState, state
<1> QED BY <1>1, <1>2, <1>3, <1>4, <1>5, <1>6, <1>7, <1>8, <1>9, InvParts

\* A tick that ends no quantum changes neither states nor queue membership.
LEMMA TickKeepInv ==
  ASSUME Inv, TickKeep
  PROVE  Inv'
<1>1. /\ current \in Tasks /\ readyCount \in Int /\ exited \in SUBSET Tasks
  BY DEF Inv, TypeOK
<1>2. /\ rq' \in RunQueues /\ WellFormed(rq') /\ WithinQuantum(rq') /\ rq'.ticks < BoostInterval
      /\ \A u \in Tasks : Queued(rq', u) <=> Queued(rq, u)
      /\ rq'.state = rq.state
  BY ChargedFacts DEF Inv, TickKeep
<1>3. current' = current /\ exited' = exited /\ readyCount' = readyCount
  BY DEF TickKeep
<1>4. NoLostTask' /\ QueuedIsSchedulable' /\ OneRunning' /\ IdleAvailable' /\ CallerState'
  BY <1>2, <1>3, IdleIsATask
     DEF Inv, NoLostTask, QueuedIsSchedulable, OneRunning, IdleAvailable, CallerState, state
<1> QED BY <1>1, <1>2, <1>3, <1>4, InvParts

\* The current task is picked again and stays queued while it runs.
LEMMA TickStayInv ==
  ASSUME Inv, TickStay
  PROVE  Inv'
<1>1. /\ current \in Tasks /\ readyCount \in Int /\ exited \in SUBSET Tasks
      /\ rq.state \in [Tasks -> States]
  BY DEF Inv, TypeOK, RunQueues
<1>2. /\ Expired \in RunQueues /\ WellFormed(Expired) /\ WithinQuantum(Expired)
      /\ Expired.ticks < BoostInterval
      /\ \A u \in Tasks : Queued(Expired, u) <=>
           Queued(rq, u) \/ (u = current /\ state[current] = "RUNNING")
      /\ Expired.state = [rq.state EXCEPT ![current] = IF @ = "RUNNING" THEN "READY" ELSE @]
      /\ Queued(Expired, current)
  BY ExpiredFacts DEF TickStay
<1>3. rq' = [Expired EXCEPT !.state[current] = "RUNNING"]
  BY DEF TickStay
<1>4. /\ rq' \in RunQueues /\ WellFormed(rq')
      /\ \A u \in Tasks : Queued(rq', u) <=> Queued(Expired, u)
      /\ rq'.state = [Expired.state EXCEPT ![current] = "RUNNING"]
      /\ rq'.level = Expired.level /\ rq'.left = Expired.left /\ rq'.ticks = Expired.ticks
  <2>1. "RUNNING" \in States
    BY DEF States
  <2>2. LET s == [Expired EXCEPT !.state[current] = "RUNNING"]
        IN  /\ s \in RunQueues
            /\ WellFormed(s)
            /\ \A u \in Tasks : Queued(s, u) <=> Queued(Expired, u)
            /\ s.state = [Expired.state EXCEPT ![current] = "RUNNING"]
            /\ s.level = Expired.level /\ s.left = Expired.left /\ s.ticks = Expired.ticks
    BY <2>1, <1>1, <1>2, StateWriteFacts
  <2> QED BY <2>2, <1>3
<1>5. WithinQuantum(rq') /\ rq'.ticks < BoostInterval
  BY <1>2, <1>4 DEF WithinQuantum
<1>6. current' = current /\ exited' = exited /\ readyCount' = readyCount
  BY DEF TickStay
<1>7. \A u \in Tasks : rq'.state[u] = IF u = current THEN "RUNNING" ELSE rq.state[u]
  BY <1>1, <1>2, <1>4
<1>8. \A u \in Tasks : Queued(rq', u) <=> Queued(rq, u) \/ u = current
  BY <1>1, <1>2, <1>4
<1>9. NoLostTask' /\ QueuedIsSchedulable'
  BY <1>7, <1>8 DEF Inv, NoLostTask, QueuedIsSchedulable, state
<1>10. OneRunning' /\ CallerState'
  BY <1>1, <1>6, <1>7 DEF Inv, OneRunning, CallerState, state
<1>11. IdleAvailable'
  BY <1>1, <1>6, <1>7, <1>8, IdleIsATask DEF Inv, IdleAvailable, state
<1> QED BY <1>1, <1>4, <1>5, <1>6, <1>9, <1>10, <1>11, InvParts

\* Another task is picked: it leaves its queue; the previous one, if it was
\* RUNNING, is READY and queued.
LEMMA TickSwitchInv ==
  ASSUME Inv, TickSwitch
  PROVE  Inv'
<1> DEFINE n == NextTask
           d == mlfq_dequeue(Expired, n)
<1>1. /\ current \in Tasks /\ readyCount \in Int /\ exited \in SUBSET Tasks
      /\ rq.state \in [Tasks -> States]
  BY DEF Inv, TypeOK, RunQueues
<1>2. /\ Expired \in RunQueues /\ WellFormed(Expired) /\ WithinQuantum(Expired)
      /\ Expired.ticks < BoostInterval
      /\ \A u \in Tasks : Queued(Expired, u) <=>
           Queued(rq, u) \/ (u = current /\ state[current] = "RUNNING")
      /\ Expired.state = [rq.state EXCEPT ![current] = IF @ = "RUNNING" THEN "READY" ELSE @]
      /\ n \in Tasks
  BY ExpiredFacts
<1>3. /\ d \in RunQueues /\ WellFormed(d)
      /\ \A u \in Tasks : Queued(d, u) <=> Queued(Expired, u) /\ u # n
      /\ d.state = Expired.state /\ d.level = Expired.level /\ d.left = Expired.left
      /\ d.ticks = Expired.ticks
  BY <1>2, DequeueFacts
<1>4. /\ rq' = [d EXCEPT !.state[n] = "RUNNING"]
      /\ current' = n /\ n # current
      /\ exited' = exited /\ readyCount' = readyCount
  BY DEF TickSwitch
<1> HIDE DEF d, n
<1>5. /\ rq' \in RunQueues /\ WellFormed(rq')
      /\ \A u \in Tasks : Queued(rq', u) <=> Queued(d, u)
      /\ rq'.state = [d.state EXCEPT ![n] = "RUNNING"]
      /\ rq'.level = d.level /\ rq'.left = d.left /\ rq'.ticks = d.ticks
  <2>1. "RUNNING" \in States
    BY DEF States
  <2> QED BY <2>1, <1>2, <1>3, <1>4, StateWriteFacts
<1>6. WithinQuantum(rq') /\ rq'.ticks < BoostInterval
  BY <1>2, <1>3, <1>5 DEF WithinQuantum
<1>7. \A u \in Tasks : rq'.state[u] = IF u = n THEN "RUNNING"
                                      ELSE IF u = current /\ rq.state[u] = "RUNNING" THEN "READY"
                                      ELSE rq.state[u]
  BY <1>1, <1>2, <1>3, <1>5
<1>8. \A u \in Tasks : Queued(rq', u) <=>
         u # n /\ (Queued(rq, u) \/ (u = current /\ rq.state[u] = "RUNNING"))
  BY <1>2, <1>3, <1>5 DEF state
<1>9. NoLostTask'
  BY <1>7, <1>8 DEF Inv, NoLostTask, state
<1>10. QueuedIsSchedulable'
  BY <1>7, <1>8 DEF Inv, QueuedIsSchedulable, state
<1>11. OneRunning' /\ CallerState'
  BY <1>2, <1>4, <1>7 DEF Inv, OneRunning, CallerState, state
<1>12. IdleAvailable'
  <2>1. /\ Idle = current \/ Queued(rq, Idle)
        /\ rq.state[Idle] = IF Idle = current THEN "RUNNING" ELSE "READY"
    BY DEF Inv, IdleAvailable, state
  <2>2. CASE Idle = n
    BY <2>2, <1>2, <1>4, <1>7 DEF IdleAvailable, state
  <2>3. CASE Idle # n
    <3>1. rq'.state[Idle] = "READY"
      BY <2>1, <2>3, <1>7, IdleIsATask
    <3>2. Queued(rq', Idle)
      BY <2>1, <2>3, <1>8, IdleIsATask
    <3> QED BY <2>3, <3>1, <3>2, <1>4 DEF IdleAvailable, state
  <2> QED BY <2>2, <2>3
<1> QED BY <1>1, <1>2, <1>4, <1>5, <1>6, <1>9, <1>10, <1>11, <1>12, InvParts

\* Every step of the scheduler preserves the invariant.
LEMMA NextInv == Inv /\ [Next]_vars => Inv'
<1> SUFFICES ASSUME Inv, [Next]_vars PROVE Inv'
  OBVIOUS
<1>1. CASE scheduler_tick
  BY <1>1, TickKeepInv, TickStayInv, TickSwitchInv DEF scheduler_tick
<1>2. CASE BlockSelf
  BY <1>2, BlockInv
<1>3. CASE ExitSelf
  BY <1>3, ExitInv
<1>4. ASSUME NEW t \in Tasks, scheduler_add_task(t) PROVE Inv'
  BY <1>4, AddInv
<1>5. ASSUME NEW t \in Tasks, scheduler_remove_task(t) PROVE Inv'
  BY <1>5, RemoveInv
<1>6. ASSUME NEW t \in Tasks, scheduler_wake_task(t) PROVE Inv'
  BY <1>6, WakeInv
<1>7. ASSUME NEW t \in Tasks, Destroy(t) PROVE Inv'
  BY <1>7, DestroyInv
<1>8. ASSUME NEW t \in Tasks, ExitAndWake(t) PROVE Inv'
  BY <1>8, ExitAndWakeInv
<1>9. CASE UNCHANGED vars
  BY <1>9 DEF vars, Inv, TypeOK, QueueWF, NoLostTask, QueuedIsSchedulable, OneRunning,
              IdleAvailable, BudgetBounded, CallerState, state
<1> QED BY <1>1, <1>2, <1>3, <1>4, <1>5, <1>6, <1>7, <1>8, <1>9 DEF Next

\* The inductive invariant holds in every reachable state of the scheduler.
THEOREM SchedulerInv == Spec => []Inv
<1>1. Init => Inv
  BY InitInv
<1>2. Inv /\ [Next]_vars => Inv'
  BY NextInv
<1> QED BY <1>1, <1>2, PTL DEF Spec

\* The ready queues stay well formed: no task is linked twice, every queued
\* task is in the queue of its level, and the bitmap is exact.
THEOREM QueuesStayWellFormed == Spec => []QueueWF
<1>1. Inv => QueueWF
  BY DEF Inv
<1> QED BY <1>1, SchedulerInv, PTL

\* No ready task is ever lost from the queues, whatever interleaving of ticks,
\* blocking, waking, exiting and freeing led there.
THEOREM NoTaskIsLost == Spec => []NoLostTask
<1>1. Inv => NoLostTask
  BY DEF Inv
<1> QED BY <1>1, SchedulerInv, PTL

\* The idle task can always be picked: the NULL fallback of scheduler_tick is
\* never needed.
THEOREM IdleIsAvailable == Spec => []IdleAvailable
<1>1. Inv => IdleAvailable
  BY DEF Inv
<1> QED BY <1>1, SchedulerInv, PTL

\* A boost leaves no queued task behind, but for the one demoted on that tick.
THEOREM BoostReachesTheQueues == Spec => BoostPromotesQueued
<1> DEFINE A == rq.ticks + 1 >= BoostInterval /\ scheduler_tick =>
                  \A t \in Tasks : Queued(rq', t) /\ rq'.level[t] # 0 => t = current
<1>1. Inv /\ [Next]_vars => [A]_vars
  <2> SUFFICES ASSUME Inv, scheduler_tick, rq.ticks + 1 >= BoostInterval,
                      NEW t \in Tasks, Queued(rq', t), t # current
               PROVE  rq'.level[t] = 0
    OBVIOUS
  <2>1. CASE TickKeep
    <3>1. rq' = Charged
      BY <2>1 DEF TickKeep
    <3> QED BY <3>1, ChargedFacts DEF Inv
  <2>2. /\ Expired \in RunQueues /\ WellFormed(Expired) /\ NextTask \in Tasks
        /\ Queued(Expired, t) => Expired.level[t] = 0
    BY ExpiredFacts
  <2>3. "RUNNING" \in States /\ current \in Tasks
    BY DEF States, Inv, TypeOK
  <2>4. CASE TickStay
    <3>1. LET s == [Expired EXCEPT !.state[current] = "RUNNING"]
          IN  s.level = Expired.level /\ (Queued(s, t) <=> Queued(Expired, t))
      BY <2>2, <2>3, StateWriteFacts
    <3> QED BY <3>1, <2>2, <2>4 DEF TickStay
  <2>5. CASE TickSwitch
    <3> DEFINE n == NextTask
               d == mlfq_dequeue(Expired, n)
    <3>1. /\ d \in RunQueues /\ WellFormed(d) /\ d.level = Expired.level
          /\ Queued(d, t) => Queued(Expired, t)
      BY <2>2, DequeueFacts
    <3>2. rq' = [d EXCEPT !.state[n] = "RUNNING"]
      BY <2>5 DEF TickSwitch
    <3>3. n \in Tasks
      BY <2>2
    <3> HIDE DEF d, n
    <3>4. rq'.level = d.level /\ (Queued(rq', t) <=> Queued(d, t))
      BY <3>1, <3>2, <3>3, <2>3, StateWriteFacts
    <3> QED BY <3>1, <3>4, <2>2
  <2> QED BY <2>1, <2>4, <2>5 DEF scheduler_tick
<1> QED BY <1>1, SchedulerInv, PTL DEF Spec, BoostPromotesQueued
=============================================================================
