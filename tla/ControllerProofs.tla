-------------------------- MODULE ControllerProofs --------------------------
(***************************************************************************)
(* For every number of workers, fields and chunks, whatever workers and    *)
(* POSTs fail: the types are right, no task is lost or in two places, and  *)
(* getNextTask() never leaks mutex_tasks.                                  *)
(*                                                                         *)
(* The inductive invariant IInv says who is responsible for each task: the *)
(* pool (PoolInv), a thread (HeldInv), or, once it was reported as stored, *)
(* nobody, and the two counters count exactly these (CountInv).  A step    *)
(* that moves no task keeps IInv (QuietStep); a task is moved by taking,   *)
(* reassigning and reporting it, and each has a lemma of its own, which    *)
(* rests on what TakeTask and ReassignTask do to the pool.                 *)
(***************************************************************************)
EXTENDS ControllerProperties, SequenceTheorems, FiniteSetTheorems, TLAPS

-----------------------------------------------------------------------------
(***************************************************************************)
(* The pool: taking and reassigning a task keep PoolInv and change the set *)
(* of queued tasks by exactly the task in question.                        *)
(***************************************************************************)

\* The queues hold tasks of their own field, each once, next_task_field lists
\* the queues that are not empty, each once, and mutex_tasks is not leaked.
PoolInv ==
  /\ matrix_tasks \in [Fields -> Seq(Tasks)]
  /\ next_task_field \in Seq(Fields)
  /\ QueuedOnce
  /\ NextFieldsExact
  /\ ~mutex_tasks_leaked

\* The field at the head of next_task_field has a task: the error branch of
\* getNextTask() is never taken.
LEMMA NextFieldHasTask ==
  ASSUME PoolInv, next_task_field # <<>>
  PROVE  matrix_tasks[NextField] # <<>>
  <1>1. NextField \in Fields /\ 1 \in DOMAIN next_task_field
        /\ next_task_field[1] = NextField
    BY DEF PoolInv, NextField
  <1> QED BY <1>1 DEF PoolInv, NextFieldsExact

\* A task leaves the pool: exactly the taken one is no longer queued.
LEMMA TakeTaskPool ==
  ASSUME PoolInv, next_task_field # <<>>, TakeTask
  PROVE  /\ matrix_tasks[NextField] # <<>>
         /\ NextTask \in Tasks
         /\ Queued(NextTask)
         /\ PoolInv'
         /\ \A t \in Tasks : Queued(t)' <=> Queued(t) /\ t # NextTask
  <1> DEFINE q == matrix_tasks[NextField]
  <1>1. NextField \in Fields /\ q \in Seq(Tasks)
    BY DEF PoolInv, NextField
  <1>2. q # <<>> /\ 1 \in DOMAIN next_task_field /\ next_task_field[1] = NextField
    BY <1>1 DEF PoolInv, NextFieldsExact, NextField
  <1>3. /\ NextTask \in Tasks /\ NextTask = q[1]
        /\ 1 \in DOMAIN q
        /\ NextTask.field = NextField
    BY <1>1, <1>2 DEF NextTask, PoolInv, QueuedOnce
  <1>3a. \A i, j \in 1 .. Len(q) : q[i].field = NextField /\ (q[i] = q[j] => i = j)
    BY <1>1 DEF PoolInv, QueuedOnce
  <1>3b. Len(q) \in Nat \ {0}
    BY <1>1, <1>2
  <1>4. Queued(NextTask)
    BY <1>3 DEF Queued
  <1>5. matrix_tasks' = [matrix_tasks EXCEPT ![NextField] = Tail(q)]
    BY DEF TakeTask
  <1>6. /\ Tail(q) \in Seq(Tasks) /\ Len(Tail(q)) = Len(q) - 1
        /\ \A i \in 1 .. Len(q) - 1 : Tail(q)[i] = q[i + 1]
        /\ DOMAIN Tail(q) = 1 .. Len(q) - 1
    BY <1>1, <1>2
  <1>6a. Tail(q) = <<>> <=> Len(q) = 1
    <2>1. Tail(q) = <<>> => Len(Tail(q)) = 0
      BY EmptySeq
    <2>2. Tail(q) # <<>> => Len(Tail(q)) # 0
      BY <1>6, EmptySeq
    <2> QED BY <2>1, <2>2, <1>3b, <1>6
  <1>7. matrix_tasks' \in [Fields -> Seq(Tasks)]
    BY <1>1, <1>5, <1>6 DEF PoolInv
  <1>8. QueuedOnce'
    <2> SUFFICES ASSUME NEW f \in Fields,
                        NEW i \in DOMAIN matrix_tasks'[f], NEW j \in DOMAIN matrix_tasks'[f]
                 PROVE  /\ matrix_tasks'[f][i].field = f
                        /\ matrix_tasks'[f][i] = matrix_tasks'[f][j] => i = j
      BY DEF QueuedOnce
    <2>1. CASE f = NextField
      <3>1. matrix_tasks'[f] = Tail(q)
        BY <2>1, <1>1, <1>5 DEF PoolInv
      <3>2. i \in 1 .. Len(q) - 1 /\ j \in 1 .. Len(q) - 1
        BY <3>1, <1>6
      <3>3. i + 1 \in 1 .. Len(q) /\ j + 1 \in 1 .. Len(q)
        BY <3>2, <1>3b
      <3>4. matrix_tasks'[f][i] = q[i + 1] /\ matrix_tasks'[f][j] = q[j + 1]
        BY <3>1, <3>2, <1>6
      <3>5. q[i + 1].field = f /\ (q[i + 1] = q[j + 1] => i + 1 = j + 1)
        BY <2>1, <3>3, <1>3a
      <3>6. i + 1 = j + 1 => i = j
        BY <3>2, <1>3b
      <3> QED
        BY <3>4, <3>5, <3>6
    <2>2. CASE f # NextField
      BY <2>2, <1>5 DEF PoolInv, QueuedOnce
    <2> QED BY <2>1, <2>2
  <1>9. \A t \in Tasks : Queued(t)' <=> Queued(t) /\ t # NextTask
    <2> SUFFICES ASSUME NEW t \in Tasks
                 PROVE  Queued(t)' <=> Queued(t) /\ t # NextTask
      OBVIOUS
    <2>0. t.field \in Fields
      BY DEF Tasks
    <2>1. CASE t.field # NextField
      BY <2>0, <2>1, <1>3, <1>5 DEF Queued, PoolInv
    <2>2. CASE t.field = NextField
      <3>1. matrix_tasks'[t.field] = Tail(q)
        BY <2>2, <1>1, <1>5 DEF PoolInv
      <3>2. Queued(t)' <=> \E i \in 1 .. Len(q) - 1 : q[i + 1] = t
        BY <3>1, <1>6 DEF Queued
      <3>3. Queued(t) <=> \E i \in 1 .. Len(q) : q[i] = t
        BY <2>2, <1>1 DEF Queued
      <3>5. ASSUME NEW i \in 1 .. Len(q) - 1, q[i + 1] = t
            PROVE  Queued(t) /\ t # NextTask
        <4>1. i + 1 \in 1 .. Len(q) /\ 1 \in 1 .. Len(q) /\ i + 1 # 1
          BY <1>3b
        <4> QED BY <4>1, <3>5, <3>3, <1>3, <1>3a
      <3>6. ASSUME NEW i \in 1 .. Len(q), q[i] = t, t # NextTask
            PROVE  \E k \in 1 .. Len(q) - 1 : q[k + 1] = t
        <4>1. i # 1
          BY <3>6, <1>3
        <4>2. i - 1 \in 1 .. Len(q) - 1 /\ (i - 1) + 1 = i
          BY <4>1, <1>3b
        <4> QED BY <4>2, <3>6
      <3> QED BY <3>2, <3>3, <3>5, <3>6
    <2> QED BY <2>1, <2>2
  <1>10. next_task_field' \in Seq(Fields) /\ NextFieldsExact'
    <2> DEFINE n == next_task_field
    <2>1. n \in Seq(Fields) /\ n # <<>>
      BY DEF PoolInv
    <2>2. CASE Len(q) = 1
      <3>1. next_task_field' = Tail(n) /\ matrix_tasks'[NextField] = <<>>
        BY <2>2, <1>1, <1>5, <1>6a DEF TakeTask, PoolInv
      <3>2. /\ Tail(n) \in Seq(Fields) /\ Len(Tail(n)) = Len(n) - 1
            /\ \A i \in 1 .. Len(n) - 1 : Tail(n)[i] = n[i + 1]
            /\ DOMAIN Tail(n) = 1 .. Len(n) - 1
        BY <2>1
      <3>3. \A i, j \in 1 .. Len(n) : n[i] = n[j] => i = j
        BY <2>1 DEF PoolInv, NextFieldsExact
      <3>4. \A f \in Fields : matrix_tasks[f] # <<>> <=> \E i \in 1 .. Len(n) : n[i] = f
        BY <2>1 DEF PoolInv, NextFieldsExact
      <3>5. ASSUME NEW i \in 1 .. Len(n) - 1, NEW j \in 1 .. Len(n) - 1,
                   Tail(n)[i] = Tail(n)[j]
            PROVE  i = j
        <4>1. i + 1 \in 1 .. Len(n) /\ j + 1 \in 1 .. Len(n)
          BY <2>1
        <4>2. n[i + 1] = n[j + 1]
          BY <3>2, <3>5
        <4> QED BY <4>1, <4>2, <3>3
      <3>6. ASSUME NEW f \in Fields
            PROVE  matrix_tasks'[f] # <<>> <=> \E i \in DOMAIN Tail(n) : Tail(n)[i] = f
        <4>1. CASE f = NextField
          <5>1. \A i \in 1 .. Len(n) - 1 : n[i + 1] # NextField
            BY <1>2, <3>3, <2>1
          <5> QED BY <4>1, <5>1, <3>1, <3>2
        <4>2. CASE f # NextField
          <5>1. matrix_tasks'[f] = matrix_tasks[f]
            BY <4>2, <1>5 DEF PoolInv
          <5>2. ASSUME NEW i \in 1 .. Len(n), n[i] = f
                PROVE  \E k \in 1 .. Len(n) - 1 : Tail(n)[k] = f
            <6>1. i # 1
              BY <4>2, <5>2, <1>2
            <6>2. i - 1 \in 1 .. Len(n) - 1 /\ (i - 1) + 1 = i
              BY <6>1, <2>1
            <6> QED BY <6>2, <5>2, <3>2
          <5>3. ASSUME NEW k \in 1 .. Len(n) - 1, Tail(n)[k] = f
                PROVE  \E i \in 1 .. Len(n) : n[i] = f
            <6>1. k + 1 \in 1 .. Len(n)
              BY <2>1
            <6> QED BY <6>1, <5>3, <3>2
          <5> QED BY <5>1, <5>2, <5>3, <3>2, <3>4
        <4> QED BY <4>1, <4>2
      <3> QED BY <3>1, <3>2, <3>5, <3>6 DEF NextFieldsExact
    <2>3. CASE Len(q) # 1
      <3>1. next_task_field' = n /\ Tail(q) # <<>>
        BY <2>3, <1>6a DEF TakeTask
      <3>2. \A f \in Fields : matrix_tasks'[f] # <<>> <=> matrix_tasks[f] # <<>>
        BY <3>1, <1>1, <1>2, <1>5 DEF PoolInv
      <3> QED BY <2>1, <3>1, <3>2 DEF PoolInv, NextFieldsExact
    <2> QED BY <2>2, <2>3
  <1>11. ~mutex_tasks_leaked'
    BY DEF TakeTask, PoolInv
  <1> QED
    BY <1>2, <1>3, <1>4, <1>7, <1>8, <1>9, <1>10, <1>11 DEF PoolInv

\* A task returns to the pool, at the end of its field's queue.
LEMMA ReassignTaskPool ==
  ASSUME PoolInv, NEW t \in Tasks, ~Queued(t), ReassignTask(t)
  PROVE  /\ PoolInv'
         /\ \A u \in Tasks : Queued(u)' <=> Queued(u) \/ u = t
  <1> DEFINE q == matrix_tasks[t.field]
             r == Append(q, t)
             n == next_task_field
  <1>1. t.field \in Fields /\ q \in Seq(Tasks) /\ n \in Seq(Fields)
    BY DEF PoolInv, Tasks
  <1>2. matrix_tasks' = [matrix_tasks EXCEPT ![t.field] = r]
    BY DEF ReassignTask
  <1>3. /\ r \in Seq(Tasks) /\ DOMAIN r = 1 .. Len(q) + 1
        /\ \A i \in 1 .. Len(q) : r[i] = q[i]
        /\ r[Len(q) + 1] = t
        /\ r # <<>>
        /\ Len(q) \in Nat
    BY <1>1
  <1>4. \A i, j \in 1 .. Len(q) :
          q[i].field = t.field /\ q[i] # t /\ (q[i] = q[j] => i = j)
    BY <1>1 DEF PoolInv, QueuedOnce, Queued
  <1>5. matrix_tasks' \in [Fields -> Seq(Tasks)]
    BY <1>1, <1>2, <1>3 DEF PoolInv
  <1>6. \A f \in Fields : matrix_tasks'[f] = IF f = t.field THEN r ELSE matrix_tasks[f]
    BY <1>1, <1>2 DEF PoolInv
  <1>7. QueuedOnce'
    <2> SUFFICES ASSUME NEW f \in Fields,
                        NEW i \in DOMAIN matrix_tasks'[f], NEW j \in DOMAIN matrix_tasks'[f]
                 PROVE  /\ matrix_tasks'[f][i].field = f
                        /\ matrix_tasks'[f][i] = matrix_tasks'[f][j] => i = j
      BY DEF QueuedOnce
    <2>1. CASE f = t.field
      <3>1. matrix_tasks'[f] = r
        BY <2>1, <1>6
      <3>2. (i \in 1 .. Len(q) \/ i = Len(q) + 1) /\ (j \in 1 .. Len(q) \/ j = Len(q) + 1)
        BY <3>1, <1>3
      <3> QED BY <2>1, <3>1, <3>2, <1>3, <1>4
    <2>2. CASE f # t.field
      BY <2>2, <1>6 DEF PoolInv, QueuedOnce
    <2> QED BY <2>1, <2>2
  <1>8. \A u \in Tasks : Queued(u)' <=> Queued(u) \/ u = t
    <2> SUFFICES ASSUME NEW u \in Tasks
                 PROVE  Queued(u)' <=> Queued(u) \/ u = t
      OBVIOUS
    <2>0. u.field \in Fields
      BY DEF Tasks
    <2>1. CASE u.field = t.field
      <3>1. Queued(u)' <=> \E i \in 1 .. Len(q) + 1 : r[i] = u
        BY <2>0, <2>1, <1>3, <1>6 DEF Queued
      <3>2. Queued(u) <=> \E i \in 1 .. Len(q) : q[i] = u
        BY <2>1, <1>1 DEF Queued
      <3>3. (\E i \in 1 .. Len(q) + 1 : r[i] = u) <=> ((\E i \in 1 .. Len(q) : r[i] = u) \/ u = t)
        <4>1. /\ Len(q) + 1 \in 1 .. Len(q) + 1
              /\ \A i \in 1 .. Len(q) + 1 : i \in 1 .. Len(q) \/ i = Len(q) + 1
              /\ \A i \in 1 .. Len(q) : i \in 1 .. Len(q) + 1
          BY <1>3
        <4> QED BY <4>1, <1>3
      <3> QED BY <3>1, <3>2, <3>3, <1>3
    <2>2. CASE u.field # t.field
      BY <2>0, <2>2, <1>6 DEF Queued
    <2> QED BY <2>1, <2>2
  <1>9. next_task_field' \in Seq(Fields) /\ NextFieldsExact'
    <2>1. /\ \A i, j \in 1 .. Len(n) : n[i] = n[j] => i = j
          /\ \A f \in Fields : matrix_tasks[f] # <<>> <=> \E i \in 1 .. Len(n) : n[i] = f
      BY <1>1 DEF PoolInv, NextFieldsExact
    <2>2. CASE q = <<>>
      <3> DEFINE m == Append(n, t.field)
      <3>1. next_task_field' = m
        BY <2>2 DEF ReassignTask
      <3>2. /\ m \in Seq(Fields) /\ DOMAIN m = 1 .. Len(n) + 1
            /\ \A i \in 1 .. Len(n) : m[i] = n[i]
            /\ m[Len(n) + 1] = t.field
            /\ Len(n) \in Nat
        BY <1>1
      <3>3. \A i \in 1 .. Len(n) : n[i] # t.field
        BY <2>1, <2>2, <1>1
      <3>4. /\ Len(n) + 1 \in DOMAIN m
            /\ \A i \in DOMAIN m : i \in 1 .. Len(n) \/ i = Len(n) + 1
            /\ \A i \in 1 .. Len(n) : i \in DOMAIN m
        BY <3>2
      <3>5. \A i, j \in DOMAIN m : m[i] = m[j] => i = j
        BY <2>1, <3>2, <3>3, <3>4
      <3>6. ASSUME NEW f \in Fields
            PROVE  matrix_tasks'[f] # <<>> <=> \E i \in DOMAIN m : m[i] = f
        <4>1. CASE f = t.field
          BY <4>1, <3>2, <3>4, <1>3, <1>6
        <4>2. CASE f # t.field
          <5>1. matrix_tasks'[f] = matrix_tasks[f]
            BY <4>2, <1>6
          <5>2. (\E i \in DOMAIN m : m[i] = f) <=> (\E i \in 1 .. Len(n) : n[i] = f)
            BY <4>2, <3>2, <3>4
          <5> QED BY <5>1, <5>2, <2>1
        <4> QED BY <4>1, <4>2
      <3> QED BY <3>1, <3>2, <3>5, <3>6 DEF NextFieldsExact
    <2>3. CASE q # <<>>
      <3>1. next_task_field' = n
        BY <2>3 DEF ReassignTask
      <3>2. \A f \in Fields : matrix_tasks'[f] # <<>> <=> matrix_tasks[f] # <<>>
        BY <2>3, <1>3, <1>6
      <3> QED BY <1>1, <3>1, <3>2 DEF PoolInv, NextFieldsExact
    <2> QED BY <2>2, <2>3
  <1>10. ~mutex_tasks_leaked'
    BY DEF ReassignTask, PoolInv
  <1> QED
    BY <1>5, <1>7, <1>8, <1>9, <1>10 DEF PoolInv

-----------------------------------------------------------------------------
(***************************************************************************)
(* The inductive invariant                                                 *)
(***************************************************************************)

\* The types, without the upper bounds of the pool's counters, which CountInv
\* gives.
TypeInv ==
  /\ matrix_stored_chunks \in [Fields -> Nat]
  /\ finished_fields \in Nat
  /\ mutex_tasks_leaked \in BOOLEAN
  /\ pc \in [Workers -> ThreadStates]
  /\ task \in [Workers -> Tasks \cup {NoTask}]
  /\ last_chunk \in [Workers -> BOOLEAN]
  /\ worker_status \in [Workers -> {WAITING_FOR_TASK, BLOCKED}]
  /\ blocked_workers \in Nat
  /\ store_holder \in Workers \cup {Nobody}
  /\ finished_calculation \in BOOLEAN
  /\ main \in {"loop", "healthcheck", "await", "join", "done", "terminated"}
  /\ hc_worker \in 0 .. NumberWorkers
  /\ (main = "await" => hc_worker < NumberWorkers)
  /\ timed_out \in BOOLEAN
  /\ added \in [Tasks -> Nat]
  /\ announced \subseteq Fields
  /\ failures \in 0 .. MaxFailures

HeldInv ==
  /\ \A w \in Workers : pc[w] \in Holding => task[w] \in Tasks /\ ~Queued(task[w])
  /\ \A v, w \in Workers :
       pc[v] \in Holding /\ pc[w] \in Holding /\ task[v] = task[w] => v = w
  /\ \A w \in Workers : pc[w] = "stored" => added[task[w]] > 0

ReportedChunks(f) == {c \in Chunks : Reported([field |-> f, chunk |-> c])}
CompleteFields == {f \in Fields : matrix_stored_chunks[f] = ChunksPerRow}

CountInv ==
  /\ \A f \in Fields : matrix_stored_chunks[f] = Cardinality(ReportedChunks(f))
  /\ finished_fields = Cardinality(CompleteFields)
  /\ \A t \in Tasks : Reported(t) => added[t] > 0

IInv == TypeInv /\ PoolInv /\ HeldInv /\ CountInv

-----------------------------------------------------------------------------
(***************************************************************************)
(* Facts about sets of chunks and fields                                   *)
(***************************************************************************)

\* Sets of chunks and of fields are finite, and no larger than all of them.
LEMMA FiniteChunks ==
  ASSUME NEW S \in SUBSET Chunks
  PROVE  /\ IsFiniteSet(S)
         /\ Cardinality(S) \in 0 .. ChunksPerRow
  <1>1. ChunksPerRow \in Nat \ {0}
    BY TaskPoolAssumption
  <1>2. IsFiniteSet(Chunks) /\ Cardinality(Chunks) = ChunksPerRow
    BY <1>1, FS_Interval DEF Chunks
  <1>3. IsFiniteSet(S) /\ Cardinality(S) <= ChunksPerRow
    BY <1>2, FS_Subset
  <1>4. Cardinality(S) \in Nat
    BY <1>3, FS_CardinalityType
  <1> QED BY <1>1, <1>3, <1>4

LEMMA FiniteFields ==
  ASSUME NEW S \in SUBSET Fields
  PROVE  /\ IsFiniteSet(S)
         /\ Cardinality(S) \in 0 .. NumberFields
  <1>1. NumberFields \in Nat
    BY TaskPoolAssumption
  <1>2. IsFiniteSet(Fields) /\ Cardinality(Fields) = NumberFields
    BY <1>1, FS_Interval DEF Fields
  <1>3. IsFiniteSet(S) /\ Cardinality(S) <= NumberFields
    BY <1>2, FS_Subset
  <1>4. Cardinality(S) \in Nat
    BY <1>3, FS_CardinalityType
  <1> QED BY <1>1, <1>3, <1>4

-----------------------------------------------------------------------------
(***************************************************************************)
(* The steps that move no task                                             *)
(***************************************************************************)

\* No task is reported, and none is taken back from the stored ones.
ReportedUnchanged == \A t \in Tasks : Reported(t)' <=> Reported(t)

\* Nothing about the tasks changes: the pool is unchanged, no thread starts or
\* stops holding a task, and the database at most gains chunks.
QuietStep ==
  /\ UNCHANGED poolVars
  /\ \A w \in Workers : pc'[w] \in Holding <=> pc[w] \in Holding
  /\ \A w \in Workers : pc[w] \in Holding => task'[w] = task[w]
  /\ \A t \in Tasks : added[t] > 0 => added'[t] > 0
  /\ \A w \in Workers : pc'[w] = "stored" => added'[task'[w]] > 0

LEMMA QuietStepKeeps ==
  ASSUME TypeInv, PoolInv, HeldInv, CountInv, QuietStep
  PROVE  PoolInv' /\ HeldInv' /\ CountInv' /\ ReportedUnchanged
  <1>1. \A t : Queued(t)' <=> Queued(t)
    BY DEF QuietStep, poolVars, Queued
  <1>2. PoolInv'
    BY DEF QuietStep, poolVars, PoolInv, QueuedOnce, NextFieldsExact
  <1>3. \A w \in Workers : \A t : Held(w, t)' <=> Held(w, t)
    BY DEF QuietStep, Held
  <1>4. \A t : Reported(t)' <=> Reported(t)
    BY <1>1, <1>3 DEF Reported
  <1>5. HeldInv'
    BY <1>1 DEF HeldInv, QuietStep
  <1>6. \A f \in Fields : ReportedChunks(f)' = ReportedChunks(f)
    BY <1>4 DEF ReportedChunks
  <1>7. CompleteFields' = CompleteFields
    BY DEF CompleteFields, QuietStep, poolVars
  <1>8. CountInv'
    BY <1>4, <1>6, <1>7 DEF CountInv, QuietStep, poolVars
  <1> QED BY <1>2, <1>4, <1>5, <1>8 DEF ReportedUnchanged

-----------------------------------------------------------------------------
(***************************************************************************)
(* The steps that move a task                                              *)
(***************************************************************************)

\* A thread takes a task: it is responsible for it instead of the pool.
LEMMA TakeKeeps ==
  ASSUME TypeInv, PoolInv, HeldInv, CountInv,
         NEW w \in Workers, pc[w] \notin Holding,
         next_task_field # <<>>, TakeTask,
         task' = [task EXCEPT ![w] = NextTask],
         pc' = [pc EXCEPT ![w] = "calc"],
         UNCHANGED added
  PROVE  PoolInv' /\ HeldInv' /\ CountInv' /\ ReportedUnchanged
  <1> DEFINE t == NextTask
  <1>1. /\ t \in Tasks /\ Queued(t) /\ PoolInv'
        /\ \A u \in Tasks : Queued(u)' <=> Queued(u) /\ u # t
    BY TakeTaskPool
  <1>2. /\ task'[w] = t /\ pc'[w] = "calc"
        /\ \A v \in Workers \ {w} : task'[v] = task[v] /\ pc'[v] = pc[v]
    BY DEF TypeInv
  <1>3. "calc" \in Holding /\ "calc" # "stored"
    BY DEF Holding
  <1>4. \A v \in Workers \ {w} : pc[v] \in Holding => task[v] # t
    BY <1>1 DEF HeldInv
  <1>5. HeldInv'
    <2>1. ASSUME NEW v \in Workers, pc'[v] \in Holding
          PROVE  task'[v] \in Tasks /\ ~Queued(task[v])'
      <3>1. CASE v = w
        BY <3>1, <1>1, <1>2 DEF Queued
      <3>2. CASE v # w
        <4>1. PICK u \in Tasks : u = task[v] /\ ~Queued(u)
          BY <3>2, <2>1, <1>2 DEF HeldInv
        <4>2. ~Queued(u)'
          BY <4>1, <1>1
        <4> QED BY <4>1, <4>2, <3>2, <1>2 DEF Queued
      <3> QED BY <3>1, <3>2
    <2>2. ASSUME NEW u \in Workers, NEW v \in Workers,
                 pc'[u] \in Holding, pc'[v] \in Holding, task'[u] = task'[v]
          PROVE  u = v
      BY <2>2, <1>2, <1>4 DEF HeldInv
    <2>3. ASSUME NEW v \in Workers, pc'[v] = "stored"
          PROVE  added'[task'[v]] > 0
      BY <2>3, <1>2, <1>3 DEF HeldInv
    <2> QED BY <2>1, <2>2, <2>3 DEF HeldInv
  <1>6. \A u \in Tasks : Reported(u)' <=> Reported(u)
    BY <1>1, <1>2, <1>3 DEF Reported, Held
  <1>7. \A f \in Fields : ReportedChunks(f)' = ReportedChunks(f)
    BY <1>6 DEF ReportedChunks, Tasks
  <1>8. CompleteFields' = CompleteFields
    BY DEF CompleteFields, TakeTask
  <1>9. CountInv'
    BY <1>6, <1>7, <1>8 DEF CountInv, TakeTask
  <1> QED BY <1>1, <1>5, <1>6, <1>9 DEF ReportedUnchanged

\* A thread gives its task back: the pool is responsible for it again.
LEMMA ReassignKeeps ==
  ASSUME TypeInv, PoolInv, HeldInv, CountInv,
         NEW w \in Workers, pc[w] \in Holding,
         ReassignTask(task[w]),
         task' = [task EXCEPT ![w] = NoTask],
         NEW label \in ThreadStates \ Holding,
         pc' = [pc EXCEPT ![w] = label],
         UNCHANGED added
  PROVE  PoolInv' /\ HeldInv' /\ CountInv' /\ ReportedUnchanged
  <1> DEFINE t == task[w]
  <1>1. t \in Tasks /\ ~Queued(t)
    BY DEF HeldInv
  <1>2. PoolInv' /\ \A u \in Tasks : Queued(u)' <=> Queued(u) \/ u = t
    <2> HIDE DEF t
    <2> QED BY <1>1, ReassignTaskPool DEF t
  <1>3. /\ pc'[w] \notin Holding /\ pc'[w] # "stored"
        /\ \A v \in Workers \ {w} : task'[v] = task[v] /\ pc'[v] = pc[v]
    BY DEF TypeInv, Holding
  <1>4. \A v \in Workers \ {w} : pc[v] \in Holding => task[v] # t
    BY DEF HeldInv
  <1>5. HeldInv'
    <2>1. ASSUME NEW v \in Workers, pc'[v] \in Holding
          PROVE  task'[v] \in Tasks /\ ~Queued(task[v])'
      <3>1. v # w /\ task'[v] = task[v] /\ pc[v] \in Holding
        BY <2>1, <1>3
      <3>2. PICK u \in Tasks : u = task[v] /\ ~Queued(u) /\ u # t
        BY <3>1, <1>4 DEF HeldInv
      <3>3. ~Queued(u)'
        BY <3>2, <1>2
      <3> QED BY <3>1, <3>2, <3>3 DEF Queued
    <2>2. ASSUME NEW u \in Workers, NEW v \in Workers,
                 pc'[u] \in Holding, pc'[v] \in Holding, task'[u] = task'[v]
          PROVE  u = v
      BY <2>2, <1>3 DEF HeldInv
    <2>3. ASSUME NEW v \in Workers, pc'[v] = "stored"
          PROVE  added'[task'[v]] > 0
      BY <2>3, <1>3 DEF HeldInv
    <2> QED BY <2>1, <2>2, <2>3 DEF HeldInv
  <1>6. \A u \in Tasks : Reported(u)' <=> Reported(u)
    BY <1>2, <1>3 DEF Reported, Held
  <1>7. \A f \in Fields : ReportedChunks(f)' = ReportedChunks(f)
    BY <1>6 DEF ReportedChunks, Tasks
  <1>8. CompleteFields' = CompleteFields
    BY DEF CompleteFields, ReassignTask
  <1>9. CountInv'
    BY <1>6, <1>7, <1>8 DEF CountInv, ReassignTask
  <1> QED BY <1>2, <1>5, <1>6, <1>9 DEF ReportedUnchanged

\* A thread reports its task as stored: nobody is responsible any more, and
\* one more chunk, possibly one more field, is counted.
LEMMA ReportKeeps ==
  ASSUME TypeInv, PoolInv, HeldInv, CountInv,
         NEW w \in Workers, ResultStored(w)
  PROVE  /\ matrix_stored_chunks' \in [Fields -> Nat] /\ finished_fields' \in Nat
         /\ PoolInv' /\ HeldInv' /\ CountInv'
         /\ \A u \in Tasks : Reported(u)' <=> Reported(u) \/ u = task[w]
  <1> DEFINE t == task[w]
             stored_chunks == matrix_stored_chunks[t.field] + 1
  <1>1. /\ t \in Tasks /\ ~Queued(t) /\ added[t] > 0
        /\ t.field \in Fields /\ t.chunk \in Chunks
        /\ t = [field |-> t.field, chunk |-> t.chunk]
    BY DEF HeldInv, ResultStored, Holding, Tasks
  <1>2. /\ pc[w] \in Holding /\ pc'[w] \notin Holding /\ pc'[w] # "stored"
        /\ \A v \in Workers \ {w} : task'[v] = task[v] /\ pc'[v] = pc[v]
    BY DEF TypeInv, Holding, ResultStored, Goto
  <1>3. \A v \in Workers \ {w} : pc[v] \in Holding => task[v] # t
    BY <1>2 DEF HeldInv
  <1>4. UNCHANGED <<matrix_tasks, next_task_field, mutex_tasks_leaked, added>>
    BY DEF ResultStored, InformAboutStoredResult, databaseVars
  <1>5. PoolInv' /\ \A u : Queued(u)' <=> Queued(u)
    BY <1>4 DEF PoolInv, QueuedOnce, NextFieldsExact, Queued
  <1>6. HeldInv'
    <2>1. ASSUME NEW v \in Workers, pc'[v] \in Holding
          PROVE  v # w /\ task'[v] = task[v] /\ pc[v] \in Holding /\ pc'[v] = pc[v]
      BY <2>1, <1>2
    <2>2. ASSUME NEW v \in Workers, pc'[v] \in Holding
          PROVE  task'[v] \in Tasks /\ ~Queued(task[v])'
      BY <2>1, <2>2, <1>4 DEF HeldInv, Queued
    <2> QED BY <2>1, <2>2, <1>2, <1>4 DEF HeldInv
  <1>7. \A u \in Tasks : Reported(u)' <=> Reported(u) \/ u = t
    BY <1>1, <1>2, <1>3, <1>5 DEF Reported, Held
  <1>8. ~Reported(t)
    BY <1>2 DEF Reported, Held
  <1>9. matrix_stored_chunks' = [matrix_stored_chunks EXCEPT ![t.field] = stored_chunks]
    BY DEF ResultStored, InformAboutStoredResult
  <1>10. \A f \in Fields : matrix_stored_chunks'[f] = Cardinality(ReportedChunks(f)')
    <2> SUFFICES ASSUME NEW f \in Fields
                 PROVE  matrix_stored_chunks'[f] = Cardinality(ReportedChunks(f)')
      OBVIOUS
    <2>1. CASE f = t.field
      <3>1. ReportedChunks(f)' = ReportedChunks(f) \cup {t.chunk}
        BY <2>1, <1>1, <1>7 DEF ReportedChunks, Tasks
      <3>2. t.chunk \notin ReportedChunks(f)
        BY <2>1, <1>1, <1>8 DEF ReportedChunks
      <3>3. IsFiniteSet(ReportedChunks(f))
        BY FiniteChunks DEF ReportedChunks
      <3>4. Cardinality(ReportedChunks(f)') = Cardinality(ReportedChunks(f)) + 1
        BY <3>1, <3>2, <3>3, FS_AddElement
      <3> QED BY <2>1, <3>4, <1>1, <1>9 DEF CountInv, TypeInv
    <2>2. CASE f # t.field
      <3>1. ReportedChunks(f)' = ReportedChunks(f)
        BY <2>2, <1>1, <1>7 DEF ReportedChunks, Tasks
      <3> QED BY <2>2, <3>1, <1>1, <1>9 DEF CountInv, TypeInv
    <2> QED BY <2>1, <2>2
  <1>11. finished_fields' = Cardinality(CompleteFields')
    <2>1. stored_chunks \in 0 .. ChunksPerRow
      <3>1. PICK f \in Fields : f = t.field
        BY <1>1
      <3>2. stored_chunks = Cardinality(ReportedChunks(f)')
        BY <3>1, <1>9, <1>10 DEF TypeInv
      <3>3. ReportedChunks(f)' \in SUBSET Chunks
        BY DEF ReportedChunks
      <3> QED BY <3>2, <3>3, FiniteChunks
    <2>2. t.field \notin CompleteFields
      BY <2>1, <1>1, TaskPoolAssumption DEF CompleteFields, TypeInv
    <2>3. IsFiniteSet(CompleteFields)
      BY FiniteFields DEF CompleteFields
    <2>4. CASE stored_chunks = ChunksPerRow
      <3>1. CompleteFields' = CompleteFields \cup {t.field}
        BY <2>4, <1>1, <1>9 DEF CompleteFields, TypeInv
      <3>2. Cardinality(CompleteFields') = Cardinality(CompleteFields) + 1
        BY <3>1, <2>2, <2>3, FS_AddElement
      <3> QED BY <2>4, <3>2 DEF CountInv, ResultStored, InformAboutStoredResult
    <2>5. CASE stored_chunks # ChunksPerRow
      <3>1. CompleteFields' = CompleteFields
        BY <2>5, <2>2, <1>1, <1>9 DEF CompleteFields, TypeInv
      <3> QED BY <2>5, <3>1 DEF CountInv, ResultStored, InformAboutStoredResult
    <2> QED BY <2>4, <2>5
  <1>12. \A u \in Tasks : Reported(u)' => added'[u] > 0
    BY <1>1, <1>4, <1>7 DEF CountInv
  <1>13. CountInv'
    BY <1>10, <1>11, <1>12 DEF CountInv
  <1>14. matrix_stored_chunks' \in [Fields -> Nat] /\ finished_fields' \in Nat
    BY <1>1, <1>9 DEF TypeInv, ResultStored, InformAboutStoredResult
  <1> QED BY <1>5, <1>6, <1>7, <1>13, <1>14

-----------------------------------------------------------------------------
(***************************************************************************)
(* The invariant                                                           *)
(***************************************************************************)

\* Initially every task is queued at its field and every field is listed.
LEMMA InitIInv == Init => IInv
  <1> SUFFICES ASSUME Init PROVE IInv
    OBVIOUS
  <1>0. NumberFields \in Nat /\ ChunksPerRow \in Nat \ {0} /\ NumberWorkers \in Nat \ {0}
    BY TaskPoolAssumption, ControllerAssumption
  <1>1. TypeInv
    <2>1. /\ matrix_stored_chunks \in [Fields -> Nat] /\ finished_fields \in Nat
          /\ added \in [Tasks -> Nat] /\ blocked_workers \in Nat
          /\ mutex_tasks_leaked \in BOOLEAN
      BY DEF Init, PoolInit
    <2>2. /\ pc \in [Workers -> ThreadStates]
          /\ task \in [Workers -> Tasks \cup {NoTask}]
          /\ last_chunk \in [Workers -> BOOLEAN]
          /\ worker_status \in [Workers -> {WAITING_FOR_TASK, BLOCKED}]
      BY DEF Init, ThreadStates
    <2>3. hc_worker \in 0 .. NumberWorkers /\ failures \in 0 .. MaxFailures
      BY <1>0, ControllerAssumption DEF Init
    <2> QED BY <2>1, <2>2, <2>3 DEF Init, TypeInv
  <1>2. ASSUME NEW f \in Fields
        PROVE  /\ matrix_tasks[f] = [c \in 1 .. ChunksPerRow |-> [field |-> f, chunk |-> c]]
               /\ matrix_tasks[f] \in Seq(Tasks)
               /\ DOMAIN matrix_tasks[f] = 1 .. ChunksPerRow
               /\ matrix_tasks[f] # <<>>
    <2> DEFINE q == [c \in 1 .. ChunksPerRow |-> [field |-> f, chunk |-> c]]
    <2>1. matrix_tasks[f] = q
      BY DEF Init, PoolInit, Chunks
    <2>2. q \in [1 .. ChunksPerRow -> Tasks]
      BY DEF Tasks, Chunks
    <2>3. q \in Seq(Tasks)
      BY <1>0, <2>2
    <2>4. DOMAIN q = 1 .. ChunksPerRow /\ 1 \in DOMAIN q
      BY <1>0
    <2> QED BY <2>1, <2>3, <2>4
  <1>3. PoolInv
    <2>1. matrix_tasks \in [Fields -> Seq(Tasks)]
      BY <1>2 DEF Init, PoolInit
    <2>2. next_task_field \in Seq(Fields) /\ DOMAIN next_task_field = Fields
          /\ \A f \in Fields : next_task_field[f] = f
      BY <1>0 DEF Init, PoolInit, Fields
    <2>3. QueuedOnce
      <3>1. ASSUME NEW f \in Fields, NEW i \in DOMAIN matrix_tasks[f]
            PROVE  /\ i \in 1 .. ChunksPerRow
                   /\ matrix_tasks[f][i].field = f
                   /\ matrix_tasks[f][i].chunk = i
        <4> DEFINE q == [c \in 1 .. ChunksPerRow |-> [field |-> f, chunk |-> c]]
        <4>1. matrix_tasks[f] = q /\ i \in 1 .. ChunksPerRow
          BY <1>2
        <4>2. q[i] = [field |-> f, chunk |-> i]
          BY <4>1
        <4> QED BY <4>1, <4>2
      <3>2. SUFFICES ASSUME NEW f \in Fields,
                            NEW i \in DOMAIN matrix_tasks[f], NEW j \in DOMAIN matrix_tasks[f]
                     PROVE  /\ matrix_tasks[f][i].field = f
                            /\ matrix_tasks[f][i] = matrix_tasks[f][j] => i = j
        BY DEF QueuedOnce
      <3> QED BY <3>1
    <2>4. NextFieldsExact
      BY <1>2, <2>2 DEF NextFieldsExact
    <2> QED BY <2>1, <2>2, <2>3, <2>4 DEF PoolInv, Init, PoolInit
  <1>4. HeldInv
    BY DEF Init, HeldInv, Holding
  <1>5. \A t \in Tasks : ~Reported(t)
    <2> SUFFICES ASSUME NEW t \in Tasks PROVE Queued(t)
      BY DEF Reported
    <2>1. t.field \in Fields /\ t.chunk \in 1 .. ChunksPerRow
          /\ t = [field |-> t.field, chunk |-> t.chunk]
      BY DEF Tasks, Chunks
    <2>2. matrix_tasks[t.field][t.chunk] = t
      BY <2>1, <1>2
    <2> QED BY <2>1, <2>2, <1>2 DEF Queued
  <1>6. CountInv
    <2>1. \A f \in Fields : ReportedChunks(f) = {}
      BY <1>5 DEF ReportedChunks, Tasks
    <2>2. CompleteFields = {}
      BY <1>0 DEF CompleteFields, Init, PoolInit
    <2> QED BY <1>5, <2>1, <2>2, FS_EmptySet DEF CountInv, Init, PoolInit
  <1> QED BY <1>1, <1>3, <1>4, <1>6 DEF IInv

\* The steps of main, and time, touch neither tasks nor threads.
LEMMA MainKeeps ==
  ASSUME IInv, MainStep \/ TimeElapses
  PROVE  IInv' /\ ReportedUnchanged
  <1> USE DEF IInv
  <1>1. UNCHANGED <<poolVars, threadVars, databaseVars>>
    BY DEF MainStep, LeaveLoop, StartHealthcheck, NextHealthcheck, HealthcheckTimeout,
           HealthcheckAnswer, JoinThreads, TimeElapses
  <1>2. QuietStep
    BY <1>1 DEF QuietStep, threadVars, databaseVars, HeldInv
  <1>3. PoolInv' /\ HeldInv' /\ CountInv' /\ ReportedUnchanged
    BY <1>2, QuietStepKeeps
  <1>4. TypeInv'
    <2>1. CASE LeaveLoop
      BY <2>1 DEF LeaveLoop, TypeInv, poolVars, threadVars, databaseVars, statusVars
    <2>S. CASE StartHealthcheck
      BY <2>S, ControllerAssumption DEF StartHealthcheck, TypeInv, poolVars, threadVars,
         databaseVars, statusVars
    <2>J. CASE JoinThreads
      BY <2>J DEF JoinThreads, TypeInv, poolVars, threadVars, databaseVars, statusVars
    <2>T. CASE TimeElapses
      BY <2>T DEF TimeElapses, TypeInv, poolVars, threadVars, databaseVars, statusVars
    <2>2. CASE NextHealthcheck
      BY <2>2, ControllerAssumption DEF NextHealthcheck,
         TypeInv, poolVars, threadVars, databaseVars, statusVars
    <2>3. CASE HealthcheckTimeout
      <3>1. hc_worker' \in 0 .. NumberWorkers /\ blocked_workers' \in Nat
        BY <2>3, ControllerAssumption DEF HealthcheckTimeout, TypeInv
      <3>2. worker_status' \in [Workers -> {WAITING_FOR_TASK, BLOCKED}]
        BY <2>3 DEF HealthcheckTimeout, TypeInv
      <3> QED BY <2>3, <3>1, <3>2 DEF HealthcheckTimeout, TypeInv, poolVars, threadVars, databaseVars
    <2>4. CASE HealthcheckAnswer
      <3>1. hc_worker' \in 0 .. NumberWorkers
        BY <2>4, ControllerAssumption DEF HealthcheckAnswer, TypeInv
      <3>2. worker_status' \in [Workers -> {WAITING_FOR_TASK, BLOCKED}]
        BY <2>4 DEF HealthcheckAnswer, TypeInv
      <3> QED BY <2>4, <3>1, <3>2 DEF HealthcheckAnswer, TypeInv, poolVars, threadVars, databaseVars
    <2> QED BY <2>1, <2>S, <2>J, <2>T, <2>2, <2>3, <2>4 DEF MainStep
  <1> QED BY <1>3, <1>4

\* The steps of the control threads.
LEMMA WorkerKeeps ==
  ASSUME IInv, NEW w \in Workers, WorkerNext(w)
  PROVE  IInv' /\ (ResultStored(w) \/ ReportedUnchanged)
  <1> USE DEF IInv, Goto
  <1>1. CASE PollQueue(w) \/ PollFinished(w) \/ CalculationIsFinished(w) \/ CheckBlocked(w)
    <2>1. QuietStep
      BY <1>1 DEF PollQueue, PollFinished, CalculationIsFinished, CheckBlocked,
                  QuietStep, TypeInv, HeldInv, Holding, databaseVars
    <2>2. TypeInv'
      BY <1>1 DEF PollQueue, PollFinished, CalculationIsFinished, CheckBlocked,
                  TypeInv, ThreadStates, poolVars, mainVars, statusVars, databaseVars
    <2> QED BY <2>1, <2>2, QuietStepKeeps
  <1>2. CASE GetNextTask(w)
    <2>1. CASE next_task_field = <<>>
      <3>1. QuietStep
        BY <1>2, <2>1 DEF GetNextTask, QuietStep, TypeInv, HeldInv, Holding, databaseVars
      <3>2. TypeInv'
        BY <1>2, <2>1 DEF GetNextTask, TypeInv, ThreadStates, poolVars, mainVars,
                          statusVars, databaseVars
      <3> QED BY <3>1, <3>2, QuietStepKeeps
    <2>2. CASE next_task_field # <<>>
      <3>1. /\ task' = [task EXCEPT ![w] = NextTask] /\ TakeTask
            /\ pc' = [pc EXCEPT ![w] = "calc"] /\ pc[w] = "fetch"
        BY <1>2, <2>2, NextFieldHasTask DEF GetNextTask
      <3>2. NextTask \in Tasks
        BY <2>2, <3>1, TakeTaskPool
      <3>3. TypeInv'
        BY <1>2, <3>1, <3>2 DEF GetNextTask, TakeTask, TypeInv, ThreadStates, Holding,
           mainVars, statusVars, databaseVars
      <3>4. pc[w] \notin Holding /\ UNCHANGED added
        BY <1>2, <3>1 DEF GetNextTask, Holding, databaseVars
      <3> QED BY <2>2, <3>1, <3>3, <3>4, TakeKeeps
    <2> QED BY <2>1, <2>2
  <1>3. CASE CalcTask(w)
    <2>1. /\ pc[w] = "calc" /\ pc' = [pc EXCEPT ![w] = "calculated"]
          /\ UNCHANGED <<task, poolVars, last_chunk, store_holder, finished_calculation>>
          /\ UNCHANGED <<mainVars, statusVars, databaseVars>>
      BY <1>3 DEF CalcTask, CalcTaskResults
    <2>2. QuietStep
      BY <2>1 DEF QuietStep, TypeInv, HeldInv, Holding, databaseVars
    <2>3. TypeInv'
      BY <2>1 DEF TypeInv, ThreadStates, Holding, poolVars, mainVars, statusVars, databaseVars
    <2> QED BY <2>2, <2>3, QuietStepKeeps
  <1>4. CASE CheckBlockedAgain(w)
    <2>1. CASE worker_status[w] = BLOCKED
      <3>1. /\ pc[w] \in Holding /\ ReassignTask(task[w]) /\ UNCHANGED added
            /\ task' = [task EXCEPT ![w] = NoTask]
            /\ pc' = [pc EXCEPT ![w] = "exited"]
            /\ "exited" \in ThreadStates \ Holding
        BY <1>4, <2>1 DEF CheckBlockedAgain, Holding, ThreadStates, databaseVars
      <3>2. TypeInv'
        BY <1>4, <3>1 DEF CheckBlockedAgain, ReassignTask, TypeInv, mainVars, statusVars,
           databaseVars
      <3> QED BY <3>1, <3>2, ReassignKeeps
    <2>2. CASE worker_status[w] # BLOCKED
      <3>1. QuietStep
        BY <1>4, <2>2 DEF CheckBlockedAgain, QuietStep, TypeInv, HeldInv, Holding, databaseVars
      <3>2. TypeInv'
        BY <1>4, <2>2 DEF CheckBlockedAgain, TypeInv, ThreadStates, Holding, poolVars,
           mainVars, statusVars, databaseVars
      <3> QED BY <3>1, <3>2, QuietStepKeeps
    <2> QED BY <2>1, <2>2
  <1>5. CASE LockStore(w)
    <2>1. QuietStep
      BY <1>5 DEF LockStore, QuietStep, TypeInv, HeldInv, Holding, databaseVars
    <2>2. LastChunk(task[w]) \in BOOLEAN
      BY DEF LastChunk
    <2>3. TypeInv'
      BY <1>5, <2>2 DEF LockStore, TypeInv, ThreadStates, Holding, poolVars, mainVars,
         statusVars, databaseVars
    <2> QED BY <2>1, <2>3, QuietStepKeeps
  <1>6. CASE StoreResult(w)
    <2>1. task[w] \in Tasks /\ task[w].field \in Fields
      BY <1>6 DEF StoreResult, HeldInv, Holding, Tasks
    <2>2. QuietStep
      BY <1>6, <2>1 DEF StoreResult, QuietStep, TypeInv, HeldInv, Holding
    <2>3. TypeInv'
      BY <1>6, <2>1 DEF StoreResult, TypeInv, ThreadStates, Holding, poolVars, mainVars,
         statusVars
    <2> QED BY <2>2, <2>3, QuietStepKeeps
  <1>7. CASE ResultStored(w)
    <2>1. /\ matrix_stored_chunks' \in [Fields -> Nat] /\ finished_fields' \in Nat
          /\ PoolInv' /\ HeldInv' /\ CountInv'
      BY <1>7, ReportKeeps
    <2>2. TypeInv'
      BY <1>7, <2>1 DEF ResultStored, InformAboutStoredResult, TypeInv, ThreadStates, mainVars, statusVars, databaseVars
    <2> QED BY <1>7, <2>1, <2>2
  <1>8. CASE ResultNotStored(w)
    <2>1. /\ pc[w] \in Holding /\ ReassignTask(task[w]) /\ UNCHANGED added
          /\ task' = [task EXCEPT ![w] = NoTask]
          /\ pc' = [pc EXCEPT ![w] = "poll"]
          /\ "poll" \in ThreadStates \ Holding
      BY <1>8 DEF ResultNotStored, Holding, ThreadStates
    <2>2. failures' \in 0 .. MaxFailures
      BY <1>8, ControllerAssumption DEF ResultNotStored, TypeInv
    <2>3. TypeInv'
      BY <1>8, <2>1, <2>2 DEF ResultNotStored, ReassignTask, TypeInv, mainVars
    <2> QED BY <2>1, <2>3, ReassignKeeps
  <1>9. CASE ConnectionLost(w)
    <2>1. QuietStep
      BY <1>9 DEF ConnectionLost, QuietStep, threadVars, databaseVars, HeldInv
    <2>2. TypeInv'
      BY <1>9 DEF ConnectionLost, TypeInv, poolVars, threadVars, statusVars, databaseVars
    <2> QED BY <2>1, <2>2, QuietStepKeeps
  <1> QED BY <1>1, <1>2, <1>3, <1>4, <1>5, <1>6, <1>7, <1>8, <1>9
          DEF WorkerNext, LocalStep, RpcStep

\* A step of Next reports no task, except the one that ends sendTaskResult.
LEMMA NextIInv ==
  ASSUME IInv, [Next]_vars
  PROVE  IInv' /\ (ReportedUnchanged \/ \E w \in Workers : ResultStored(w))
  <1>1. CASE UNCHANGED vars
    <2>1. QuietStep /\ TypeInv'
      BY <1>1 DEF vars, threadVars, mainVars, statusVars, databaseVars, poolVars,
                  QuietStep, IInv, TypeInv, HeldInv
    <2> QED BY <2>1, QuietStepKeeps DEF IInv
  <1>2. CASE \E w \in Workers : WorkerNext(w)
    BY <1>2, WorkerKeeps
  <1>3. CASE MainStep \/ TimeElapses
    BY <1>3, MainKeeps
  <1> QED BY <1>1, <1>2, <1>3 DEF Next, Stopped

LEMMA Inductive == Spec => []IInv
  <1>1. IInv /\ [Next]_vars => IInv'
    BY NextIInv
  <1> QED BY <1>1, InitIInv, PTL DEF Spec

-----------------------------------------------------------------------------
(***************************************************************************)
(* The theorems                                                            *)
(***************************************************************************)

\* The counters of stored chunks and finished fields never exceed the number
\* of chunks of a field and of fields, because they count sets of them.
THEOREM TypeCorrect == Spec => []TypeOK
  <1>1. IInv => TypeOK
    <2> SUFFICES ASSUME IInv PROVE TypeOK
      OBVIOUS
    <2>1. matrix_stored_chunks \in [Fields -> 0 .. ChunksPerRow]
      <3>1. \A f \in Fields : matrix_stored_chunks[f] \in 0 .. ChunksPerRow
        <4> SUFFICES ASSUME NEW f \in Fields
                     PROVE  matrix_stored_chunks[f] \in 0 .. ChunksPerRow
          OBVIOUS
        <4>1. ReportedChunks(f) \in SUBSET Chunks
          BY DEF ReportedChunks
        <4>2. Cardinality(ReportedChunks(f)) \in 0 .. ChunksPerRow
          BY <4>1, FiniteChunks
        <4> QED BY <4>2 DEF IInv, CountInv
      <3> QED BY <3>1 DEF IInv, TypeInv
    <2>2. finished_fields \in 0 .. NumberFields
      <3>1. CompleteFields \in SUBSET Fields
        BY DEF CompleteFields
      <3> QED BY <3>1, FiniteFields DEF IInv, CountInv
    <2> QED BY <2>1, <2>2 DEF IInv, TypeInv, PoolInv, TypeOK, PoolTypeOK
  <1> QED BY <1>1, Inductive, PTL

\* No task is lost or handed out twice by the interplay of getNextTask(),
\* reassignTask() and informAboutStoredResult(), for any number of workers.
THEOREM ConservationOfTasks == Spec => []TasksConserved
  <1>1. IInv => TasksConserved
    BY DEF IInv, PoolInv, HeldInv, CountInv, ReportedChunks, TasksConserved, OnePlace
  <1> QED BY <1>1, Inductive, PTL

\* getNextTask() never returns with mutex_tasks locked.
THEOREM NoMutexLeak == Spec => []MutexTasksNeverLeaked
  <1>1. IInv => MutexTasksNeverLeaked
    BY DEF IInv, PoolInv, MutexTasksNeverLeaked
  <1> QED BY <1>1, Inductive, PTL
=============================================================================
