----------------------------- MODULE JobProofs -----------------------------
(***************************************************************************)
(* What the controller says of the job is true: a field that a POST called *)
(* complete has all its chunks in the database, and so have all fields     *)
(* when the job is declared finished.                                      *)
(*                                                                         *)
(* ControllerProofs!IInv counts the chunks; StoreInv adds what             *)
(* mutex_store_result is for.  It is held exactly during sendTaskResult,   *)
(* so that no chunk is reported between lastChunk() and the report of the  *)
(* own one, and the chunk that completes a field announces it.             *)
(*                                                                         *)
(* If a failed POST never reached the database, the controller implements  *)
(* MatrixJob: a chunk is in the database when its task was reported, or    *)
(* while the thread that holds it waits for sendTaskResult to return, and  *)
(* it was added once (AddedOnce).  StoreResult is then the step of         *)
(* MatrixJob that adds a chunk, the end of the polling loop the one that   *)
(* finishes the job, and every other step of the threads, of main and of   *)
(* time a stutter.                                                         *)
(***************************************************************************)
EXTENDS ControllerProofs

Storing == {"sending", "stored"}

HolderInv ==
  /\ \A w \in Workers : pc[w] \in Storing <=> store_holder = w
  /\ \A w \in Workers : pc[w] \in Storing => (last_chunk[w] <=> LastChunk(task[w]))
  /\ \A w \in Workers : pc[w] = "stored" /\ last_chunk[w] => task[w].field \in announced

AnnouncedInv ==
  /\ \A f \in Fields : matrix_stored_chunks[f] = ChunksPerRow => f \in announced
  /\ AnnouncedFieldsComplete

FinishedInv == finished_calculation => AllTasksFinished

StoreInv == HolderInv /\ AnnouncedInv /\ FinishedInv

-----------------------------------------------------------------------------
(***************************************************************************)
(* Counting                                                                *)
(***************************************************************************)

\* While a thread holds the last chunk of a field, all others are reported.
LEMMA OthersReported ==
  ASSUME IInv, NEW w \in Workers, pc[w] \in Holding, LastChunk(task[w]),
         NEW t \in Tasks, t.field = task[w].field, t # task[w]
  PROVE  Reported(t)
  <1> DEFINE f == task[w].field
             c == task[w].chunk
  <1>1. /\ task[w] \in Tasks /\ f \in Fields /\ c \in Chunks
        /\ task[w] = [field |-> f, chunk |-> c]
    BY DEF IInv, HeldInv, Tasks
  <1>2. ~Reported(task[w])
    BY <1>1 DEF Reported, Held
  <1>3. ReportedChunks(f) \subseteq Chunks \ {c}
    BY <1>1, <1>2 DEF ReportedChunks
  <1>4. Cardinality(ReportedChunks(f)) = ChunksPerRow - 1
    BY <1>1 DEF LastChunk, IInv, CountInv
  <1>5. /\ IsFiniteSet(Chunks) /\ Cardinality(Chunks) = ChunksPerRow
    BY TaskPoolAssumption, FS_Interval DEF Chunks
  <1>6. /\ IsFiniteSet(Chunks \ {c}) /\ Cardinality(Chunks \ {c}) = ChunksPerRow - 1
    BY <1>1, <1>5, FS_RemoveElement
  <1>7. ReportedChunks(f) = Chunks \ {c}
    BY <1>3, <1>4, <1>6, FS_Subset
  <1>8. t.chunk \in Chunks \ {c} /\ t = [field |-> f, chunk |-> t.chunk]
    BY <1>1 DEF Tasks
  <1> QED BY <1>7, <1>8 DEF ReportedChunks

\* The count of finished fields reaches their number only with the last one.
LEMMA FinishedFieldsBound ==
  ASSUME IInv
  PROVE  /\ finished_fields \in 0 .. NumberFields
         /\ AllTasksFinished => \A f \in Fields : matrix_stored_chunks[f] = ChunksPerRow
  <1>1. CompleteFields \in SUBSET Fields
    BY DEF CompleteFields
  <1>2. finished_fields = Cardinality(CompleteFields)
    BY DEF IInv, CountInv
  <1>3. IsFiniteSet(Fields) /\ Cardinality(Fields) = NumberFields
    BY TaskPoolAssumption, FS_Interval DEF Fields
  <1>4. AllTasksFinished => CompleteFields = Fields
    BY <1>1, <1>2, <1>3, FS_Subset DEF AllTasksFinished
  <1> QED BY <1>1, <1>2, <1>4, FiniteFields DEF CompleteFields

FinishedFieldsInRange == finished_fields \in 0 .. NumberFields

LEMMA FinishedFieldsBoundNext == IInv' => FinishedFieldsInRange'
  <1>1. IInv => FinishedFieldsInRange
    BY FinishedFieldsBound DEF FinishedFieldsInRange
  <1> QED BY <1>1, PTL

-----------------------------------------------------------------------------
(***************************************************************************)
(* The steps                                                               *)
(***************************************************************************)

\* A step outside mutex_store_result: it neither takes nor releases it, and
\* no task stored under it changes.
OutsideStore ==
  /\ UNCHANGED <<store_holder, last_chunk, added, announced>>
  /\ UNCHANGED <<matrix_stored_chunks, finished_fields>>
  /\ finished_calculation' => finished_calculation \/ AllTasksFinished
  /\ \A w \in Workers : /\ pc'[w] \in Storing <=> pc[w] \in Storing
                        /\ pc'[w] = "stored" => pc[w] = "stored"
                        /\ pc[w] \in Storing => task'[w] = task[w]

LEMMA OutsideStoreKeeps ==
  ASSUME StoreInv, OutsideStore
  PROVE  StoreInv'
  <1>1. HolderInv'
    <2> SUFFICES ASSUME NEW w \in Workers
                 PROVE  /\ pc'[w] \in Storing <=> store_holder' = w
                        /\ pc'[w] \in Storing => (last_chunk'[w] <=> LastChunk(task[w])')
                        /\ pc'[w] = "stored" /\ last_chunk'[w] => task'[w].field \in announced'
      BY DEF HolderInv
    <2> QED BY DEF StoreInv, HolderInv, OutsideStore, LastChunk, Storing
  <1>2. AnnouncedInv'
    BY DEF StoreInv, AnnouncedInv, AnnouncedFieldsComplete, OutsideStore
  <1>3. FinishedInv'
    BY DEF StoreInv, FinishedInv, AllTasksFinished, OutsideStore
  <1> QED BY <1>1, <1>2, <1>3 DEF StoreInv

LEMMA LockStoreKeeps ==
  ASSUME IInv, StoreInv, NEW w \in Workers, LockStore(w)
  PROVE  StoreInv'
  <1>1. /\ pc[w] = "lock" /\ store_holder = Nobody /\ store_holder' = w
        /\ last_chunk' = [last_chunk EXCEPT ![w] = LastChunk(task[w])]
        /\ pc' = [pc EXCEPT ![w] = "sending"]
        /\ UNCHANGED <<task, finished_calculation, poolVars, databaseVars>>
    BY DEF LockStore, Goto
  <1>2. Nobody \notin Workers
    BY ControllerAssumption DEF Nobody, Workers
  <1>3. \A v \in Workers : pc[v] \notin Storing
    BY <1>1, <1>2 DEF StoreInv, HolderInv
  <1>4. HolderInv'
    <2> SUFFICES ASSUME NEW v \in Workers
                 PROVE  /\ pc'[v] \in Storing <=> store_holder' = v
                        /\ pc'[v] \in Storing => (last_chunk'[v] <=> LastChunk(task[v])')
                        /\ pc'[v] = "stored" /\ last_chunk'[v] => task'[v].field \in announced'
      BY DEF HolderInv
    <2>1. CASE v = w
      <3>1. pc'[w] = "sending" /\ last_chunk'[w] = LastChunk(task[w])
        BY <1>1 DEF IInv, TypeInv
      <3>2. LastChunk(task[w])' <=> LastChunk(task[w])
        BY <1>1 DEF LastChunk, poolVars
      <3> QED BY <1>1, <2>1, <3>1, <3>2 DEF Storing
    <2>2. CASE v # w
      BY <1>1, <1>3, <2>2 DEF IInv, TypeInv, Storing
    <2> QED BY <2>1, <2>2
  <1>5. AnnouncedInv' /\ FinishedInv'
    BY <1>1 DEF StoreInv, AnnouncedInv, FinishedInv, AnnouncedFieldsComplete,
                AllTasksFinished, poolVars, databaseVars
  <1> QED BY <1>4, <1>5 DEF StoreInv

LEMMA StoreResultKeeps ==
  ASSUME IInv, StoreInv, NEW w \in Workers, StoreResult(w)
  PROVE  StoreInv'
  <1>1. /\ pc[w] = "sending" /\ pc' = [pc EXCEPT ![w] = "stored"]
        /\ added' = [added EXCEPT ![task[w]] = @ + 1]
        /\ announced' = IF last_chunk[w] THEN announced \cup {task[w].field} ELSE announced
        /\ UNCHANGED <<task, last_chunk, store_holder, finished_calculation, poolVars>>
    BY DEF StoreResult, Goto
  <1>2. pc[w] \in Holding /\ pc[w] \in Storing /\ task[w] \in Tasks
    BY <1>1 DEF Holding, Storing, IInv, HeldInv
  <1>3. announced \subseteq announced'
    BY <1>1
  <1>4. HolderInv'
    <2> SUFFICES ASSUME NEW v \in Workers
                 PROVE  /\ pc'[v] \in Storing <=> store_holder' = v
                        /\ pc'[v] \in Storing => (last_chunk'[v] <=> LastChunk(task[v])')
                        /\ pc'[v] = "stored" /\ last_chunk'[v] => task'[v].field \in announced'
      BY DEF HolderInv
    <2>1. LastChunk(task[v])' <=> LastChunk(task[v])
      BY <1>1 DEF LastChunk, poolVars
    <2>2. CASE v = w
      BY <1>1, <1>2, <2>1, <2>2 DEF StoreInv, HolderInv, IInv, TypeInv, Storing
    <2>3. CASE v # w
      BY <1>1, <1>3, <2>1, <2>3 DEF StoreInv, HolderInv, IInv, TypeInv
    <2> QED BY <2>2, <2>3
  <1>5. \A t \in Tasks : added'[t] \in Nat /\ added'[t] >= added[t]
    BY <1>1, <1>2 DEF IInv, TypeInv
  <1>6. AnnouncedFieldsComplete'
    <2> SUFFICES ASSUME NEW t \in Tasks, t.field \in announced'
                 PROVE  added'[t] > 0
      BY DEF AnnouncedFieldsComplete
    <2>0. added[t] \in Nat
      BY DEF IInv, TypeInv
    <2>1. CASE t.field \in announced
      <3>1. added[t] > 0
        BY <2>1 DEF StoreInv, AnnouncedInv, AnnouncedFieldsComplete
      <3> QED BY <3>1, <2>0, <1>5
    <2>2. CASE t.field \notin announced
      <3>1. last_chunk[w] /\ t.field = task[w].field
        BY <1>1, <2>2
      <3>2. LastChunk(task[w])
        BY <3>1, <1>2 DEF StoreInv, HolderInv
      <3>3. CASE t = task[w]
        BY <1>1, <3>3, <2>0 DEF IInv, TypeInv
      <3>4. CASE t # task[w]
        <4>1. Reported(t)
          BY <1>2, <3>1, <3>2, <3>4, OthersReported
        <4>2. added[t] > 0
          BY <4>1 DEF IInv, CountInv
        <4> QED BY <4>2, <2>0, <1>5
      <3> QED BY <3>3, <3>4
    <2> QED BY <2>1, <2>2
  <1>7. AnnouncedInv' /\ FinishedInv'
    BY <1>1, <1>3, <1>6 DEF StoreInv, AnnouncedInv, FinishedInv, AllTasksFinished, poolVars
  <1> QED BY <1>4, <1>7 DEF StoreInv

LEMMA ResultStoredKeeps ==
  ASSUME IInv, IInv', StoreInv, NEW w \in Workers, ResultStored(w)
  PROVE  StoreInv'
  <1> DEFINE f == task[w].field
  <1>1. /\ pc[w] = "stored" /\ pc' = [pc EXCEPT ![w] = "poll"]
        /\ InformAboutStoredResult(task[w]) /\ store_holder' = Nobody
        /\ UNCHANGED <<last_chunk, finished_calculation, databaseVars>>
    BY DEF ResultStored, Goto
  <1>2. /\ pc[w] \in Storing /\ f \in Fields
    BY <1>1 DEF Storing, Holding, IInv, HeldInv, Tasks
  <1>3. Nobody \notin Workers
    BY ControllerAssumption DEF Nobody, Workers
  <1>4. \A v \in Workers : pc'[v] \notin Storing
    <2> SUFFICES ASSUME NEW v \in Workers PROVE pc'[v] \notin Storing
      OBVIOUS
    <2>1. CASE v = w
      BY <1>1, <2>1 DEF Storing, IInv, TypeInv
    <2>2. CASE v # w
      <3>1. pc[v] \notin Storing
        BY <1>2, <2>2 DEF StoreInv, HolderInv
      <3> QED BY <1>1, <2>2, <3>1 DEF IInv, TypeInv
    <2> QED BY <2>1, <2>2
  <1>5. HolderInv'
    <2>1. \A v \in Workers : pc'[v] # "stored"
      BY <1>4 DEF Storing
    <2> QED BY <1>1, <1>3, <1>4, <2>1 DEF HolderInv
  <1>6. /\ matrix_stored_chunks' = [matrix_stored_chunks EXCEPT ![f] = matrix_stored_chunks[f] + 1]
        /\ finished_fields' = finished_fields \/ finished_fields' = finished_fields + 1
    BY <1>1 DEF InformAboutStoredResult
  <1>7. \A g \in Fields : matrix_stored_chunks'[g] = ChunksPerRow => g \in announced
    <2> SUFFICES ASSUME NEW g \in Fields, matrix_stored_chunks'[g] = ChunksPerRow
                 PROVE  g \in announced
      OBVIOUS
    <2>1. CASE g = f
      <3>1. matrix_stored_chunks[f] \in Nat /\ matrix_stored_chunks[f] + 1 = ChunksPerRow
        BY <1>2, <1>6, <2>1 DEF IInv, TypeInv
      <3>2. LastChunk(task[w])
        BY <3>1, TaskPoolAssumption DEF LastChunk
      <3> QED BY <1>1, <1>2, <2>1, <3>2 DEF StoreInv, HolderInv
    <2>2. CASE g # f
      <3>1. matrix_stored_chunks[g] = ChunksPerRow
        BY <1>6, <2>2 DEF IInv, TypeInv
      <3> QED BY <3>1 DEF StoreInv, AnnouncedInv
    <2> QED BY <2>1, <2>2
  <1>8. AnnouncedInv'
    BY <1>1, <1>7 DEF StoreInv, AnnouncedInv, AnnouncedFieldsComplete, databaseVars
  <1>9. FinishedInv'
    <2> SUFFICES ASSUME finished_calculation' PROVE finished_fields' = NumberFields
      BY DEF FinishedInv, AllTasksFinished
    <2>1. finished_fields = NumberFields
      BY <1>1 DEF StoreInv, FinishedInv, AllTasksFinished
    <2>2. finished_fields' \in 0 .. NumberFields
      BY FinishedFieldsBoundNext DEF FinishedFieldsInRange
    <2>3. NumberFields \in Nat
      BY TaskPoolAssumption
    <2> QED BY <1>6, <2>1, <2>2, <2>3
  <1> QED BY <1>5, <1>8, <1>9 DEF StoreInv

LEMMA ResultNotStoredKeeps ==
  ASSUME IInv, StoreInv, NEW w \in Workers, ResultNotStored(w)
  PROVE  StoreInv'
  <1>1. /\ pc[w] \in Storing /\ pc' = [pc EXCEPT ![w] = "poll"]
        /\ ReassignTask(task[w]) /\ store_holder' = Nobody
        /\ UNCHANGED <<last_chunk, finished_calculation, added, announced>>
    BY DEF ResultNotStored, Goto, Storing
  <1>2. UNCHANGED <<matrix_stored_chunks, finished_fields>>
    BY <1>1 DEF ReassignTask
  <1>3. Nobody \notin Workers
    BY ControllerAssumption DEF Nobody, Workers
  <1>4. \A v \in Workers : pc'[v] \notin Storing
    <2> SUFFICES ASSUME NEW v \in Workers PROVE pc'[v] \notin Storing
      OBVIOUS
    <2>1. CASE v = w
      BY <1>1, <2>1 DEF Storing, IInv, TypeInv
    <2>2. CASE v # w
      <3>1. pc[v] \notin Storing
        BY <1>1, <2>2 DEF StoreInv, HolderInv
      <3> QED BY <1>1, <2>2, <3>1 DEF IInv, TypeInv
    <2> QED BY <2>1, <2>2
  <1>5. HolderInv'
    <2>1. \A v \in Workers : pc'[v] # "stored"
      BY <1>4 DEF Storing
    <2> QED BY <1>1, <1>3, <1>4, <2>1 DEF HolderInv
  <1>6. AnnouncedInv' /\ FinishedInv'
    BY <1>1, <1>2 DEF StoreInv, AnnouncedInv, FinishedInv, AnnouncedFieldsComplete,
                      AllTasksFinished
  <1> QED BY <1>5, <1>6 DEF StoreInv

\* The steps of a control thread outside mutex_store_result.
LEMMA ThreadOutsideStore ==
  ASSUME IInv, NEW w \in Workers,
         \/ PollQueue(w) \/ PollFinished(w) \/ CalculationIsFinished(w) \/ CheckBlocked(w)
         \/ GetNextTask(w) \/ CalcTask(w) \/ CheckBlockedAgain(w) \/ ConnectionLost(w)
  PROVE  OutsideStore
  <1> USE DEF IInv, TypeInv, Goto, OutsideStore, Storing, poolVars, databaseVars
  <1>1. CASE PollQueue(w) \/ PollFinished(w) \/ CalculationIsFinished(w) \/ CheckBlocked(w)
    BY <1>1 DEF PollQueue, PollFinished, CalculationIsFinished, CheckBlocked
  <1>2. CASE GetNextTask(w)
    BY <1>2 DEF GetNextTask, TakeTask, LeakMutexTasks
  <1>3. CASE CalcTask(w)
    BY <1>3 DEF CalcTask, CalcTaskResults
  <1>4. CASE CheckBlockedAgain(w)
    BY <1>4 DEF CheckBlockedAgain, ReassignTask
  <1>5. CASE ConnectionLost(w)
    BY <1>5 DEF ConnectionLost, threadVars
  <1> QED BY <1>1, <1>2, <1>3, <1>4, <1>5

LEMMA InitStoreInv ==
  ASSUME Init
  PROVE  StoreInv
  <1>1. HolderInv
    <2>1. Nobody \notin Workers
      BY ControllerAssumption DEF Nobody, Workers
    <2> QED BY <2>1 DEF Init, HolderInv, Storing
  <1>2. AnnouncedInv
    BY TaskPoolAssumption DEF Init, PoolInit, AnnouncedInv, AnnouncedFieldsComplete
  <1>3. FinishedInv
    BY DEF Init, FinishedInv
  <1> QED BY <1>1, <1>2, <1>3 DEF StoreInv

LEMMA NextStoreInv ==
  ASSUME IInv, IInv', StoreInv, [Next]_vars
  PROVE  StoreInv'
  <1>1. CASE UNCHANGED vars \/ MainStep \/ TimeElapses
    <2>1. UNCHANGED <<poolVars, threadVars, databaseVars>>
      BY <1>1 DEF MainStep, LeaveLoop, StartHealthcheck, NextHealthcheck, HealthcheckTimeout,
             HealthcheckAnswer, JoinThreads, TimeElapses, vars
    <2>2. OutsideStore
      BY <2>1 DEF OutsideStore, poolVars, threadVars, databaseVars
    <2> QED BY <2>2, OutsideStoreKeeps
  <1>2. ASSUME NEW w \in Workers, WorkerNext(w)
        PROVE  StoreInv'
    BY <1>2, ThreadOutsideStore, OutsideStoreKeeps, LockStoreKeeps, StoreResultKeeps,
       ResultStoredKeeps, ResultNotStoredKeeps
       DEF WorkerNext, LocalStep, RpcStep
  <1> QED BY <1>1, <1>2 DEF Next, Stopped

LEMMA StoreInductive == Spec => [](IInv /\ StoreInv)
  <1>1. Init => IInv /\ StoreInv
    BY InitIInv, InitStoreInv
  <1>2. IInv /\ StoreInv /\ [Next]_vars => (IInv /\ StoreInv)'
    BY NextIInv, NextStoreInv
  <1> QED BY <1>1, <1>2, PTL DEF Spec

-----------------------------------------------------------------------------
(***************************************************************************)
(* The theorems                                                            *)
(***************************************************************************)

\* A field whose POST carried Last-Chunk: TRUE has all its chunks in the
\* database, whichever worker posts last and whatever POSTs failed.
THEOREM AnnouncementsTrue == Spec => []AnnouncedFieldsComplete
  <1>1. IInv /\ StoreInv => AnnouncedFieldsComplete
    BY DEF StoreInv, AnnouncedInv
  <1> QED BY <1>1, StoreInductive, PTL

\* When a control thread sets finished_calculation, every chunk is in the
\* database and every field was announced.
THEOREM FinishedTrue == Spec => []FinishedIsComplete
  <1>1. IInv /\ StoreInv => FinishedIsComplete
    <2> SUFFICES ASSUME IInv, StoreInv, finished_calculation
                 PROVE  (\A t \in Tasks : added[t] > 0) /\ announced = Fields
      BY DEF FinishedIsComplete
    <2>1. \A f \in Fields : matrix_stored_chunks[f] = ChunksPerRow
      BY FinishedFieldsBound DEF StoreInv, FinishedInv
    <2>2. announced = Fields
      BY <2>1 DEF StoreInv, AnnouncedInv, IInv, TypeInv
    <2>3. \A t \in Tasks : t.field \in announced
      BY <2>2 DEF Tasks
    <2> QED BY <2>2, <2>3 DEF StoreInv, AnnouncedInv, AnnouncedFieldsComplete
  <1> QED BY <1>1, StoreInductive, PTL

-----------------------------------------------------------------------------
(***************************************************************************)
(* What MatrixJob sees                                                     *)
(***************************************************************************)

Stored(t) == \E w \in Workers : pc[w] = "stored" /\ task[w] = t

AddedOnce ==
  \A t \in Tasks : added[t] = IF Reported(t) \/ Stored(t) THEN 1 ELSE 0

\* What MatrixJob sees of the state, and the tasks whose chunks are stored.
JobUnchanged == UNCHANGED <<added, announced, finished_calculation>>
StoredUnchanged == \A t \in Tasks : (Reported(t) \/ Stored(t))' <=> Reported(t) \/ Stored(t)

\* The sets of MatrixJob are those of the pool.
LEMMA SameSets == Job!Fields = Fields /\ Job!Tasks = Tasks
  BY DEF Job!Fields, Job!Tasks, Fields, Tasks, Chunks

-----------------------------------------------------------------------------
(***************************************************************************)
(* The steps that add no chunk                                             *)
(***************************************************************************)

\* Only the end of sendTaskResult changes what is stored or who stores it.
StoreUnchanged ==
  /\ \A w \in Workers : pc'[w] = "stored" <=> pc[w] = "stored"
  /\ \A w \in Workers : pc[w] = "stored" => task'[w] = task[w]

LEMMA NothingStored ==
  ASSUME ReportedUnchanged, StoreUnchanged
  PROVE  StoredUnchanged
  BY DEF ReportedUnchanged, StoreUnchanged, StoredUnchanged, Stored

LEMMA ThreadNothingStored ==
  ASSUME ~AckLoss, IInv, NEW w \in Workers, WorkerNext(w), ~StoreResult(w), ~ResultStored(w)
  PROVE  StoreUnchanged /\ UNCHANGED <<added, announced>>
  <1> USE DEF IInv, TypeInv, Goto, StoreUnchanged, databaseVars
  <1>1. CASE PollQueue(w) \/ PollFinished(w) \/ CalculationIsFinished(w) \/ CheckBlocked(w)
    BY <1>1 DEF PollQueue, PollFinished, CalculationIsFinished, CheckBlocked
  <1>2. CASE GetNextTask(w)
    BY <1>2 DEF GetNextTask
  <1>3. CASE CalcTask(w)
    BY <1>3 DEF CalcTask
  <1>4. CASE CheckBlockedAgain(w)
    BY <1>4 DEF CheckBlockedAgain
  <1>5. CASE LockStore(w)
    BY <1>5 DEF LockStore
  <1>6. CASE ResultNotStored(w)
    BY <1>6 DEF ResultNotStored
  <1>7. CASE ConnectionLost(w)
    BY <1>7 DEF ConnectionLost, threadVars
  <1> QED BY <1>1, <1>2, <1>3, <1>4, <1>5, <1>6, <1>7 DEF WorkerNext, LocalStep, RpcStep

\* A reported task was stored by the thread that reports it.
LEMMA ReportedWasStored ==
  ASSUME IInv, NEW w \in Workers, ResultStored(w)
  PROVE  StoredUnchanged
  <1>1. /\ pc[w] = "stored" /\ task[w] \in Tasks
        /\ pc'[w] # "stored"
        /\ \A v \in Workers \ {w} : task'[v] = task[v] /\ pc'[v] = pc[v]
    BY DEF ResultStored, Goto, IInv, TypeInv, HeldInv, Holding
  <1>2. \A u \in Tasks : Reported(u)' <=> Reported(u) \/ u = task[w]
    BY ReportKeeps DEF IInv
  <1> QED BY <1>1, <1>2 DEF StoredUnchanged, Stored

-----------------------------------------------------------------------------
(***************************************************************************)
(* The step that adds one                                                  *)
(***************************************************************************)

\* StoreResult adds the chunk of a thread that has not stored it before, and
\* announces its field exactly when all its other chunks have been added.
LEMMA StoreResultAdds ==
  ASSUME IInv, StoreInv, AddedOnce, NEW w \in Workers, StoreResult(w), ReportedUnchanged
  PROVE  Job!AddChunk(task[w]) /\ task[w] \in Tasks /\ AddedOnce'
  <1> DEFINE t == task[w]
             others == {u \in Tasks : u.field = t.field /\ u # t}
  <1>1. /\ pc[w] = "sending" /\ pc' = [pc EXCEPT ![w] = "stored"]
        /\ added' = [added EXCEPT ![t] = @ + 1]
        /\ announced' = IF last_chunk[w] THEN announced \cup {t.field} ELSE announced
        /\ UNCHANGED <<task, finished_calculation>>
    BY DEF StoreResult, Goto
  <1>2. /\ pc[w] \in Holding /\ pc[w] \in Storing /\ t \in Tasks
        /\ t.field \in Fields /\ t.chunk \in Chunks
        /\ t = [field |-> t.field, chunk |-> t.chunk]
    BY <1>1 DEF Holding, Storing, IInv, HeldInv, Tasks
  <1>3. ~Reported(t)
    BY <1>2 DEF Reported, Held
  <1>4. \A v \in Workers : pc[v] # "stored"
    <2> SUFFICES ASSUME NEW v \in Workers, pc[v] = "stored" PROVE FALSE
      OBVIOUS
    <2>1. store_holder = v /\ store_holder = w
      BY <1>2 DEF Storing, StoreInv, HolderInv
    <2> QED BY <2>1, <1>1
  <1>5. \A u \in Tasks : added[u] = IF Reported(u) THEN 1 ELSE 0
    BY <1>4 DEF AddedOnce, Stored
  <1>6. added[t] = 0 /\ added' = [added EXCEPT ![t] = 1]
    <2>1. added[t] = 0
      BY <1>2, <1>3, <1>5
    <2>2. added[t] + 1 = 1
      BY <2>1
    <2> QED BY <1>1, <2>1, <2>2
  <1>7. last_chunk[w] <=> \A u \in others : added[u] = 1
    <2>1. last_chunk[w] <=> LastChunk(t)
      BY <1>2 DEF StoreInv, HolderInv
    <2>2. ASSUME LastChunk(t), NEW u \in others
          PROVE  added[u] = 1
      <3>1. Reported(u)
        BY <1>2, <2>2, OthersReported
      <3> QED BY <3>1, <1>5
    <2>3. ASSUME \A u \in others : added[u] = 1
          PROVE  LastChunk(t)
      <3>1. ReportedChunks(t.field) = Chunks \ {t.chunk}
        <4>1. ASSUME NEW c \in Chunks, c # t.chunk
              PROVE  Reported([field |-> t.field, chunk |-> c])
          <5> DEFINE u == [field |-> t.field, chunk |-> c]
          <5>1. u \in Tasks /\ u.field = t.field /\ u.chunk # t.chunk
            BY <1>2, <4>1 DEF Tasks
          <5>2. u \in others
            BY <5>1
          <5> QED BY <2>3, <5>1, <5>2, <1>5
        <4> QED BY <4>1, <1>2, <1>3 DEF ReportedChunks
      <3>2. IsFiniteSet(Chunks) /\ Cardinality(Chunks) = ChunksPerRow
        BY TaskPoolAssumption, FS_Interval DEF Chunks
      <3>3. Cardinality(Chunks \ {t.chunk}) = ChunksPerRow - 1
        BY <1>2, <3>2, FS_RemoveElement
      <3>4. matrix_stored_chunks[t.field] = ChunksPerRow - 1
        BY <1>2, <3>1, <3>3 DEF IInv, CountInv
      <3> QED BY <3>4 DEF LastChunk
    <2> QED BY <2>1, <2>2, <2>3
  <1>8. Job!AddChunk(t)
    BY <1>1, <1>6, <1>7, SameSets DEF Job!AddChunk
  <1>9. AddedOnce'
    <2>1. \A u \in Tasks : Stored(u)' <=> u = t
      <3>1. pc'[w] = "stored" /\ \A v \in Workers \ {w} : pc'[v] # "stored"
        BY <1>1, <1>4 DEF IInv, TypeInv
      <3> QED BY <3>1, <1>1 DEF Stored
    <2>2. \A u \in Tasks : added'[u] = IF u = t THEN 1 ELSE added[u]
      BY <1>6 DEF IInv, TypeInv
    <2> QED BY <2>1, <2>2, <1>2, <1>3, <1>5 DEF AddedOnce, ReportedUnchanged
  <1> QED BY <1>2, <1>8, <1>9

-----------------------------------------------------------------------------
(***************************************************************************)
(* The refinement                                                          *)
(***************************************************************************)

\* Initially every task is queued, so that nothing is reported or stored.
LEMMA InitImplements ==
  ASSUME Init
  PROVE  Job!JobInit /\ AddedOnce
  <1>1. Job!JobInit
    BY SameSets DEF Init, Job!JobInit
  <1>2. \A t \in Tasks : ~Reported(t)
    BY InitIInv DEF Init, IInv, CountInv
  <1>3. \A t \in Tasks : ~Stored(t)
    BY DEF Init, Stored
  <1> QED BY <1>1, <1>2, <1>3 DEF AddedOnce, Init

\* The polling loop ends when all tasks are finished, hence all chunks added.
LEMMA PollFinishedFinishes ==
  ASSUME IInv, AddedOnce, NEW w \in Workers, PollFinished(w)
  PROVE  Job!Finish \/ JobUnchanged
  <1>1. UNCHANGED <<added, announced>>
    BY DEF PollFinished, databaseVars
  <1>2. CASE ~AllTasksFinished
    BY <1>1, <1>2 DEF PollFinished, JobUnchanged
  <1>3. CASE AllTasksFinished
    <2>1. \A t \in Tasks : added[t] = 1
      <3> SUFFICES ASSUME NEW t \in Tasks PROVE added[t] = 1
        OBVIOUS
      <3>1. /\ t.field \in Fields /\ t.chunk \in Chunks
            /\ t = [field |-> t.field, chunk |-> t.chunk]
        BY DEF Tasks
      <3>2. Cardinality(ReportedChunks(t.field)) = ChunksPerRow
        BY <1>3, <3>1, FinishedFieldsBound DEF IInv, CountInv
      <3>3. IsFiniteSet(Chunks) /\ Cardinality(Chunks) = ChunksPerRow
        BY TaskPoolAssumption, FS_Interval DEF Chunks
      <3>4. ReportedChunks(t.field) \subseteq Chunks
        BY DEF ReportedChunks
      <3>5. ReportedChunks(t.field) = Chunks
        BY <3>2, <3>3, <3>4, FS_Subset
      <3>6. Reported(t)
        BY <3>1, <3>5 DEF ReportedChunks
      <3> QED BY <3>6 DEF AddedOnce
    <2> QED BY <1>1, <1>3, <2>1, SameSets DEF PollFinished, Job!Finish
  <1> QED BY <1>2, <1>3

LEMMA NextImplements ==
  ASSUME ~AckLoss, IInv, StoreInv, AddedOnce, [Next]_vars
  PROVE  AddedOnce' /\ [Job!JobNext]_(Job!jobVars)
  <1>1. ASSUME StoredUnchanged, UNCHANGED added
        PROVE  AddedOnce'
    BY <1>1 DEF AddedOnce, StoredUnchanged
  <1>2. CASE UNCHANGED vars \/ MainStep \/ TimeElapses
    <2>1. UNCHANGED <<poolVars, threadVars, databaseVars>>
      BY <1>2 DEF MainStep, LeaveLoop, StartHealthcheck, NextHealthcheck, HealthcheckTimeout,
             HealthcheckAnswer, JoinThreads, TimeElapses, vars
    <2>2. StoredUnchanged /\ JobUnchanged
      BY <2>1 DEF StoredUnchanged, JobUnchanged, Stored, Reported, Queued, Held,
                  poolVars, threadVars, databaseVars
    <2> QED BY <2>2, <1>1 DEF JobUnchanged, Job!jobVars
  <1>3. ASSUME NEW w \in Workers, WorkerNext(w)
        PROVE  AddedOnce' /\ (Job!JobNext \/ JobUnchanged)
    <2>1. ResultStored(w) \/ ReportedUnchanged
      BY <1>3, WorkerKeeps
    <2>2. CASE StoreResult(w)
      <3>1. ReportedUnchanged
        BY <2>1, <2>2 DEF StoreResult, ResultStored
      <3>2. Job!AddChunk(task[w]) /\ task[w] \in Tasks /\ AddedOnce'
        BY <2>2, <3>1, StoreResultAdds
      <3> QED BY <3>2, SameSets DEF Job!JobNext
    <2>3. CASE ResultStored(w)
      <3>1. StoredUnchanged
        BY <2>3, ReportedWasStored
      <3>2. JobUnchanged
        BY <2>3 DEF ResultStored, databaseVars, JobUnchanged
      <3> QED BY <3>1, <3>2, <1>1 DEF JobUnchanged
    <2>4. CASE ~StoreResult(w) /\ ~ResultStored(w)
      <3>1. StoreUnchanged /\ UNCHANGED <<added, announced>>
        BY <1>3, <2>4, ThreadNothingStored
      <3>2. AddedOnce'
        BY <2>1, <2>4, <3>1, <1>1, NothingStored
      <3>3. CASE PollFinished(w)
        BY <3>2, <3>3, PollFinishedFinishes DEF Job!JobNext
      <3>4. CASE ~PollFinished(w)
        <4>1. UNCHANGED finished_calculation
          BY <1>3, <2>4, <3>4 DEF WorkerNext, LocalStep, RpcStep, PollQueue, CheckBlocked,
             GetNextTask, CheckBlockedAgain, LockStore, CalcTask, CalculationIsFinished,
             ResultNotStored, ConnectionLost, threadVars
        <4> QED BY <3>1, <3>2, <4>1 DEF JobUnchanged
      <3> QED BY <3>3, <3>4
    <2> QED BY <2>2, <2>3, <2>4
  <1> QED BY <1>2, <1>3 DEF Next, Stopped, JobUnchanged, Job!jobVars

\* Whatever workers are blocked, and however often tasks are reassigned, the
\* controller does what MatrixJob says: every chunk is added exactly once, a
\* field is announced together with its last chunk, and the job is declared
\* finished only when nothing is missing.
THEOREM ControllerImplementsJob ==
  ASSUME ~AckLoss
  PROVE  Spec => JobImplemented
  <1>1. Init => Job!JobInit /\ AddedOnce
    BY InitImplements
  <1>2. IInv /\ StoreInv /\ AddedOnce /\ [Next]_vars => AddedOnce' /\ [Job!JobNext]_(Job!jobVars)
    BY NextImplements
  <1> QED BY <1>1, <1>2, StoreInductive, PTL DEF Spec, JobImplemented, Job!JobSpec
=============================================================================
