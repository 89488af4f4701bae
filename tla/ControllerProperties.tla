------------------------ MODULE ControllerProperties ------------------------
(***************************************************************************)
(* What the controller guarantees, and the fairness its liveness needs.    *)
(***************************************************************************)
EXTENDS Controller, FiniteSets

-----------------------------------------------------------------------------
(***************************************************************************)
(* Safety                                                                  *)
(***************************************************************************)

Held(w, t) == pc[w] \in Holding /\ task[w] = t
Reported(t) == ~Queued(t) /\ \A w \in Workers : ~Held(w, t)

\* A task is never in two places: it is queued at most once, a queued task is
\* held by no thread, and no two threads hold the same one.
OnePlace ==
  /\ QueuedOnce
  /\ \A w \in Workers : pc[w] \in Holding => ~Queued(task[w])
  /\ \A v, w \in Workers :
       pc[v] \in Holding /\ pc[w] \in Holding /\ task[v] = task[w] => v = w

\* A task is never lost either: the chunks of a field that are neither queued
\* nor held are exactly the ones counted by informAboutStoredResult(), however
\* often workers were blocked and tasks reassigned, and a counted chunk is in
\* the database.
TasksConserved ==
  /\ OnePlace
  /\ \A f \in Fields :
       matrix_stored_chunks[f] =
         Cardinality({c \in Chunks : Reported([field |-> f, chunk |-> c])})
  /\ \A t \in Tasks : Reported(t) => added[t] > 0

\* getNextTask() never takes the error branch that returns with mutex_tasks
\* locked (MatrixData.h:120): reassignment keeps next_task_field exact.
MutexTasksNeverLeaked == ~mutex_tasks_leaked

\* "The database now has all the chunks of the result field": whenever a POST
\* carried Last-Chunk: TRUE, every chunk of the field has been added, although
\* any worker may be the last and POSTs may have failed.
AnnouncedFieldsComplete ==
  \A t \in Tasks : t.field \in announced => added[t] > 0

\* The controller declares the job finished, and a thread tells its worker so,
\* only when every chunk is in the database and every field was announced.
FinishedIsComplete ==
  finished_calculation =>
    /\ \A t \in Tasks : added[t] > 0
    /\ announced = Fields

\* The controller implements MatrixJob (if a failed POST never reached the
\* database): chunks are added exactly once, a field is announced by its last
\* chunk, and the job is finished only when all is stored.
Job == INSTANCE MatrixJob WITH finished <- finished_calculation
JobImplemented == Job!JobSpec

-----------------------------------------------------------------------------
(***************************************************************************)
(* Liveness                                                                *)
(***************************************************************************)

Running == main # "terminated"

\* Every runnable thread is scheduled, time passes, and a worker outside
\* HangingWorkers answers every RPC - but sendTaskResult surely only while no
\* POST has failed: the POST waits for the replies of the other workers, and one
\* whose POST failed queues their requests for good (StoreRequestGranted).
Fairness ==
  /\ \A w \in Workers : WF_vars(Running /\ LocalStep(w))
  /\ \A w \in Workers \ HangingWorkers :
       /\ WF_vars(Running /\ (CalcTask(w) \/ ResultStored(w) \/ CalculationIsFinished(w)))
       /\ WF_vars(Running /\ failures = 0 /\ StoreResult(w))
  /\ WF_vars(Running /\ MainStep)
  /\ WF_vars(Running /\ TimeElapses)

FairSpec == Spec /\ Fairness

\* After a failed POST a call of sendTaskResult may never return.
StuckInStore == \E w \in Workers : <>[](failures > 0 /\ pc[w] = "sending")

\* main joins every control thread and returns, whichever workers the
\* healthchecks blocked and wherever their threads were at that moment.  What
\* can keep it waiting is a sendTaskResult after a failed POST, nothing else.
ControllerTerminates == <>(main = "done") \/ StuckInStore

\* One worker that is never blocked suffices: the tasks of all blocked workers
\* come back to it and the job is finished, if no sendTaskResult gets stuck.
SurvivorFinishesJob ==
  (\E w \in Workers : [](worker_status[w] # BLOCKED)) => <>finished_calculation \/ StuckInStore

\* A worker blocked by a healthcheck loses its task to the pool, unless it
\* completes it (MatrixData.h:144).
BlockedWorkerLosesTask ==
  \A w \in Workers :
    (worker_status[w] = BLOCKED /\ pc[w] \in Holding) ~> (pc[w] \notin Holding)
=============================================================================
