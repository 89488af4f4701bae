----------------------------- MODULE Controller -----------------------------
(***************************************************************************)
(* The controller process (Controller/controller.cpp) after start-up: one  *)
(* control thread per worker (controlWorker), which feeds the worker with  *)
(* tasks from the pool over synchronous RPCs, and the main thread, which   *)
(* sends healthchecks until the job is finished or the program times out   *)
(* and then joins the control threads.                                     *)
(*                                                                         *)
(* A step of a control thread ends where it reads or writes data another   *)
(* thread can change, or calls its worker.  The worker's side of the two   *)
(* RPCs is kept to what the controller can tell: calcTask returns, and     *)
(* sendTaskResult adds the chunk to the database and returns true, or      *)
(* returns false.  A worker may also never answer (HangingWorkers), or its *)
(* connection may break (LostWorkers).                                     *)
(***************************************************************************)
EXTENDS TaskPool

CONSTANTS
  NumberWorkers,   \* number_workers
  MaxFailures,     \* bound on the sendTaskResult calls that return false
  AckLoss,         \* TRUE: one of them may have added its chunk all the same
  HangingWorkers,  \* the workers that need not answer an RPC
  LostWorkers      \* the workers whose RPC connection may break

Workers == 0 .. NumberWorkers - 1

ASSUME ControllerAssumption ==
  /\ NumberWorkers \in Nat \ {0}
  /\ MaxFailures \in Nat
  /\ AckLoss \in BOOLEAN
  /\ HangingWorkers \subseteq Workers
  /\ LostWorkers \subseteq Workers

WAITING_FOR_TASK == 0
BLOCKED == 2

NoTask == [field |-> 0, chunk |-> 0]
Nobody == NumberWorkers

VARIABLES
  pc,                    \* where each control thread is
  task,                  \* its local task
  last_chunk,            \* the argument of its sendTaskResult call
  worker_status,
  blocked_workers,
  store_holder,          \* the thread that holds mutex_store_result
  finished_calculation,
  main,                  \* where the main thread is
  hc_worker,             \* the worker of the current healthcheck round
  timed_out,             \* PROGR_TIMEOUT has passed
  added,                 \* database: how often each task's chunk was added
  announced,             \* database: fields a POST called complete (Last-Chunk)
  failures               \* number of sendTaskResult calls that returned false

threadVars == <<pc, task, last_chunk, store_holder, finished_calculation>>
mainVars == <<main, hc_worker, timed_out>>
statusVars == <<worker_status, blocked_workers>>
databaseVars == <<added, announced, failures>>
vars == <<poolVars, threadVars, mainVars, statusVars, databaseVars>>

\* The places at which a thread is responsible for its task: from getNextTask
\* until the task is reported as stored or is given back.
Holding == {"calc", "calculated", "lock", "sending", "stored"}

ThreadStates == Holding \cup {"poll", "empty", "check", "fetch", "finish", "exited"}

TypeOK ==
  /\ PoolTypeOK
  /\ pc \in [Workers -> ThreadStates]
  /\ task \in [Workers -> Tasks \cup {NoTask}]
  /\ last_chunk \in [Workers -> BOOLEAN]
  /\ worker_status \in [Workers -> {WAITING_FOR_TASK, BLOCKED}]
  /\ blocked_workers \in Nat
  /\ store_holder \in Workers \cup {Nobody}
  /\ finished_calculation \in BOOLEAN
  /\ main \in {"loop", "healthcheck", "await", "join", "done", "terminated"}
  /\ hc_worker \in 0 .. NumberWorkers
  /\ timed_out \in BOOLEAN
  /\ added \in [Tasks -> Nat]
  /\ announced \subseteq Fields
  /\ failures \in 0 .. MaxFailures

Init ==
  /\ PoolInit
  /\ pc = [w \in Workers |-> "poll"]
  /\ task = [w \in Workers |-> NoTask]
  /\ last_chunk = [w \in Workers |-> FALSE]
  /\ worker_status = [w \in Workers |-> WAITING_FOR_TASK]
  /\ blocked_workers = 0
  /\ store_holder = Nobody
  /\ finished_calculation = FALSE
  /\ main = "loop"
  /\ hc_worker = 0
  /\ timed_out = FALSE
  /\ added = [t \in Tasks |-> 0]
  /\ announced = {}
  /\ failures = 0

Goto(w, label) == pc' = [pc EXCEPT ![w] = label]

-----------------------------------------------------------------------------
(***************************************************************************)
(* controlWorker                                                           *)
(***************************************************************************)

\* The condition of the polling loop: getNumberTaskFields() reads the queue's
\* length without mutex_tasks.
PollQueue(w) ==
  /\ pc[w] = "poll"
  /\ Goto(w, IF next_task_field = <<>> THEN "empty" ELSE "check")
  /\ UNCHANGED <<task, last_chunk, store_holder, finished_calculation>>
  /\ UNCHANGED <<poolVars, mainVars, statusVars, databaseVars>>

\* Mutant: a thread leaves as soon as it finds no task in the pool.
PollFinished_NoTasks(w) ==
  /\ pc[w] = "empty"
  /\ finished_calculation' = TRUE
  /\ Goto(w, "finish")
  /\ UNCHANGED <<task, last_chunk, store_holder>>
  /\ UNCHANGED <<poolVars, mainVars, statusVars, databaseVars>>

\* The body of the polling loop: allTasksFinished().
PollFinished(w) ==
  /\ pc[w] = "empty"
  /\ IF AllTasksFinished
     THEN /\ finished_calculation' = TRUE
          /\ Goto(w, "finish")
     ELSE /\ UNCHANGED finished_calculation
          /\ Goto(w, "poll")
  /\ UNCHANGED <<task, last_chunk, store_holder>>
  /\ UNCHANGED <<poolVars, mainVars, statusVars, databaseVars>>

\* The RPC calculationIsFinished returns and the thread exits.
CalculationIsFinished(w) ==
  /\ pc[w] = "finish"
  /\ Goto(w, "exited")
  /\ UNCHANGED <<task, last_chunk, store_holder, finished_calculation>>
  /\ UNCHANGED <<poolVars, mainVars, statusVars, databaseVars>>

\* A thread of a blocked worker exits.
CheckBlocked(w) ==
  /\ pc[w] = "check"
  /\ Goto(w, IF worker_status[w] = BLOCKED THEN "exited" ELSE "fetch")
  /\ UNCHANGED <<task, last_chunk, store_holder, finished_calculation>>
  /\ UNCHANGED <<poolVars, mainVars, statusVars, databaseVars>>

\* getNextTask(): the queue may have been emptied since it was polled.  The
\* branch that finds the first field without a task leaks the mutex.
GetNextTask(w) ==
  /\ pc[w] = "fetch"
  /\ ~mutex_tasks_leaked
  /\ IF next_task_field = <<>>
     THEN /\ Goto(w, "poll")
          /\ UNCHANGED <<task, poolVars>>
     ELSE IF matrix_tasks[NextField] = <<>>
          THEN /\ LeakMutexTasks
               /\ Goto(w, "poll")
               /\ UNCHANGED task
          ELSE /\ task' = [task EXCEPT ![w] = NextTask]
               /\ TakeTask
               /\ Goto(w, "calc")
  /\ UNCHANGED <<last_chunk, store_holder, finished_calculation>>
  /\ UNCHANGED <<mainVars, statusVars, databaseVars>>

\* What RPCSendMatrixTasksHandler::calcTask can return.
CalcTaskResults == {TRUE}

\* calcTask returns; a false answer sends the task back.
CalcTask(w) ==
  /\ pc[w] = "calc"
  /\ \E rpc_result \in CalcTaskResults :
       IF rpc_result
       THEN /\ Goto(w, "calculated")
            /\ UNCHANGED <<task, poolVars>>
       ELSE /\ ~mutex_tasks_leaked
            /\ ReassignTask(task[w])
            /\ task' = [task EXCEPT ![w] = NoTask]
            /\ Goto(w, "poll")
  /\ UNCHANGED <<last_chunk, store_holder, finished_calculation>>
  /\ UNCHANGED <<mainVars, statusVars, databaseVars>>

\* Mutant: a blocked worker's thread exits with its task.
CheckBlockedAgain_KeepTask(w) ==
  /\ pc[w] = "calculated"
  /\ Goto(w, IF worker_status[w] = BLOCKED THEN "exited" ELSE "lock")
  /\ UNCHANGED <<task, poolVars, last_chunk, store_holder, finished_calculation>>
  /\ UNCHANGED <<mainVars, statusVars, databaseVars>>

\* The worker may have been blocked while it calculated: its task goes back
\* to the pool and the thread exits.
CheckBlockedAgain(w) ==
  /\ pc[w] = "calculated"
  /\ IF worker_status[w] = BLOCKED
     THEN /\ ~mutex_tasks_leaked
          /\ ReassignTask(task[w])
          /\ task' = [task EXCEPT ![w] = NoTask]
          /\ Goto(w, "exited")
     ELSE /\ Goto(w, "lock")
          /\ UNCHANGED <<task, poolVars>>
  /\ UNCHANGED <<last_chunk, store_holder, finished_calculation>>
  /\ UNCHANGED <<mainVars, statusVars, databaseVars>>

\* Mutant: lastChunk(task) is evaluated without mutex_store_result.
LockStore_NoMutex(w) ==
  /\ pc[w] = "lock"
  /\ store_holder' = w
  /\ last_chunk' = [last_chunk EXCEPT ![w] = LastChunk(task[w])]
  /\ Goto(w, "sending")
  /\ UNCHANGED <<task, finished_calculation>>
  /\ UNCHANGED <<poolVars, mainVars, statusVars, databaseVars>>

\* mutex_store_result is taken and lastChunk(task) is evaluated under it.
LockStore(w) ==
  /\ pc[w] = "lock"
  /\ store_holder = Nobody
  /\ store_holder' = w
  /\ last_chunk' = [last_chunk EXCEPT ![w] = LastChunk(task[w])]
  /\ Goto(w, "sending")
  /\ UNCHANGED <<task, finished_calculation>>
  /\ UNCHANGED <<poolVars, mainVars, statusVars, databaseVars>>

\* During sendTaskResult the database adds the posted chunk.
StoreResult(w) ==
  /\ pc[w] = "sending"
  /\ added' = [added EXCEPT ![task[w]] = @ + 1]
  /\ announced' = IF last_chunk[w] THEN announced \cup {task[w].field} ELSE announced
  /\ Goto(w, "stored")
  /\ UNCHANGED <<task, last_chunk, store_holder, finished_calculation, failures>>
  /\ UNCHANGED <<poolVars, mainVars, statusVars>>

\* sendTaskResult returned true.
ResultStored(w) ==
  /\ pc[w] = "stored"
  /\ InformAboutStoredResult(task[w])
  /\ store_holder' = Nobody
  /\ task' = [task EXCEPT ![w] = NoTask]
  /\ Goto(w, "poll")
  /\ UNCHANGED <<last_chunk, finished_calculation>>
  /\ UNCHANGED <<mainVars, statusVars, databaseVars>>

\* sendTaskResult returned false: the worker saw no valid HTTP response.  The
\* thread goes on; it exits when it next finds its worker blocked.
ResultNotStored(w) ==
  /\ pc[w] = "sending" \/ (AckLoss /\ pc[w] = "stored")
  /\ failures < MaxFailures
  /\ failures' = failures + 1
  /\ ~mutex_tasks_leaked
  /\ ReassignTask(task[w])
  /\ worker_status' = [worker_status EXCEPT ![w] = BLOCKED]
  /\ blocked_workers' = blocked_workers + 1
  /\ store_holder' = Nobody
  /\ task' = [task EXCEPT ![w] = NoTask]
  /\ Goto(w, "poll")
  /\ UNCHANGED <<last_chunk, finished_calculation, added, announced, mainVars>>

\* The thread waits for its worker's answer to an RPC.
InRpc(w) == pc[w] \in {"calc", "sending", "stored", "finish"}

\* The Thrift client throws TTransportException, which no frame of the thread
\* catches: std::terminate() ends the whole process.
ConnectionLost(w) ==
  /\ w \in LostWorkers
  /\ InRpc(w)
  /\ main' = "terminated"
  /\ UNCHANGED <<poolVars, threadVars, statusVars, databaseVars, hc_worker, timed_out>>

\* The steps a control thread takes by itself, and those its worker answers.
LocalStep(w) ==
  \/ PollQueue(w) \/ PollFinished(w) \/ CheckBlocked(w) \/ GetNextTask(w)
  \/ CheckBlockedAgain(w) \/ LockStore(w)

RpcStep(w) == CalcTask(w) \/ StoreResult(w) \/ ResultStored(w) \/ CalculationIsFinished(w)

-----------------------------------------------------------------------------
(***************************************************************************)
(* main and healthcheck                                                    *)
(***************************************************************************)

TimeElapses ==
  /\ ~timed_out
  /\ timed_out' = TRUE
  /\ UNCHANGED <<poolVars, threadVars, statusVars, databaseVars, main, hc_worker>>

\* Mutant: only the end of the job ends the loop.
LeaveLoop_FinishedOnly ==
  /\ main = "loop"
  /\ finished_calculation
  /\ main' = "join"
  /\ UNCHANGED <<poolVars, threadVars, statusVars, databaseVars, hc_worker, timed_out>>

\* The program loop breaks when the time is over or the job is finished.
LeaveLoop ==
  /\ main = "loop"
  /\ timed_out \/ finished_calculation
  /\ main' = "join"
  /\ UNCHANGED <<poolVars, threadVars, statusVars, databaseVars, hc_worker, timed_out>>

StartHealthcheck ==
  /\ main = "loop"
  /\ ~timed_out
  /\ ~finished_calculation
  /\ main' = "healthcheck"
  /\ hc_worker' = 0
  /\ UNCHANGED <<poolVars, threadVars, statusVars, databaseVars, timed_out>>

\* The head of healthcheck()'s loop: worker_status is read without its mutex.
NextHealthcheck ==
  /\ main = "healthcheck"
  /\ IF hc_worker = NumberWorkers
     THEN main' = "loop" /\ UNCHANGED hc_worker
     ELSE IF worker_status[hc_worker] = BLOCKED
          THEN hc_worker' = hc_worker + 1 /\ UNCHANGED main
          ELSE main' = "await" /\ UNCHANGED hc_worker
  /\ UNCHANGED <<poolVars, threadVars, statusVars, databaseVars, timed_out>>

\* No answer within HEALTHCHECK_MAX_WAIT.
HealthcheckTimeout ==
  /\ main = "await"
  /\ worker_status' = [worker_status EXCEPT ![hc_worker] = BLOCKED]
  /\ blocked_workers' = blocked_workers + 1
  /\ main' = "healthcheck"
  /\ hc_worker' = hc_worker + 1
  /\ UNCHANGED <<poolVars, threadVars, databaseVars, timed_out>>

\* An answer with the worker's number; its status bit is never set.
HealthcheckAnswer ==
  /\ main = "await"
  /\ worker_status' = [worker_status EXCEPT ![hc_worker] = WAITING_FOR_TASK]
  /\ main' = "healthcheck"
  /\ hc_worker' = hc_worker + 1
  /\ UNCHANGED <<poolVars, threadVars, databaseVars, timed_out, blocked_workers>>

JoinThreads ==
  /\ main = "join"
  /\ \A w \in Workers : pc[w] = "exited"
  /\ main' = "done"
  /\ UNCHANGED <<poolVars, threadVars, statusVars, databaseVars, hc_worker, timed_out>>

Stopped == main \in {"done", "terminated"} /\ UNCHANGED vars

MainStep ==
  \/ LeaveLoop \/ StartHealthcheck \/ NextHealthcheck
  \/ HealthcheckTimeout \/ HealthcheckAnswer \/ JoinThreads

WorkerNext(w) == LocalStep(w) \/ RpcStep(w) \/ ResultNotStored(w) \/ ConnectionLost(w)

Next ==
  \/ main # "terminated" /\ ((\E w \in Workers : WorkerNext(w)) \/ MainStep \/ TimeElapses)
  \/ Stopped

Spec == Init /\ [][Next]_vars
=============================================================================
