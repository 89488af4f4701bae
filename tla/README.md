# A verification of DistributedMatrixMultiplication

The program multiplies matrices with one controller, several workers and one
database, each in a container of its own. This directory holds TLA+ modules
that model its parts, TLC configurations that check them on small instances,
and proofs, checked by TLAPS, of theorems about them for every instance.
Lines refer to the files under `src/`; `PROJECT.json` maps every definition that
models code to its lines.

1. [The system](#1-the-system)
2. [The modules](#2-the-modules)
3. [How the models correspond to the code](#3-how-the-models-correspond-to-the-code)
4. [The runs](#4-the-runs)
5. [What the runs found](#5-what-the-runs-found)
6. [Fairness](#6-fairness)
7. [The proofs](#7-the-proofs)
8. [What is not modelled](#8-what-is-not-modelled)
9. [Plan](#9-plan)

## 1. The system

| Component | State | Operations | What makes it correct |
|---|---|---|---|
| **Task pool**, `MatrixData` (Controller/MatrixData.h) | a queue of tasks per result field, the queue of fields that have tasks, stored chunks per field, finished fields | `getNextTask`, `reassignTask`, `lastChunk`, `informAboutStoredResult`, `allTasksFinished` | no task lost or in two places; the queue of fields exact; the counts exact |
| **Task creation**, `prepareTasks`, `createTasks` (same file) | chunk size, chunks per row, remainder | run once at start-up | every row cut without gap or overlap; chunks bounded by `MAX_CHUNK_SIZE` (and a seventh); work for almost every worker |
| **Controller** (Controller/controller.cpp) | a thread per worker with its task, worker status, `mutex_store_result`, `finished_calculation` | `controlWorker`, `healthcheck`, `main` | the job is declared finished when all is stored, never earlier; blocked workers lose their tasks; the program ends |
| **Healthchecks** (controller.cpp, Worker/worker.cpp) | the worker asked, datagrams on their way | a byte sent, a byte answered, a time limit | an answer is taken for the worker and the request it belongs to; a dead worker is blocked |
| **Registration and start-up barrier** (controller.cpp, worker.cpp) | registered workers, MQTT threads, two semaphores per worker, `mqtt_count` | `registerAtController`, `init_mqtt`, `isMQTTInitialized`, `MQTTReady` | nobody publishes before everybody has subscribed; everybody passes |
| **RPC** (RPC/\*.thrift, gen-cpp, Worker/RPCImplementation.h) | a connection per worker; the handler's current task and result | `calcTask`, `sendTaskResult`, `calculationIsFinished` and the two above | what arrives is what was sent; the result posted is the one of the task the thread holds |
| **Worker, mutual exclusion** (worker.cpp) | Lamport clock, own request and its time, counted replies, deferred requests, a semaphore | `mqtt_request`, `mqtt_respond_to_open_requests`, callback `onMQTTMessage` | one worker at a time; every request granted |
| **Database** (Database/database.cpp, ResultMatrix.h) and the worker's `writeToDatabase` | connections, the parser's position and fields, result matrices with a final flag per value | POST adds a chunk's value, GET prints a page | a cut message is not taken for another one; every value added at most once; a value shown as final is complete |

**Interaction.** The workers register at the controller over UDP; when all are
registered it starts a thread per worker, which opens an RPC connection. The
threads wait for each other until all workers have initialised MQTT. Then each
takes a task from the pool, calls `calcTask`, takes `mutex_store_result`, calls
`sendTaskResult` and reports the stored chunk to the pool. During
`sendTaskResult` the worker asks all other workers for the database over MQTT
(Ricart-Agrawala), posts its value over HTTP, and answers the requests it
deferred. Meanwhile the controller's main thread sends healthchecks and blocks
workers that do not answer. At the end the workers use the same algorithm to
print their statistics one after the other.

`mutex_store_result` already lets only one worker at a time write to the
database. The workers' own algorithm has contention only at the end, when all
print, and when the program times out.

**Hard behaviours.** Threads that test shared state and act on it later; workers
blocked at any moment; POSTs that fail for the worker but not for the database;
messages that TCP cuts; datagrams that come late; RPCs that never return; MQTT
messages that cross each other; a timeout that makes main act while the RPC
thread is busy; integer division by the chunk size. `PROJECT.json` lists them
under "hazards", each at its line.

## 2. The modules

| Module | Content |
|---|---|
| `TaskPool` | the run-time half of `MatrixData`: one operator per operation |
| `Controller` | extends `TaskPool`: control threads, healthcheck, program loop, and what the database adds |
| `MatrixJob` | what the controller promises, without threads and queues (abstract specification) |
| `ControllerProperties` | the properties of `Controller`, its fairness, and the refinement mapping to `MatrixJob` |
| `ChunkPlan` | `prepareTasks` and `createTasks`, with their properties |
| `WriteLock` | the workers' threads and messages of the Ricart-Agrawala algorithm |
| `WriteLockProperties` | its properties and fairness |
| `Rpc` | the structs on the wire, the connections, client and processor of each method |
| `StartUp` | composes `WriteLock` and `Rpc` with the registration, the barrier, the RPC handler and the control threads |
| `StartUpProperties` | the properties of the composition, those of `WriteLock` among them |
| `Healthcheck` | healthchecks as datagrams, with their properties |
| `Database` | the server loop, `httpParse`, `ResultMatrix`, and the worker and the browser that use them |
| `ChunkStore` | what the database promises the workers, without messages (abstract specification) |
| `DatabaseProperties` | the properties of `Database`, and the refinement mapping to `ChunkStore` |
| `ControllerProofs` | theorems about `TaskPool` and `Controller`: types, tasks, mutex |
| `JobProofs` | announced fields and the finished job; `Controller` implements `MatrixJob` |
| `ChunkPlanProofs`, `HealthcheckProofs`, `WriteLockProofs` | theorems about the modules of these names |
| `StartUpProofs` | `StartUp` implements `WriteLock`; the barrier and the RPCs |
| `MessageProofs` | what numbers and cut messages of `Database` read back as |
| `DatabaseProofs` | theorems about `Database`: types, cut messages, pages; it implements `ChunkStore` |
| `MCController`, `MCChunkPlan`, `MCWriteLock`, `MCStartUp`, `MCHealthcheck`, `MCDatabase` | the instances TLC checks |

An operator whose comment begins with "Mutant:" is a plausible bug in the
operator after it. No specification uses it: it is there to show that a
property is violated when the code has that bug.

## 3. How the models correspond to the code

### TaskPool and Controller

A field of the pool is a number, a task a field and a chunk's number. The
operations of `MatrixData` run under `mutex_tasks` or `mutex_stored_result`, and
each is atomic. `getNumberTaskFields` and `allTasksFinished` take no mutex, and
`lastChunk` relies on `mutex_store_result`, which `Controller` models
(`store_holder`).

A control thread's `pc` names the places in `controlWorker` between which it
reads or writes what others can change:

| `pc` | place in controller.cpp | action that leaves it |
|---|---|---|
| `poll` | 321, the condition of the polling loop | `PollQueue` |
| `empty` | 324, `allTasksFinished()` | `PollFinished` |
| `finish` | 327, RPC `calculationIsFinished` | `CalculationIsFinished` |
| `check` | 333, first test of `worker_status` | `CheckBlocked` |
| `fetch` | 342, `getNextTask` | `GetNextTask` |
| `calc` | 351, RPC `calcTask` | `CalcTask` |
| `calculated` | 370, second test of `worker_status` | `CheckBlockedAgain` |
| `lock` | 379, `mutex_store_result` | `LockStore` |
| `sending` | 382, the POST has not reached the database | `StoreResult`, `ResultNotStored` |
| `stored` | 382, the database has added the chunk | `ResultStored`, `ResultNotStored` |

`LockStore` includes the evaluation of `lastChunk(task)`: what it reads changes
only under the mutex just taken. `ResultStored` and `ResultNotStored` run from
the RPC's return to the mutex's release; of what they write the pool is under
its own mutex and `worker_status` is written once, so merging them hides only a
state between reassignment and blocking, in which other threads can take the
task just the same. The `main` variable does the same for `main` and
`healthcheck`, with a step between the unlocked test of `worker_status` (247)
and its assignment (264, 274).

`CalcTask` keeps the branch for a false answer, although the handler's
`calcTask` only returns true (`CalcTaskResults`). `HealthcheckAnswer` always
sets the status to waiting, because the worker never sets the status bit it
sends (worker.cpp:564). Whether an answer or a timeout comes is a free choice
here; `Healthcheck` has the datagrams.

### ChunkPlan

One variable per member of `MatrixData` that `prepareTasks` writes, one step
per round of a loop. The settings are constants' elements, chosen in `Init`, so
that a run covers all of them. `number_workers` = 0 is handled as in the code.
The comparison of the remainder with `MAX_REMAINDER_FRACTION`, a quotient of
floats, is `7 * remainder < size`; for chunk sizes up to 2^20 no remainder lies
so close to a seventh that rounding could tell the two apart.
`MAX_CHUNK_SIZE` = 0 and `MATRIX_A_COLS` = 0 divide by zero in the code
and are excluded by `ChunkPlanAssumption`.

### WriteLock

A worker has three threads: the RPC server's, main, and the MQTT client's. The
first two are the elements of `Threads` and call `mqtt_request` and
`mqtt_respond_to_open_requests`; the third runs the callback, one message at a
time. Steps are delimited by the mutexes, with two places where the code's
locking matters and is kept in detail: `mqtt_respond_to_open_requests` holds
`mutex_mqtt_request_open` throughout (`RequestOpenMutexFree`), while the
callback takes it only to read the flag (`ReadRequestOpen`) and compares and
queues the request later (`CompareRequests`, `QueueRequest`). A publish is part
of the step before it, since a message may travel for any time; taking a
request off the queue and answering it is one step for the same reason.

Messages may overtake each other but are neither lost nor doubled. The set of
messages loses nothing: two messages that travel at the same time differ in
their Lamport times, which their sender increments under a mutex each time.

The controller is reduced to "one `sendTaskResult` at a time while results are
left" and "`calculationIsFinished` when none is left"; `StartUp` has the RPCs and
is proved to implement `WriteLock`. A worker goes on
answering after it has printed: the code sleeps `number_workers + 1` seconds
before it exits (worker.cpp:886), and the model takes that as long enough.

### Rpc and StartUp

A struct on the wire is the sequence of its fields, each with number and type.
A reader looks for a field it knows by both and skips all others, as the
generated `read` functions do; it takes the last of several. A connection is a
record of what the client waits for, the call and the reply that travel, and
what the server executes. `sendTaskResult` is taken and answered in two steps,
because the worker's request runs in between; the other methods return in the
step in which they are called (`isMQTTInitialized` when its semaphore allows).

`StartUp` extends `WriteLock`, so that its states contain the lock's and its
actions use what the lock's threads do: `sendTaskResult` makes its `MqttRequest`,
`sendTaskResultReturns` includes `CloseRequest` or `DatabaseFailed`, and
`LockStep` has all steps of the lock that no RPC starts or ends. The guards by
which `WriteLock` stands for the controller are not taken over, because no worker
tests them: the handler makes its request whenever it is called, and main leaves
its program loop (`BreakLoop`) once `calculationIsFinished` was called. That the
calls come one at a time, while results are missing, and the last one when none
is, must follow from `mutex_store_result` and the threads' tasks: this is
`LockImplemented`, which is checked and proved. `stores_left`, which `WriteLock`
counts, is read by no action of `StartUp` but a requesting thread's end.

| `ctl` | place in controller.cpp | action that leaves it |
|---|---|---|
| `none` | 436, `pthread_create` after the registrations | `CreateThreads` |
| `open` | 304, `transport->open()` | `Open` |
| `ask`, `asked` | 306, RPC `isMQTTInitialized` | `AskMqtt`, `MqttInitialized` |
| `count` | 312, `mqtt_count++` | `CountMqtt` |
| `spin` | 315, the loop on `mqtt_count` | `LeaveSpin` |
| `told` | 317, RPC `MQTTReady` | `ReadyTold` |
| `loop`, `calc` | 321, RPC `calcTask` | `TakeTask`, `TaskCalculated` |
| `lock`, `store` | 379, RPC `sendTaskResult` | `LockStore`, `ResultSent` |
| `finish` | 327, RPC `calculationIsFinished` | `FinishedTold` |

`Open` refuses a worker whose server does not listen yet: the exception ends the
controller, as in the code. `ConnectMqtt` may fail, after which `sem_mqtt` is
never posted. The thread of a blocked worker leaves without calling
`calculationIsFinished` (`ExitBlocked`). The pool is the set of tasks left:
its queues are in `Controller`.

### Healthcheck

A request is the worker's number modulo 127 and an answer its number modulo 128
(the two moduli are constants). Datagrams are a set: they overtake each other
and get lost, and the set loses nothing, because a worker is asked again only
after its answer or the time limit, and blocked after the latter. `ReceiveAnswer`
takes any datagram, from whatever worker, as `recvfrom` does; a wrong number
makes the controller wait again for the full time. `given_up` is a history
variable. Workers stop at any moment, and a control thread blocks its worker
at any moment, since both are decided elsewhere.

### Database

A message is a sequence of tokens: the literals that `httpParse` compares with,
single digits, signs, and line endings. `recv` returns any prefix of it, a cut
inside a literal leaving a `FRAGMENT` that matches nothing, and nothing at all
when its time is over. Numbers are thus cut at each digit, which is what could
make one message look like another. `httpParse` is a state machine with one
step per line of the header, `server` = `fields`; the guards are the conditions
of its branches in their order. A number has one of `IntValues` values where the
database has an `int`, wrapping at each digit read (`ValueOf`) and at each sum
(`CellPlus`). `NumberAssumption` says that the matrix, row, column and length of a
message fit into an `int`: row and column are `long long` at the worker, but the
controller reads the sizes of the matrices into `int`s (`readMatrixSize`,
controller.cpp:163). The value itself is a `long long` and need not fit.

`RespondPost` calls `addResult` with the final flag always set, as `main` does.
A POST without row or column ends the program (`vector::at` throws). The answer
is one segment or two; the worker's loop overwrites its buffer with each
(`RecvSegment`) and compares it only after the connection was closed (`RecvEnd`).
After `EndProgram` connections that wait are closed, and a worker that connects
later is `lost`: `connect`'s -1 is tested with `> 0`, and the loop around `recv`
takes -1 for data.

The worker is one process, because `mutex_store_result` lets one worker at a
time post; `LastChunk` is the controller's flag. `stored` and `counted` are
history variables.

## 4. The runs

All models are finite: the clocks of `WriteLock` are bounded because the number
of requests is (`NumberStores`, `MaxFailures`, one final request per worker),
`blocked_workers` by the number of failures and because a blocked worker is
not checked again, `added` by the number of failed POSTs, the parser by the
length of its message. The bounds are the constants below and, in `lock_safety`
only, a state constraint.

| Run | Instance | Checks | States |
|---|---|---|---|
| `job` | 2 workers, 2 fields of 2 chunks, 1 failed POST, worker 0's connection may break | types, conservation of tasks, no leaked mutex, completeness, refinement of `MatrixJob` | 296 000 |
| `liveness` | 2 workers, 1 field of 3 chunks, 1 failed POST that may have been added | conservation, completeness of announced fields and of the job; the controller ends, and a survivor finishes the job, unless a store gets stuck after the failed POST | 197 000 |
| `lock_safety` | 3 workers, 1 store, 1 failed POST, printing (`PrintersBound`) | types, mutual exclusion, accounting of replies, order of deferral, open requests | 1 600 000 |
| `start_up` | 2 workers from their start to the printing, 2 stores, 1 failed POST | subscribers before messages, the task posted, mutual exclusion, accounting; all start; stores granted; refinement of `WriteLock` | 25 000 |
| `healthcheck` | 3 workers, 2 numbers in requests, 3 in answers | types, no revival, fresh answers; a stopped worker is blocked | 9 700 |
| `database` | 2 fields, one of 2 chunks, 2 cuts, 1 page, ints of 16 values | types, cut messages, what is shown, the flag of the last chunk, refinement of `ChunkStore`; posts return | 256 000 |
| `chunk_plan` | 26 000 settings: rows of 1 to 50, chunks of 1 to 52, 0 to 30 workers | rows covered, no access beyond the row, bounds on sizes and numbers | 272 000 |

Why these bounds are enough:

* *Controller.* Two control threads and main show every pair of interleaved
  threads, and the threads' code does not depend on their number. Two chunks
  per field let a reassigned task find its field's queue empty or not; two
  fields let `next_task_field` be reordered. Three chunks in `liveness` let a
  chunk be added twice, by a worker that failed and by its successor, and a
  third still be missing.
* *WriteLock.* Three workers are the fewest for which a worker waits for two
  replies, so that a reply counted for the wrong request could let it pass, and
  for which two requests wait in one queue. Its state constraint
  `PrintersBound` lets all three print when worker 0 stored the result at once,
  and any two of them after a failed POST, whoever repeated it; the run checks
  no liveness, which a constraint could falsify.
  `start_up` has two workers, of which each stores and prints, and a failure.
* *Healthcheck.* With `RequestModulus` 2, workers 0 and 2 share a request's
  number as workers 0 and 127 do. `AnswerModulus` 3 is the least with which all
  three have an answer's number of their own, as up to 128 workers have.
* *Database.* The values have one and two digits and a sign, and their sum
  exceeds the int; the rows and columns make `addResult` extend both. Two
  cuts let a task be cut, posted again, and its answer split.
* *ChunkPlan.* Rows of up to 50 values include chunks of 8 and more, so that a
  remainder is spread, and cases in which the loop resizes twice.

**Deadlock** is checked in the controller's runs: there, `main` returning and
the process terminating are the action `Stopped`, and every other state must
have a step. It is not checked where the programs end by having nothing to do:
`WriteLock` and `StartUp`, whose workers may also get stuck (finding `late_push`;
what must not get stuck is stated by liveness properties), `Database` and
`Healthcheck`, whose loops end, and `ChunkPlan`.

Each property of these runs is violated when one mapped operator is replaced by
its mutant (`PROJECT.json`, "mutants").

## 5. What the runs found

Five runs end in a violation of something the code's comments or documents say.

* **`hanging`**: a worker that stops answering is blocked, but its task stays
  with its thread, which waits for the RPC. MatrixData.h:144 says the
  controller pushes its task back. The program then never ends.
* **`late_push`**: the callback reads `mqtt_request_open`, releases the mutex
  and queues the request; the own request can be closed and its queue emptied
  in between. The other worker then waits for ever for its turn to print.
* **`failed_post`**: a failed POST leaves the request open: waiting workers get
  no answer, later ones are compared with an abandoned request's time.
* **`timeout`**: after `PROGR_TIMEOUT` main's request overlaps the RPC
  thread's. Both count replies in one counter, and two workers hold the access.
* **`final_value`**: `addResult` is called with the final flag always set, and the
  page shows the sum of the first chunk as the field's value. The flag that the
  worker sends would be right: `LastChunkCompletes` holds.

`job` and `liveness` show why `AckLoss` is a constant: `MatrixJob` says each
chunk is added exactly once, and this holds when a failed POST did not reach
the database. If only its answer was lost, the chunk is added twice, and what
remains is that nothing is missing.

Not a run, but met on the way: a healthcheck's answer overwrites
`worker_status` (controller.cpp:274), so a worker blocked by its thread in the
meantime is unblocked, and the number of blocked workers that is printed at the
end counts it nevertheless. No document says otherwise.

## 6. Fairness

`ControllerProperties!Fairness`: every control thread and main are scheduled
(weak fairness of their local steps: they are POSIX threads; the pool's polling
loop is always enabled), time passes, and a worker outside `HangingWorkers`
answers its RPCs, with one exception: `sendTaskResult` (`StoreResult`) is fair
only while no POST has failed. It has to wait for the replies of the other
workers, and one whose POST failed left its request open (worker.cpp:526-533) and
queues theirs without ever answering; `failed_post` shows the state, and
`StoreRequestGranted` has the same restriction. So `ControllerTerminates` and
`SurvivorFinishesJob` leave one other outcome, after a failed POST only: a
`sendTaskResult` that never returns (`StuckInStore`), with `mutex_store_result`
held and main in `pthread_join`. That all other threads and main come to their end
or to that mutex, in every interleaving of blocking, failing and giving back, is
what the run shows. No fairness is assumed of a failing POST, a broken connection
or of a healthcheck's answer. That a worker answers also takes its own
`PROGR_TIMEOUT` not to pass before the controller's; a worker that exits breaks
its connection, which is `ConnectionLost` and ends the controller. Mutexes need no more than weak fairness here: with
a finite number of tasks, every thread that waits for `mutex_store_result` is
eventually alone with it. `SurvivorFinishesJob` speaks of runs with a worker that
is never blocked; other runs are not promised to finish, only to end.

`WriteLockProperties!Fairness`: each thread of each worker is scheduled, and a
message that travels is delivered. The controller's calls have no fairness (it
need not make any) nor has a failing POST.

`StartUpProperties!StartFairness` adds the threads that exist from the start, the
registrations, which are not lost, and the RPCs, which a running worker answers.
`AllStart` is promised only if every worker reaches the broker and no connection
is refused. `StoreRequestGranted` is promised only while no POST has failed: after
one, `failed_post` shows why it cannot be.

`Healthcheck!FairSpec`: main is scheduled, its period passes and its `recvfrom`
returns or times out. The workers and the network have no fairness.

`DatabaseProperties!Fairness`: the server and the worker's thread are scheduled,
and `recv` returns a segment, the end, or its time limit. The end of the program
and the browser have none.

## 7. The proofs

For all values of the constants that satisfy the modules' assumptions and the
ones named:

| Theorem | States | Assumes |
|---|---|---|
| `ControllerProofs!TypeCorrect` | `Spec => []TypeOK` | |
| `ControllerProofs!ConservationOfTasks` | `Spec => []TasksConserved` | |
| `ControllerProofs!NoMutexLeak` | `Spec => []MutexTasksNeverLeaked` | |
| `JobProofs!AnnouncementsTrue` | `Spec => []AnnouncedFieldsComplete` | |
| `JobProofs!FinishedTrue` | `Spec => []FinishedIsComplete` | |
| `JobProofs!ControllerImplementsJob` | `Spec => JobImplemented` | `~AckLoss` |
| `ChunkPlanProofs!PlanTypeCorrect` | `Spec => []TypeOK` | |
| `ChunkPlanProofs!NoTaskBeyondRow` | `Spec => []TasksInRow` | |
| `ChunkPlanProofs!RowsCovered` | `Spec => []RowCovered` | |
| `ChunkPlanProofs!ChunkSizesBounded` | `Spec => []ChunksSlightlyExceed` | |
| `ChunkPlanProofs!TasksForWorkers` | `Spec => []EnoughTasks` | |
| `HealthcheckProofs!TypeCorrect` | `Spec => []TypeOK` | at most `AnswerModulus` workers |
| `HealthcheckProofs!NoRevival` | `Spec => []GivenUpStaysBlocked` | the same |
| `HealthcheckProofs!FreshAnswers` | `Spec => AnswersAreFresh` | the same |
| `WriteLockProofs!TypeCorrect` | `Spec => []TypeOK` | no timeout |
| `WriteLockProofs!Exclusion` | `Spec => []MutualExclusion` | no timeout |
| `WriteLockProofs!ReplyAccounting` | `Spec => []RepliesAccounted` | no timeout |
| `WriteLockProofs!OpenRequests` | `Spec => []OpenUntilFailure` | no timeout |
| `WriteLockProofs!DeferralOrder` | `Spec => []DeferredComeLater` | no timeout |
| `StartUpProofs!SystemImplementsLock` | `StartSpec => LockImplemented` (`Spec` of `WriteLock`) | |
| `StartUpProofs!SystemExclusion` | `StartSpec => []MutualExclusion` | no timeout |
| `StartUpProofs!SystemAccounting` | `StartSpec => []RepliesAccounted` | no timeout |
| `StartUpProofs!SubscribersReady` | `StartSpec => []MessagesHaveSubscribers` | no timeout |
| `StartUpProofs!PostsCurrentTask` | `StartSpec => []PostIsCurrentTask` | |
| `DatabaseProofs!TypeCorrect` | `Spec => []TypeOK` | |
| `DatabaseProofs!ValidPosts` | `Spec => []ValidPostIsWhole` | |
| `DatabaseProofs!PagesShowStored` | `Spec => []ShownWasStored` | |
| `DatabaseProofs!FlagsTrue` | `Spec => []LastChunkCompletes` | |
| `DatabaseProofs!NeverTerminates` | `Spec => []Running` (no `vector::at` of -1) | |
| `DatabaseProofs!DatabaseImplementsStore` | `Spec => StoreImplemented` | |

"No timeout" is `TimeoutWorkers = {}`; the finding `timeout` shows that mutual
exclusion needs it. `OpenUntilFailure` and `DeferredComeLater` speak of the time
until the first POST fails; `failed_post` shows that they must.

**Controller.** `TypeOK` alone is not inductive: that `finished_fields` stays
below `NumberFields` needs that no chunk is reported twice, which needs that no
two threads hold the same task, which needs that a held task is not queued. The
invariant `IInv` states all of it: the pool's queues are exact (`PoolInv`), held
tasks are held once and not queued (`HeldInv`), and the counters are the
cardinalities of the sets they count (`CountInv`). Most actions move no task
(`QuietStep`, one lemma); the others take, reassign or report one, with a lemma
each, which rest on the lemmas about `TakeTask` and `ReassignTask` at the head
of the module. That `getNextTask` never takes its error path follows from
`PoolInv`: a field in `next_task_field` has tasks.

**Completion.** That an announced field is complete is not a fact about one
thread: the thread that announces decided on it in `lastChunk`, and other
threads may report chunks afterwards. `StoreInv` says why this is harmless.
`HolderInv`: `mutex_store_result` is held by exactly the thread that is in
`sendTaskResult`, and what it read from `lastChunk` is still true. So when it
stores the last chunk, `OthersReported` applies: the reported chunks of the
field are a set of `ChunksPerRow - 1` chunks without the own one, hence all the
others, and a reported chunk has been added. `AnnouncedInv` and `FinishedInv`
carry this to the end: a field whose count is full was announced, and the count
of finished fields reaches `NumberFields` only when every field is full.

**Refinement of `MatrixJob`.** `AddedOnce` says that a chunk was added once if
its task was reported or its thread waits in `sendTaskResult` with the chunk
stored, and never otherwise. `StoreResult` is then `AddChunk` of `MatrixJob`,
`PollFinished` is `Finish` or a stutter, and all other actions are stutters.
`AddedOnce` is false with `AckLoss`, where a chunk whose acknowledgement is lost
is calculated and added again: the run `liveness` covers those executions, and
the theorem excludes it by its assumption.

These theorems assume `TaskPoolAssumption` and `ControllerAssumption`: at least
one worker and one chunk per row (`chunks_per_row` is positive by
`ChunkPlanProofs`), any number of fields, failures and hanging or lost workers.

**ChunkPlan.** `IInv` says that chunks and remainder make up a row (`PlanInv`),
that the values not yet cut are exactly those of the chunks to come (`LoopInv`,
`ValuesLeft`), and that the tasks so far are chained (`Chained`). The arithmetic
is nonlinear only in products of chunk size and count; `Division` and
`ProductInNat` isolate it. `EnoughTasks` follows from
`EnoughChunks`: the first chunk size fits into a worker's share of the
multiplications, and a remainder is spread only if it is smaller than a seventh
of it, so the chunks cover more than seven eighths of the row at that size. The assumption is `ChunkPlanAssumption`.

**Healthcheck.** The invariant: the requests that travel are to workers that
were given up, but for the one that is awaited; the same for answers; and a worker
given up is blocked, so it is not asked again. Hence an answer with the awaited
number can only be the awaited worker's, if numbers modulo `AnswerModulus` tell
all workers apart. Beyond 128 workers this is false.

**WriteLock.** The argument has three parts.
`Phases`: `mutex_store_result` keeps the RPC threads apart from each other and,
since main asks only when all is stored, from the main threads. `Accounted`:
for each pair of workers a request is in one place (`OncePerPair`): travelling,
in the callback, queued, or as a reply on its way back, until it is counted; so
`received_replies` is the number of those who owe nothing any more, and a thread
in its critical section was answered by all others. `Ordered`: who answers
while it has a request of its own comes later in the order of Lamport times and
worker numbers. Two threads in the critical section would each come before the
other. The order of deferral needs, in addition, that whoever defers holds a
request (`MainsHold`) that is older (`LaterDeferred`), which a failed POST
breaks; mutual exclusion does not need it.

**StartUp.** `PostInv` follows a task through the connection: one call at a time,
of the method the thread waits for (`OneCall`, `CallFits`), the request on the
wire reads back as the task that was written (`TaskRoundTrip`), and while the
thread is between `calcTask` and `sendTaskResult` the handler's current task
is its own (`Calculated`). Lemmas about the connection (`WriteCall`, `ReadReply`,
`TakeCall`, `WriteReply`) keep the actions' steps short.

`SystemImplementsLock` has to derive the guards of `WriteLock`'s `SendTaskResult`
and `LeaveLoop`, which no action of `StartUp` tests. `Holds`, a part of `PostInv`,
says that the thread at `sendTaskResult` is the one that holds
`mutex_store_result`; so whoever is called to store finds no other worker writing
(`OneStores`). That results are then missing needs a count: `StoreInv` says that
the tasks in the queue and in the threads' hands are distinct and exactly as many
as the results not reported (`TasksApart`, `OpenCounted`), and that
`stores_left` is that number, or one less while the answer TRUE is on its way
back (`StoresCounted`). The task of the thread that calls is one of them. A worker that was
told to finish was told when all were reported (`FinishedFits`), so no task is
open and no thread can call again. Without the mutex two answers could be on
their way at once, and the run's mutant (`LockStore_NoMutex`) breaks the
property. What was proved of `WriteLock` then carries over. TLC checked
`StoreInv` with and without a timeout before it was proved.

The barrier needs an invariant of its own (`BarrierInv`): `mqtt_count` is the
number of threads that have counted (`CountExact`), a thread counts only after
its worker has posted `sem_mqtt` after its subscriptions (`Initialised`), and until
all have, the lock is at rest (`Quiet`).

**Database: numbers and messages** (`MessageProofs`). The parser reads numbers
with a loop and messages that are cut anywhere, so two kinds of facts come first.
`NumberAtHeld`: what `readNumberFromChars` computes for the digits that
`numberToString` wrote is the number, wrapped to an `int`, whatever follows, as
long as it is no digit. The two recursive functions behind it, `DigitsOf` and the
loop in `ValueOf`, are shown to satisfy their equations and to be inverse to
each other by induction; the library's induction theorems take an operator and
cannot be applied, so the induction argues from a least counterexample, which
`NatLessThanWellFounded` and `WFMin` give (`LeastElement`, `Induction`). That
wrapping at every digit is wrapping once, for any number of values of the `int`,
is `WrapOfNextDigit`. `CutToken`: if a token of the buffer is neither NUL nor a
fragment, everything before it was received as it was sent. Hence
`HeaderNumber`: a number is read whole, or what follows it was not. The one
number that nothing follows is the value in the body, and there the code's
comparison with Content-Length takes over (`BodyNumber`). `PostMessageTokens`
says which token is at which position of a message, as a function of the lengths
of its numbers.

**Database: the invariant** (`DatabaseProofs!IInv`). `ValidPostIsWhole` speaks of
the moment when a message was found valid, and is not inductive: what was found
in the lines before must be known. `Parsed` says for each line at which the parser
can be what it has found so far, and that the buffer is a cut of the worker's
message; one lemma per line of the header leads to the next. It needs
`Connection`: the worker's only connection is in the backlog or is the one
served, its message is what it sent for the task it still posts, and it was not
counted yet. And it needs `Browser`: a message that begins as a POST is the
worker's. `FinalWasStored` adds what the cells hold: a final one has a chunk that
was stored, from which `ShownWasStored` follows, because the cells that
`addResult` creates to reach a row or column are not final (`AddResultFacts`: the
value is added to one cell, and all others, existing or not, are as before).
`IInv` was checked by TLC on the instance of the run `database`, with `FinalWasStored`
over the rows and columns that exist, before it was proved.

**Refinement of `ChunkStore`.** The abstract sum of a field is the value in its
cell, 0 if there is none. `Post` begins an abstract post. `RespondPost` is the
abstract addition: `Parsed` gives the field and the value, `Connection` that it was
not counted before, and the sum of wrapped values is the wrapped sum
(`WrapOfSum`). `RecvEnd` ends the post, with success only if the buffer holds the
answer, which `Connection` ties to `counted`. All other steps are stutters.
`FlagsTrue` combines the two: what was acknowledged is stored (`AcknowledgedStored`,
inductive with `IInv`), the worker's flag says that all other chunks of the field
were acknowledged, and `ValidPosts` carries the flag through the parser.
The theorems assume `DatabaseAssumption` and `NumberAssumption`.

**Only model-checked**: all liveness (`ControllerTerminates`,
`SurvivorFinishesJob`, `AllStart`, `StoreRequestGranted`, `PostReturns`,
`StoppedIsBlocked`), which, like ENABLED, is out of the prover's reach. Every
invariant of a passing run, and all three refinements, are theorems.

## 8. What is not modelled

* Environment variables, socket options, printing, statistics (RTT sums and
  their mutex).
* Of the generated Thrift code: exceptions (no handler throws), the classes the
  programs do not use, comparison and printing of structs.
* The matrices' numbers: a product of two ints may overflow
  (RPCImplementation.h:54); chunks are abstract in `Controller` and short in
  `StartUp`. The text of the database's pages, and that a page may be longer
  than the buffer it is written to.
* Signed overflow: the database's sums and its parser's number are `int`s, whose
  overflow is undefined in C++. `Database` wraps them around, as compilers for
  two's complement machines do when they do not make use of it.
* Data races as such: unlocked reads see an old or a new value. That a compiler
  keeps a plain variable (`finished_calculation`, `mqtt_count`) in a register, or
  that `next_task_field.size()` is read in the middle of a push, is not modelled.
* Lost messages where nothing repeats them: registrations (UDP) and MQTT
  messages (QoS 0). Safety covers them, as messages that never arrive; no
  liveness can hold.
* Real time: a worker exits `number_workers + 1` seconds after it printed, and
  the models take that as long enough for all others.
* `MAX_CHUNK_SIZE` = 0 and `MATRIX_A_COLS` = 0, which divide by zero
  (`ChunkPlanAssumption`).
* The broker, containers and makefiles.

## 9. Plan

What could follow, in order of importance:

1. A theorem of what the parts promise together: that with `ChunkStore` in place
   of the database's part of `Controller`, the sums at the end of a job are
   those of all chunks, and how far they are off when an answer was lost.
2. A composition of `Controller` and `WriteLock` in which workers exit: the
   requests of blocked workers, and the time a worker goes on answering. It
   needs a bound on real time.
3. `StartUp` with the full pool of `Controller` in place of its set of tasks, so
   that `JobImplemented` is stated of the whole system.
