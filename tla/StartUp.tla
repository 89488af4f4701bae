------------------------------ MODULE StartUp ------------------------------
(***************************************************************************)
(* Controller and workers from their start to the workers' final printing: *)
(* the registration, the barrier that no control thread passes before all  *)
(* workers have initialised MQTT (isMQTTInitialized, mqtt_count,           *)
(* MQTTReady), and the RPCs that drive the workers of WriteLock.           *)
(*                                                                         *)
(* Worker i is the one whose registration arrives as the i-th.  The        *)
(* registrations are not lost (UDP, and nobody repeats one).  The tasks    *)
(* are those of one field; Controller has the pool and the healthchecks in *)
(* full, here a worker whose POST failed is blocked, or blocked and        *)
(* unblocked at once by a healthcheck's answer.                            *)
(***************************************************************************)
EXTENDS WriteLock, Rpc

VARIABLES
  registered,        \* workers registered so far
  serving,           \* workers whose RPC server listens
  mqtt,              \* where the worker's MQTT thread is
  sem_mqtt, sem_mqtt_ready,
  current_task, current_result,   \* RPC handler: the task last calculated
  post,              \* RPC handler: what writeToDatabase was given
  finished,          \* workers told that the calculation is finished
  ctl,               \* where the control threads are
  controller_up,     \* the controller's process runs
  mqtt_count,
  tasks_left,        \* the controller's queue of tasks
  task,              \* the task a control thread holds
  informed,          \* informAboutStoredResult: results known as stored
  blocked,           \* workers with status BLOCKED
  store_holder       \* who holds mutex_store_result

workerStartVars == <<registered, serving, mqtt>>
currentVars == <<current_task, current_result>>
handlerVars == <<sem_mqtt, sem_mqtt_ready, currentVars, post, finished>>
poolVars == <<tasks_left, task, informed, blocked, store_holder>>
threadVars == <<ctl, mqtt_count, poolVars>>
startVars == <<workerStartVars, handlerVars, threadVars, controller_up>>
systemVars == <<vars, rpc, startVars>>

\* The task of the c-th chunk of a field, whose scalar product tells it apart.
ChunkTask(c) ==
  [result_matrix |-> 1, row |-> 2, col |-> 3, matrix_chunk_a |-> <<c, 1>>, matrix_chunk_b |-> <<2, c>>]
AllTasks == {ChunkTask(c) : c \in 1 .. NumberStores}
NoTask ==
  [result_matrix |-> 0, row |-> 0, col |-> 0, matrix_chunk_a |-> <<>>, matrix_chunk_b |-> <<>>]
NoPost == [result_matrix |-> 0, row |-> 0, col |-> 0, result |-> 0, last_chunk |-> FALSE]
Nobody == -1

StartInit ==
  /\ Init
  /\ rpc = [w \in Workers |-> Closed]
  /\ registered = 0 /\ serving = {}
  /\ mqtt = [w \in Workers |-> "off"]
  /\ sem_mqtt = [w \in Workers |-> 0]
  /\ sem_mqtt_ready = [w \in Workers |-> 0]
  /\ current_task = [w \in Workers |-> NoTask]
  /\ current_result = [w \in Workers |-> 0]
  /\ post = [w \in Workers |-> NoPost]
  /\ finished = {}
  /\ ctl = [w \in Workers |-> "none"]
  /\ controller_up = TRUE
  /\ mqtt_count = 0
  /\ tasks_left = AllTasks
  /\ task = [w \in Workers |-> NoTask]
  /\ informed = 0 /\ blocked = {} /\ store_holder = Nobody

-----------------------------------------------------------------------------
(***************************************************************************)
(* The start of a worker                                                   *)
(***************************************************************************)

\* The RPC thread opens its server.
Serve(w) ==
  /\ w \notin serving
  /\ serving' = serving \cup {w}
  /\ UNCHANGED <<vars, rpc, registered, mqtt, handlerVars, threadVars, controller_up>>

\* main registers and gets its number; the controller waits for this only.
Register(w) ==
  /\ registered = w
  /\ registered' = w + 1
  /\ UNCHANGED <<vars, rpc, serving, mqtt, handlerVars, threadVars, controller_up>>

MqttGoto(w, label) ==
  /\ mqtt' = [mqtt EXCEPT ![w] = label]
  /\ UNCHANGED <<vars, rpc, registered, serving, threadVars, controller_up>>
  /\ UNCHANGED <<sem_mqtt_ready, currentVars, post, finished>>

\* The MQTT thread starts after the registration and connects to the broker,
\* which may not be reached; then init_mqtt returns without sem_post.
ConnectMqtt(w) ==
  /\ mqtt[w] = "off" /\ w < registered
  /\ MqttGoto(w, "connected") \/ MqttGoto(w, "failed")
  /\ UNCHANGED sem_mqtt

\* The subscriptions are sent; the broker's acknowledgement is not awaited.
Subscribe(w) ==
  /\ mqtt[w] = "connected"
  /\ MqttGoto(w, "subscribed")
  /\ UNCHANGED sem_mqtt

\* Mutant: the semaphore is posted before the subscriptions are sent.
PostSemMqtt_First(w) ==
  /\ mqtt[w] \in {"connected", "subscribed"} /\ sem_mqtt[w] = 0
  /\ sem_mqtt' = [sem_mqtt EXCEPT ![w] = 1]
  /\ IF mqtt[w] = "subscribed" THEN MqttGoto(w, "looping") ELSE MqttGoto(w, "connected")

PostSemMqtt(w) ==
  /\ mqtt[w] = "subscribed"
  /\ sem_mqtt' = [sem_mqtt EXCEPT ![w] = @ + 1]
  /\ MqttGoto(w, "looping")

-----------------------------------------------------------------------------
(***************************************************************************)
(* The RPC handler                                                         *)
(***************************************************************************)

\* sem_wait(sem_mqtt): the server is busy until MQTT is initialised.
isMQTTInitialized(w) ==
  /\ sem_mqtt[w] > 0
  /\ process_isMQTTInitialized(w, TRUE)
  /\ sem_mqtt' = [sem_mqtt EXCEPT ![w] = @ - 1]
  /\ UNCHANGED <<vars, workerStartVars, sem_mqtt_ready, currentVars, post, finished,
                 threadVars, controller_up>>

MQTTReady(w) ==
  /\ process_MQTTReady(w)
  /\ sem_mqtt_ready' = [sem_mqtt_ready EXCEPT ![w] = @ + 1]
  /\ UNCHANGED <<vars, workerStartVars, sem_mqtt, currentVars, post, finished,
                 threadVars, controller_up>>

ScalarProduct(a, b) == FoldFunctionOnSet(+, 0, [i \in DOMAIN a |-> a[i] * b[i]], DOMAIN a)

\* Mutant: the sum is not reset from the last call.
calcTask_NoReset(w) ==
  LET rpc_matrix_task == calcTask_args_read(rpc[w].request.fields) IN
  /\ process_calcTask(w, TRUE)
  /\ current_task' = [current_task EXCEPT ![w] = rpc_matrix_task]
  /\ current_result' = [current_result EXCEPT
       ![w] = @ + ScalarProduct(rpc_matrix_task.matrix_chunk_a, rpc_matrix_task.matrix_chunk_b)]
  /\ UNCHANGED <<vars, workerStartVars, sem_mqtt, sem_mqtt_ready, post, finished,
                 threadVars, controller_up>>

calcTask(w) ==
  LET rpc_matrix_task == calcTask_args_read(rpc[w].request.fields) IN
  /\ process_calcTask(w, TRUE)
  /\ current_task' = [current_task EXCEPT ![w] = rpc_matrix_task]
  /\ current_result' = [current_result EXCEPT
       ![w] = ScalarProduct(rpc_matrix_task.matrix_chunk_a, rpc_matrix_task.matrix_chunk_b)]
  /\ UNCHANGED <<vars, workerStartVars, sem_mqtt, sem_mqtt_ready, post, finished,
                 threadVars, controller_up>>

\* writeToDatabase is given the current task; it passes sem_mqtt_ready, which
\* it posts again, and makes its request.  The handler does not look whether
\* another worker writes: that is the controller's task (mutex_store_result).
sendTaskResult(w) ==
  /\ process_sendTaskResult(w)
  /\ sem_mqtt_ready[w] > 0
  /\ MqttRequest(<<w, "rpc">>)
  /\ UNCHANGED <<callbackVars, controllerVars>>
  /\ post' = [post EXCEPT
       ![w] = [result_matrix |-> current_task[w].result_matrix,
               row |-> current_task[w].row, col |-> current_task[w].col,
               result |-> current_result[w],
               last_chunk |-> sendTaskResult_args_read(rpc[w].request.fields)]]
  /\ UNCHANGED <<workerStartVars, sem_mqtt, sem_mqtt_ready, currentVars, finished,
                 threadVars, controller_up>>

\* writeToDatabase returns true after it has closed its request, or false.
sendTaskResultReturns(w) ==
  /\ \/ CloseRequest(<<w, "rpc">>) /\ return_sendTaskResult(w, TRUE)
     \/ DatabaseFailed(w) /\ return_sendTaskResult(w, FALSE)
  /\ UNCHANGED startVars

calculationIsFinished(w) ==
  /\ process_calculationIsFinished(w)
  /\ finished' = finished \cup {w}
  /\ UNCHANGED <<vars, workerStartVars, sem_mqtt, sem_mqtt_ready, currentVars, post,
                 threadVars, controller_up>>

-----------------------------------------------------------------------------
(***************************************************************************)
(* The controller                                                          *)
(***************************************************************************)

\* Where a control thread goes; the workers and the lock do not change.
Goto_ctl(w, label) ==
  /\ controller_up
  /\ ctl' = [ctl EXCEPT ![w] = label]
  /\ UNCHANGED <<vars, workerStartVars, handlerVars>>

\* All workers are registered: main creates the control threads.
CreateThreads ==
  /\ registered = NumberWorkers
  /\ ctl = [w \in Workers |-> "none"]
  /\ ctl' = [w \in Workers |-> "open"]
  /\ UNCHANGED <<vars, rpc, workerStartVars, handlerVars, mqtt_count, poolVars, controller_up>>

\* transport->open(): refused if the worker's server does not listen yet; the
\* exception is not caught and ends the controller.
Open(w) ==
  /\ ctl[w] = "open"
  /\ Goto_ctl(w, "ask")
  /\ IF w \in serving
     THEN rpc' = [rpc EXCEPT ![w] = Opened] /\ UNCHANGED controller_up
     ELSE controller_up' = FALSE /\ UNCHANGED rpc
  /\ UNCHANGED <<mqtt_count, poolVars>>

AskMqtt(w) ==
  /\ ctl[w] = "ask"
  /\ send_isMQTTInitialized(w)
  /\ Goto_ctl(w, "asked")
  /\ UNCHANGED <<mqtt_count, poolVars, controller_up>>

MqttInitialized(w) ==
  /\ ctl[w] = "asked"
  /\ recv_isMQTTInitialized(w, TRUE)
  /\ Goto_ctl(w, "count")
  /\ UNCHANGED <<mqtt_count, poolVars, controller_up>>

\* Mutant: the counter is read and written without its mutex.
CountMqtt_NoMutex(w) ==
  /\ ctl[w] = "count"
  /\ mqtt_count' \in {mqtt_count, mqtt_count + 1}
  /\ Goto_ctl(w, "spin")
  /\ UNCHANGED <<rpc, poolVars, controller_up>>

CountMqtt(w) ==
  /\ ctl[w] = "count"
  /\ mqtt_count' = mqtt_count + 1
  /\ Goto_ctl(w, "spin")
  /\ UNCHANGED <<rpc, poolVars, controller_up>>

\* The thread sees that all workers are ready and tells its own.
LeaveSpin(w) ==
  /\ ctl[w] = "spin"
  /\ mqtt_count = NumberWorkers
  /\ send_MQTTReady(w)
  /\ Goto_ctl(w, "told")
  /\ UNCHANGED <<mqtt_count, poolVars, controller_up>>

ReadyTold(w) ==
  /\ ctl[w] = "told"
  /\ recv_MQTTReady(w)
  /\ Goto_ctl(w, "loop")
  /\ UNCHANGED <<mqtt_count, poolVars, controller_up>>

TakeTask(w) ==
  /\ ctl[w] = "loop" /\ w \notin blocked
  /\ \E t \in tasks_left :
       /\ tasks_left' = tasks_left \ {t}
       /\ task' = [task EXCEPT ![w] = t]
       /\ send_calcTask(w, t)
  /\ Goto_ctl(w, "calc")
  /\ UNCHANGED <<mqtt_count, informed, blocked, store_holder, controller_up>>

TaskCalculated(w) ==
  /\ ctl[w] = "calc"
  /\ recv_calcTask(w, TRUE)
  /\ Goto_ctl(w, "lock")
  /\ UNCHANGED <<mqtt_count, poolVars, controller_up>>

\* Mutant: mutex_store_result is not waited for.
LockStore_NoMutex(w) ==
  /\ ctl[w] = "lock"
  /\ store_holder' = w
  /\ send_sendTaskResult(w, informed = NumberStores - 1)
  /\ Goto_ctl(w, "store")
  /\ UNCHANGED <<mqtt_count, tasks_left, task, informed, blocked, controller_up>>

\* mutex_store_result is taken and lastChunk evaluated.
LockStore(w) ==
  /\ ctl[w] = "lock"
  /\ store_holder = Nobody
  /\ store_holder' = w
  /\ send_sendTaskResult(w, informed = NumberStores - 1)
  /\ Goto_ctl(w, "store")
  /\ UNCHANGED <<mqtt_count, tasks_left, task, informed, blocked, controller_up>>

\* sendTaskResult returns: the result is reported, or the task given back and
\* the worker blocked; the answer to a healthcheck may unblock it at once.
ResultSent(w) ==
  /\ ctl[w] = "store"
  /\ \/ /\ recv_sendTaskResult(w, TRUE)
        /\ informed' = informed + 1
        /\ UNCHANGED <<tasks_left, blocked>>
     \/ /\ recv_sendTaskResult(w, FALSE)
        /\ tasks_left' = tasks_left \cup {task[w]}
        /\ blocked' \in {blocked, blocked \cup {w}}
        /\ UNCHANGED informed
  /\ task' = [task EXCEPT ![w] = NoTask]
  /\ store_holder' = Nobody
  /\ Goto_ctl(w, "loop")
  /\ UNCHANGED <<mqtt_count, controller_up>>

\* allTasksFinished(): the worker is told, and the thread exits when it returns.
TellFinished(w) ==
  /\ ctl[w] = "loop"
  /\ informed = NumberStores
  /\ send_calculationIsFinished(w)
  /\ Goto_ctl(w, "finish")
  /\ UNCHANGED <<mqtt_count, poolVars, controller_up>>

FinishedTold(w) ==
  /\ ctl[w] = "finish"
  /\ recv_calculationIsFinished(w)
  /\ Goto_ctl(w, "exited")
  /\ UNCHANGED <<mqtt_count, poolVars, controller_up>>

\* There are tasks again, but the worker is blocked: it is not told anything.
ExitBlocked(w) ==
  /\ ctl[w] = "loop"
  /\ tasks_left # {} /\ w \in blocked
  /\ Goto_ctl(w, "exited")
  /\ UNCHANGED <<rpc, mqtt_count, poolVars, controller_up>>

-----------------------------------------------------------------------------

\* main leaves its loop when it was told to, or when its time is over, and asks
\* for its turn to print.
BreakLoop(w) ==
  /\ pc[<<w, "main">>] = "idle"
  /\ w \in finished \/ w \in TimeoutWorkers
  /\ MqttRequest(<<w, "main">>)
  /\ UNCHANGED <<callbackVars, controllerVars>>

\* The steps of the worker's threads that no RPC starts or ends.  The callback
\* runs in the MQTT thread's loop.
LockStep(w) ==
  /\ \/ mqtt[w] = "looping" /\ CallbackStep(w)
     \/ Acquire(<<w, "rpc">>) \/ StartResponding(<<w, "rpc">>) \/ RespondToOpenRequest(<<w, "rpc">>)
     \/ MainStep(w)
     \/ BreakLoop(w)
  /\ UNCHANGED <<rpc, startVars>>

ControlStep(w) ==
  \/ Open(w) \/ AskMqtt(w) \/ MqttInitialized(w) \/ CountMqtt(w) \/ LeaveSpin(w) \/ ReadyTold(w)
  \/ TakeTask(w) \/ TaskCalculated(w) \/ LockStore(w) \/ ResultSent(w)
  \/ TellFinished(w) \/ FinishedTold(w) \/ ExitBlocked(w)

HandlerStep(w) ==
  \/ isMQTTInitialized(w) \/ MQTTReady(w) \/ calcTask(w) \/ sendTaskResult(w)
  \/ sendTaskResultReturns(w) \/ calculationIsFinished(w)

MqttStart(w) == ConnectMqtt(w) \/ Subscribe(w) \/ PostSemMqtt(w)

StartNext ==
  \/ CreateThreads
  \/ \E w \in Workers :
       Serve(w) \/ Register(w) \/ MqttStart(w) \/ HandlerStep(w) \/ ControlStep(w) \/ LockStep(w)

StartSpec == StartInit /\ [][StartNext]_systemVars
=============================================================================
