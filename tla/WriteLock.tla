------------------------------ MODULE WriteLock ------------------------------
(***************************************************************************)
(* The workers' mutual exclusion (Worker/worker.cpp): the Ricart-Agrawala  *)
(* algorithm over MQTT that lets one worker at a time write to the         *)
(* database and, at the end, print its results.                            *)
(*                                                                         *)
(* A worker has three threads here: the RPC server's, which runs           *)
(* writeToDatabase() for sendTaskResult, the main thread, which prints the *)
(* results, and the MQTT client's, which runs the callback onMQTTMessage() *)
(* for one message at a time.  They share the variables below, most of     *)
(* them under a mutex of their own; a step is what a thread does between   *)
(* two of these mutexes, and a publish belongs to the step before it, for  *)
(* a message may travel for any time.  Messages may overtake each other.   *)
(* Counting a reply and the clock update before it are one step: no other  *)
(* step of the worker can tell them apart.                                 *)
(*                                                                         *)
(* The controller is reduced to what Controller.tla says of it: it calls   *)
(* sendTaskResult on one worker at a time (mutex_store_result), possibly   *)
(* again on a worker whose call returned false (a healthcheck answered at  *)
(* that moment unblocks it), and may call calculationIsFinished when all   *)
(* results are stored.  A worker exits a while after it printed; that      *)
(* sleep is taken to be long enough, and a worker goes on replying.        *)
(***************************************************************************)
EXTENDS Integers, Sequences, FiniteSets

CONSTANTS
  NumberWorkers,    \* number_workers
  NumberStores,     \* the results to be stored
  MaxFailures,      \* bound on the HTTP requests that fail
  TimeoutWorkers    \* the workers whose PROGR_TIMEOUT may pass

Workers == 0 .. NumberWorkers - 1
Requesters == {"rpc", "main"}
Threads == Workers \X Requesters

ASSUME WriteLockAssumption ==
  /\ NumberWorkers \in Nat \ {0}
  /\ NumberStores \in Nat
  /\ MaxFailures \in Nat
  /\ TimeoutWorkers \subseteq Workers

Messages == [type : {"REQUEST", "REPLY"}, from : Workers, to : Workers, lamport : Nat]

VARIABLES
  lamport_time,
  request_lamport_time,
  mqtt_request_open,
  received_replies,
  sem_write_database,
  req_worker_numbers,    \* the workers whose requests wait for the own one
  callback,              \* where the MQTT thread is
  received,              \* the request it handles, NoMessage if none
  pc,                    \* where the RPC and main threads are
  messages,              \* MQTT messages published and not delivered
  stores_left,           \* controller: results that are not stored
  failures               \* HTTP requests that failed

lockVars == <<lamport_time, request_lamport_time, mqtt_request_open,
              received_replies, sem_write_database, req_worker_numbers>>
callbackVars == <<callback, received>>
controllerVars == <<stores_left, failures>>
vars == <<lockVars, callbackVars, pc, messages, controllerVars>>

CallbackStates == {"idle", "request", "compare", "queue", "answer"}
ThreadStates == {"idle", "waiting", "critical", "respond", "printed"}

NoMessage == [type |-> "NONE"]

TypeOK ==
  /\ lamport_time \in [Workers -> Nat]
  /\ request_lamport_time \in [Workers -> Nat \cup {-1}]
  /\ mqtt_request_open \in [Workers -> BOOLEAN]
  /\ received_replies \in [Workers -> {n \in Nat : n = 0 \/ n < NumberWorkers - 1}]
  /\ sem_write_database \in [Workers -> Nat]
  /\ req_worker_numbers \in [Workers -> Seq(Workers)]
  /\ callback \in [Workers -> CallbackStates]
  /\ received \in [Workers -> Messages \cup {NoMessage}]
  /\ \A p \in Workers : IF callback[p] = "idle"
                        THEN received[p] = NoMessage
                        ELSE received[p].type = "REQUEST" /\ received[p].to = p
  /\ pc \in [Threads -> ThreadStates]
  /\ messages \subseteq Messages
  /\ stores_left \in 0 .. NumberStores
  /\ failures \in 0 .. MaxFailures

Init ==
  /\ lamport_time = [p \in Workers |-> 0]
  /\ request_lamport_time = [p \in Workers |-> -1]
  /\ mqtt_request_open = [p \in Workers |-> FALSE]
  /\ received_replies = [p \in Workers |-> 0]
  /\ sem_write_database = [p \in Workers |-> 0]
  /\ req_worker_numbers = [p \in Workers |-> <<>>]
  /\ callback = [p \in Workers |-> "idle"]
  /\ received = [p \in Workers |-> NoMessage]
  /\ pc = [th \in Threads |-> "idle"]
  /\ messages = {}
  /\ stores_left = NumberStores
  /\ failures = 0

Goto(th, label) == pc' = [pc EXCEPT ![th] = label]

\* mqtt_respond_to_open_requests() holds mutex_mqtt_request_open throughout.
RequestOpenMutexFree(p) == \A r \in Requesters : pc[<<p, r>>] # "respond"

\* mqtt_reply: the reply carries the incremented clock.
MqttReply(p, q) ==
  /\ lamport_time' = [lamport_time EXCEPT ![p] = @ + 1]
  /\ messages' = messages \cup
       {[type |-> "REPLY", from |-> p, to |-> q, lamport |-> lamport_time[p] + 1]}

-----------------------------------------------------------------------------
(***************************************************************************)
(* onMQTTMessage                                                           *)
(***************************************************************************)

\* The clock moves past the received one.
Bump(p, m) ==
  lamport_time' = [lamport_time EXCEPT ![p] = IF @ >= m.lamport THEN @ + 1 ELSE m.lamport + 1]

\* Mutant: the counter is not reset for the next request.
ReceiveReply_NoReset(p) ==
  /\ callback[p] = "idle"
  /\ \E m \in messages :
       /\ m.type = "REPLY" /\ m.to = p
       /\ messages' = messages \ {m}
       /\ Bump(p, m)
  /\ received_replies' = [received_replies EXCEPT ![p] = @ + 1]
  /\ sem_write_database' = [sem_write_database EXCEPT
       ![p] = IF received_replies[p] + 1 = NumberWorkers - 1 THEN @ + 1 ELSE @]
  /\ UNCHANGED <<request_lamport_time, mqtt_request_open, req_worker_numbers>>
  /\ UNCHANGED <<callbackVars, pc, controllerVars>>

\* A reply is counted; the last one lets the requesting thread pass.
ReceiveReply(p) ==
  /\ callback[p] = "idle"
  /\ \E m \in messages :
       /\ m.type = "REPLY" /\ m.to = p
       /\ messages' = messages \ {m}
       /\ Bump(p, m)
  /\ IF received_replies[p] + 1 = NumberWorkers - 1
     THEN /\ sem_write_database' = [sem_write_database EXCEPT ![p] = @ + 1]
          /\ received_replies' = [received_replies EXCEPT ![p] = 0]
     ELSE /\ received_replies' = [received_replies EXCEPT ![p] = @ + 1]
          /\ UNCHANGED sem_write_database
  /\ UNCHANGED <<request_lamport_time, mqtt_request_open, req_worker_numbers>>
  /\ UNCHANGED <<callbackVars, pc, controllerVars>>

ReceiveRequest(p) ==
  /\ callback[p] = "idle"
  /\ \E m \in messages :
       /\ m.type = "REQUEST" /\ m.to = p
       /\ messages' = messages \ {m}
       /\ received' = [received EXCEPT ![p] = m]
       /\ Bump(p, m)
  /\ callback' = [callback EXCEPT ![p] = "request"]
  /\ UNCHANGED <<request_lamport_time, mqtt_request_open, received_replies,
                 sem_write_database, req_worker_numbers, pc, controllerVars>>

\* Mutant: the own request is ignored.
ReadRequestOpen_Ignore(p) ==
  /\ callback[p] = "request"
  /\ callback' = [callback EXCEPT ![p] = "answer"]
  /\ UNCHANGED <<lockVars, received, pc, messages, controllerVars>>

\* mqtt_request_open is read under its mutex, which is released again.
ReadRequestOpen(p) ==
  /\ callback[p] = "request"
  /\ RequestOpenMutexFree(p)
  /\ callback' = [callback EXCEPT ![p] = IF mqtt_request_open[p] THEN "compare" ELSE "answer"]
  /\ UNCHANGED <<lockVars, received, pc, messages, controllerVars>>

\* Mutant: equal times are not told apart.
ReceivedGoesFirst_NoTieBreak(p) == request_lamport_time[p] >= received[p].lamport

\* Mutant: the higher worker number goes first.
ReceivedGoesFirst_HigherFirst(p) ==
  LET m == received[p] IN
  \/ request_lamport_time[p] > m.lamport
  \/ request_lamport_time[p] = m.lamport /\ p < m.from

\* The own request is younger than the received one; between equal times the
\* lower worker number goes first.
ReceivedGoesFirst(p) ==
  LET m == received[p] IN
  \/ request_lamport_time[p] > m.lamport
  \/ request_lamport_time[p] = m.lamport /\ p > m.from

CompareRequests(p) ==
  /\ callback[p] = "compare"
  /\ callback' = [callback EXCEPT ![p] = IF ReceivedGoesFirst(p) THEN "answer" ELSE "queue"]
  /\ UNCHANGED <<lockVars, received, pc, messages, controllerVars>>

Return(p) ==
  /\ callback' = [callback EXCEPT ![p] = "idle"]
  /\ received' = [received EXCEPT ![p] = NoMessage]

QueueRequest(p) ==
  /\ callback[p] = "queue"
  /\ req_worker_numbers' = [req_worker_numbers EXCEPT ![p] = Append(@, received[p].from)]
  /\ Return(p)
  /\ UNCHANGED <<lamport_time, request_lamport_time, mqtt_request_open,
                 received_replies, sem_write_database>>
  /\ UNCHANGED <<pc, messages, controllerVars>>

ReplyImmediately(p) ==
  /\ callback[p] = "answer"
  /\ MqttReply(p, received[p].from)
  /\ Return(p)
  /\ UNCHANGED <<request_lamport_time, mqtt_request_open, received_replies,
                 sem_write_database, req_worker_numbers>>
  /\ UNCHANGED <<pc, controllerVars>>

-----------------------------------------------------------------------------
(***************************************************************************)
(* mqtt_request and mqtt_respond_to_open_requests, called by a thread      *)
(* th = <<p, r>> of worker p                                               *)
(***************************************************************************)

\* The request gets the incremented clock, is marked as open and published
\* to all other workers.  A single worker skips the algorithm.
MqttRequest(th) ==
  LET p == th[1] IN
  IF NumberWorkers > 1
  THEN /\ RequestOpenMutexFree(p)
       /\ lamport_time' = [lamport_time EXCEPT ![p] = @ + 1]
       /\ request_lamport_time' = [request_lamport_time EXCEPT ![p] = lamport_time[p] + 1]
       /\ mqtt_request_open' = [mqtt_request_open EXCEPT ![p] = TRUE]
       /\ messages' = messages \cup
            {[type |-> "REQUEST", from |-> p, to |-> q, lamport |-> lamport_time[p] + 1] :
               q \in Workers \ {p}}
       /\ Goto(th, "waiting")
       /\ UNCHANGED <<received_replies, sem_write_database, req_worker_numbers>>
  ELSE /\ Goto(th, "critical")
       /\ UNCHANGED <<lockVars, messages>>

\* sem_wait(&sem_write_database) returns.
Acquire(th) ==
  LET p == th[1] IN
  /\ pc[th] = "waiting"
  /\ sem_write_database[p] > 0
  /\ sem_write_database' = [sem_write_database EXCEPT ![p] = @ - 1]
  /\ Goto(th, "critical")
  /\ UNCHANGED <<lamport_time, request_lamport_time, mqtt_request_open,
                 received_replies, req_worker_numbers>>
  /\ UNCHANGED <<callbackVars, messages, controllerVars>>

\* The writing or printing is over: mutex_mqtt_request_open is taken.
StartResponding(th) ==
  /\ pc[th] = "critical"
  /\ RequestOpenMutexFree(th[1])
  /\ Goto(th, "respond")
  /\ UNCHANGED <<lockVars, callbackVars, messages, controllerVars>>

\* Mutant: the answered request is not popped.
RespondToOpenRequest_NoPop(th) ==
  LET p == th[1] IN
  /\ pc[th] = "respond"
  /\ req_worker_numbers[p] # <<>>
  /\ MqttReply(p, Head(req_worker_numbers[p]))
  /\ UNCHANGED <<request_lamport_time, mqtt_request_open, received_replies,
                 sem_write_database, req_worker_numbers>>
  /\ UNCHANGED <<callbackVars, pc, controllerVars>>

\* One round of the loop over the waiting requests; mutex_request_queue is
\* free during the reply.
RespondToOpenRequest(th) ==
  LET p == th[1] IN
  /\ pc[th] = "respond"
  /\ req_worker_numbers[p] # <<>>
  /\ MqttReply(p, Head(req_worker_numbers[p]))
  /\ req_worker_numbers' = [req_worker_numbers EXCEPT ![p] = Tail(@)]
  /\ UNCHANGED <<request_lamport_time, mqtt_request_open, received_replies,
                 sem_write_database>>
  /\ UNCHANGED <<callbackVars, pc, controllerVars>>

\* Where the thread goes on: sendTaskResult returns true, or main has printed.
LeaveRequest(th) ==
  IF th[2] = "rpc"
  THEN Goto(th, "idle") /\ stores_left' = stores_left - 1
  ELSE Goto(th, "printed") /\ UNCHANGED stores_left

\* Mutant: the request stays open.
CloseRequest_KeepOpen(th) ==
  /\ pc[th] = "respond"
  /\ req_worker_numbers[th[1]] = <<>>
  /\ LeaveRequest(th)
  /\ UNCHANGED <<lockVars, callbackVars, messages, failures>>

\* No request was waiting any more: the own request is closed.
CloseRequest(th) ==
  /\ pc[th] = "respond"
  /\ req_worker_numbers[th[1]] = <<>>
  /\ mqtt_request_open' = [mqtt_request_open EXCEPT ![th[1]] = FALSE]
  /\ LeaveRequest(th)
  /\ UNCHANGED <<lamport_time, request_lamport_time, received_replies,
                 sem_write_database, req_worker_numbers>>
  /\ UNCHANGED <<callbackVars, messages, failures>>

-----------------------------------------------------------------------------
(***************************************************************************)
(* writeToDatabase, main, and the controller's calls                       *)
(***************************************************************************)

StoreMutexFree == \A p \in Workers : pc[<<p, "rpc">>] = "idle"

\* The controller calls sendTaskResult, which runs writeToDatabase.
SendTaskResult(p) ==
  /\ StoreMutexFree
  /\ stores_left > 0
  /\ MqttRequest(<<p, "rpc">>)
  /\ UNCHANGED <<callbackVars, controllerVars>>

\* Any other answer: writeToDatabase returns false at once, the request stays
\* open and the waiting requests stay unanswered.
DatabaseFailed(p) ==
  /\ pc[<<p, "rpc">>] = "critical"
  /\ failures < MaxFailures
  /\ failures' = failures + 1
  /\ Goto(<<p, "rpc">>, "idle")
  /\ UNCHANGED <<lockVars, callbackVars, messages, stores_left>>

\* main leaves its loop after the controller called calculationIsFinished, or
\* when the time is over, and asks for its turn to print.
LeaveLoop(p) ==
  /\ pc[<<p, "main">>] = "idle"
  /\ stores_left = 0 \/ p \in TimeoutWorkers
  /\ MqttRequest(<<p, "main">>)
  /\ UNCHANGED <<callbackVars, controllerVars>>

CallbackStep(p) ==
  \/ ReceiveReply(p) \/ ReceiveRequest(p) \/ ReadRequestOpen(p)
  \/ CompareRequests(p) \/ QueueRequest(p) \/ ReplyImmediately(p)

\* The steps of a requesting thread; the RPC thread's StartResponding follows
\* the database's HTTP OK, main's the printing.
RequesterStep(th) ==
  \/ Acquire(th) \/ StartResponding(th) \/ RespondToOpenRequest(th) \/ CloseRequest(th)

RpcStep(p) == RequesterStep(<<p, "rpc">>)
MainStep(p) == RequesterStep(<<p, "main">>)

Next ==
  \E p \in Workers :
    \/ CallbackStep(p) \/ RpcStep(p) \/ MainStep(p)
    \/ SendTaskResult(p) \/ DatabaseFailed(p) \/ LeaveLoop(p)

Spec == Init /\ [][Next]_vars
=============================================================================
