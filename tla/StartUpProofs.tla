--------------------------- MODULE StartUpProofs ---------------------------
(***************************************************************************)
(* Proofs about StartUp, for any number of workers and results.            *)
(*                                                                         *)
(* A call is in one place at a time, on its way, handled or answered, and  *)
(* fits where its control thread is, so a worker that sends its result has *)
(* calculated the task that the thread still holds (PostInv).  Hence at    *)
(* most one worker is at sendTaskResult, the one whose thread holds        *)
(* mutex_store_result, and the open tasks, those in the queue and in the   *)
(* threads' hands, are exactly the results not reported (StoreInv).        *)
(*                                                                         *)
(* From this StartUp implements WriteLock: the guards that WriteLock has   *)
(* and the workers do not test are kept by the controller's threads.  So   *)
(* what WriteLockProofs shows holds with the requests that they cause.     *)
(*                                                                         *)
(* As long as no worker's PROGR_TIMEOUT passes, the barrier keeps the lock *)
(* at rest until every worker has its subscriptions (BarrierInv).          *)
(***************************************************************************)
EXTENDS StartUpProperties, WriteLockProofs

-----------------------------------------------------------------------------
(***************************************************************************)
(* Types                                                                   *)
(***************************************************************************)

MqttStates == {"off", "connected", "failed", "subscribed", "looping"}
Before_Spin == {"none", "open", "ask", "asked", "count"}
After_Spin == {"told", "loop", "calc", "lock", "store", "finish", "exited"}
Passed == After_Spin \cup {"spin"}

ConnectionsShaped(c) ==
  /\ DOMAIN c = Workers
  /\ c = [w \in Workers |-> Connection(c[w].open, c[w].method, c[w].request, c[w].handler,
                                       c[w].reply)]

StartTypes ==
  /\ mqtt \in [Workers -> MqttStates]
  /\ ctl \in [Workers -> Before_Spin \cup Passed]
  /\ sem_mqtt \in [Workers -> Nat]
  /\ sem_mqtt_ready \in [Workers -> Nat]
  /\ mqtt_count \in Nat
  /\ ConnectionsShaped(rpc)

\* The lock's requesting threads are where WriteLock has them.
ThreadsTyped == pc \in [Threads -> ThreadStates]

-----------------------------------------------------------------------------
(***************************************************************************)
(* Connections                                                             *)
(***************************************************************************)

LEMMA MessageFields ==
  ASSUME NEW name, NEW type, NEW fields
  PROVE  /\ Message(name, type, fields).name = name
         /\ Message(name, type, fields).type = type
         /\ Message(name, type, fields).fields = fields
  BY DEF Message

\* The connection of w becomes c.
Becomes(w, c) == rpc' = [rpc EXCEPT ![w] = c]

LEMMA Domain == StartTypes => DOMAIN rpc = Workers
  BY DEF StartTypes, ConnectionsShaped

\* What a step of the client or the server does to its worker's connection.
LEMMA WriteCall ==
  ASSUME StartTypes, NEW w \in Workers, NEW name, NEW args, writeCall(w, name, args)
  PROVE  /\ rpc[w].open /\ rpc[w].method = "none"
         /\ Becomes(w, Connection(rpc[w].open, name, Message(name, "T_CALL", args),
                                  rpc[w].handler, rpc[w].reply))
  <1> DEFINE call == Message(name, "T_CALL", args)
  <1>1. PICK open, method0, request, handler, reply :
          rpc[w] = Connection(open, method0, request, handler, reply)
    BY DEF StartTypes, ConnectionsShaped
  <1>2. [Connection(open, method0, request, handler, reply) EXCEPT !.method = name]
          = Connection(open, name, request, handler, reply)
    BY DEF Connection
  <1>3. [Connection(open, name, request, handler, reply) EXCEPT !.request = call]
          = Connection(open, name, call, handler, reply)
    BY DEF Connection
  <1>4. [[rpc[w] EXCEPT !.method = name] EXCEPT !.request = call]
          = Connection(open, name, call, handler, reply)
    BY <1>1, <1>2, <1>3
  <1>5. rpc' = [rpc EXCEPT ![w] = [[rpc[w] EXCEPT !.method = name] EXCEPT !.request = call]]
    BY Domain DEF writeCall
  <1>6. Becomes(w, Connection(open, name, call, handler, reply))
    BY <1>4, <1>5 DEF Becomes
  <1>7. /\ rpc[w].open = open /\ rpc[w].method = method0 /\ rpc[w].request = request
        /\ rpc[w].handler = handler /\ rpc[w].reply = reply
    BY <1>1 DEF Connection
  <1> QED  BY <1>6, <1>7 DEF writeCall

LEMMA ReadReply ==
  ASSUME StartTypes, NEW w \in Workers, NEW method, readReply(w, method)
  PROVE  /\ rpc[w].method = method /\ rpc[w].reply.name = method
         /\ Becomes(w, Connection(rpc[w].open, "none", rpc[w].request, rpc[w].handler, Nothing))
  <1>1. PICK open, method0, request, handler, reply :
          rpc[w] = Connection(open, method0, request, handler, reply)
    BY DEF StartTypes, ConnectionsShaped
  <1>2. [Connection(open, method0, request, handler, reply) EXCEPT !.method = "none"]
          = Connection(open, "none", request, handler, reply)
    BY DEF Connection
  <1>3. [Connection(open, "none", request, handler, reply) EXCEPT !.reply = Nothing]
          = Connection(open, "none", request, handler, Nothing)
    BY DEF Connection
  <1>4. [[rpc[w] EXCEPT !.method = "none"] EXCEPT !.reply = Nothing]
          = Connection(open, "none", request, handler, Nothing)
    BY <1>1, <1>2, <1>3
  <1>5. rpc' = [rpc EXCEPT ![w] = [[rpc[w] EXCEPT !.method = "none"] EXCEPT !.reply = Nothing]]
    BY Domain DEF readReply
  <1>6. Becomes(w, Connection(open, "none", request, handler, Nothing))
    BY <1>4, <1>5 DEF Becomes
  <1>7. /\ rpc[w].open = open /\ rpc[w].method = method0 /\ rpc[w].request = request
        /\ rpc[w].handler = handler /\ rpc[w].reply = reply
    BY <1>1 DEF Connection
  <1> QED  BY <1>6, <1>7 DEF readReply

LEMMA WriteReply ==
  ASSUME StartTypes, NEW w \in Workers, NEW name, NEW result, writeReply(w, name, result)
  PROVE  Becomes(w, Connection(rpc[w].open, rpc[w].method, Nothing, "none",
                               Message(name, "T_REPLY", result)))
  <1> DEFINE answer == Message(name, "T_REPLY", result)
  <1>1. PICK open, method0, request, handler, reply :
          rpc[w] = Connection(open, method0, request, handler, reply)
    BY DEF StartTypes, ConnectionsShaped
  <1>2. [Connection(open, method0, request, handler, reply) EXCEPT !.request = Nothing]
          = Connection(open, method0, Nothing, handler, reply)
    BY DEF Connection
  <1>3. [Connection(open, method0, Nothing, handler, reply) EXCEPT !.handler = "none"]
          = Connection(open, method0, Nothing, "none", reply)
    BY DEF Connection
  <1>4. [Connection(open, method0, Nothing, "none", reply) EXCEPT !.reply = answer]
          = Connection(open, method0, Nothing, "none", answer)
    BY DEF Connection
  <1>5. [[[rpc[w] EXCEPT !.request = Nothing] EXCEPT !.handler = "none"] EXCEPT !.reply = answer]
          = Connection(open, method0, Nothing, "none", answer)
    BY <1>1, <1>2, <1>3, <1>4
  <1>6. rpc' = [rpc EXCEPT ![w] =
                 [[[rpc[w] EXCEPT !.request = Nothing] EXCEPT !.handler = "none"] EXCEPT !.reply = answer]]
    BY Domain DEF writeReply
  <1>7. Becomes(w, Connection(open, method0, Nothing, "none", answer))
    BY <1>5, <1>6 DEF Becomes
  <1>8. /\ rpc[w].open = open /\ rpc[w].method = method0 /\ rpc[w].request = request
        /\ rpc[w].handler = handler /\ rpc[w].reply = reply
    BY <1>1 DEF Connection
  <1> QED  BY <1>7, <1>8

LEMMA TakeCall ==
  ASSUME StartTypes, NEW w \in Workers, process_sendTaskResult(w)
  PROVE  Becomes(w, Connection(rpc[w].open, rpc[w].method, Nothing, "sendTaskResult", rpc[w].reply))
  <1>1. PICK open, method0, request, handler, reply :
          rpc[w] = Connection(open, method0, request, handler, reply)
    BY DEF StartTypes, ConnectionsShaped
  <1>2. [Connection(open, method0, request, handler, reply) EXCEPT !.request = Nothing]
          = Connection(open, method0, Nothing, handler, reply)
    BY DEF Connection
  <1>3. [Connection(open, method0, Nothing, handler, reply) EXCEPT !.handler = "sendTaskResult"]
          = Connection(open, method0, Nothing, "sendTaskResult", reply)
    BY DEF Connection
  <1>4. [[rpc[w] EXCEPT !.request = Nothing] EXCEPT !.handler = "sendTaskResult"]
          = Connection(open, method0, Nothing, "sendTaskResult", reply)
    BY <1>1, <1>2, <1>3
  <1>5. rpc' = [rpc EXCEPT ![w] =
                 [[rpc[w] EXCEPT !.request = Nothing] EXCEPT !.handler = "sendTaskResult"]]
    BY Domain DEF process_sendTaskResult
  <1>6. Becomes(w, Connection(open, method0, Nothing, "sendTaskResult", reply))
    BY <1>4, <1>5 DEF Becomes
  <1>7. /\ rpc[w].open = open /\ rpc[w].method = method0 /\ rpc[w].request = request
        /\ rpc[w].handler = handler /\ rpc[w].reply = reply
    BY <1>1 DEF Connection
  <1> QED  BY <1>6, <1>7

LEMMA StaysShaped ==
  ASSUME ConnectionsShaped(rpc), NEW w \in Workers, NEW open, NEW method, NEW request,
         NEW handler, NEW reply,
         Becomes(w, Connection(open, method, request, handler, reply))
  PROVE  /\ ConnectionsShaped(rpc')
         /\ \A v \in Workers \ {w} : rpc'[v] = rpc[v]
         /\ rpc'[w] = Connection(open, method, request, handler, reply)
  BY DEF ConnectionsShaped, Connection, Becomes

\* What a control thread does to its worker's connection.
LEMMA ControlStepRpc ==
  ASSUME StartTypes, NEW w \in Workers, ControlStep(w)
  PROVE  \/ UNCHANGED rpc
         \/ \E open, method, request, handler, reply :
              /\ Becomes(w, Connection(open, method, request, handler, reply))
              /\ reply = rpc[w].reply \/ reply = Nothing
  <1>1. CASE Open(w)
    <2>1. Becomes(w, Opened) \/ UNCHANGED rpc  BY <1>1 DEF Open, Becomes
    <2> QED  BY <2>1 DEF Opened
  <1>2. CASE AskMqtt(w)
    <2>1. writeCall(w, "isMQTTInitialized", isMQTTInitialized_args_write)
      BY <1>2 DEF AskMqtt, send_isMQTTInitialized
    <2> QED  BY <2>1, WriteCall
  <1>3. CASE MqttInitialized(w)
    <2>1. readReply(w, "isMQTTInitialized")
      BY <1>3 DEF MqttInitialized, recv_isMQTTInitialized
    <2> QED  BY <2>1, ReadReply
  <1>4. CASE CountMqtt(w) \/ ExitBlocked(w)
    BY <1>4 DEF CountMqtt, ExitBlocked
  <1>5. CASE LeaveSpin(w)
    <2>1. writeCall(w, "MQTTReady", MQTTReady_args_write)
      BY <1>5 DEF LeaveSpin, send_MQTTReady
    <2> QED  BY <2>1, WriteCall
  <1>6. CASE ReadyTold(w)
    <2>1. readReply(w, "MQTTReady")  BY <1>6 DEF ReadyTold, recv_MQTTReady
    <2> QED  BY <2>1, ReadReply
  <1>7. CASE TakeTask(w)
    <2>1. PICK args : writeCall(w, "calcTask", args)  BY <1>7 DEF TakeTask, send_calcTask
    <2> QED  BY <2>1, WriteCall
  <1>8. CASE TaskCalculated(w)
    <2>1. readReply(w, "calcTask")  BY <1>8 DEF TaskCalculated, recv_calcTask
    <2> QED  BY <2>1, ReadReply
  <1>9. CASE LockStore(w)
    <2>1. PICK args : writeCall(w, "sendTaskResult", args)
      BY <1>9 DEF LockStore, send_sendTaskResult
    <2> QED  BY <2>1, WriteCall
  <1>10. CASE ResultSent(w)
    <2>1. readReply(w, "sendTaskResult")  BY <1>10 DEF ResultSent, recv_sendTaskResult
    <2> QED  BY <2>1, ReadReply
  <1>11. CASE TellFinished(w)
    <2>1. writeCall(w, "calculationIsFinished", calculationIsFinished_args_write)
      BY <1>11 DEF TellFinished, send_calculationIsFinished
    <2> QED  BY <2>1, WriteCall
  <1>12. CASE FinishedTold(w)
    <2>1. readReply(w, "calculationIsFinished")
      BY <1>12 DEF FinishedTold, recv_calculationIsFinished
    <2> QED  BY <2>1, ReadReply
  <1> QED  BY <1>1, <1>2, <1>3, <1>4, <1>5, <1>6, <1>7, <1>8, <1>9, <1>10, <1>11, <1>12
           DEF ControlStep

\* Where a control thread goes.
LEMMA ControlStepCtl ==
  ASSUME StartTypes, NEW w \in Workers, ControlStep(w)
  PROVE  /\ \E label \in Before_Spin \cup Passed : ctl' = [ctl EXCEPT ![w] = label]
         /\ UNCHANGED <<vars, mqtt, sem_mqtt, sem_mqtt_ready, finished>>
         /\ \/ ctl[w] \in Before_Spin \ {"count"} /\ ctl'[w] \in Before_Spin \ {"count"}
            \/ ctl[w] \in Before_Spin \ {"count"} /\ ctl'[w] = "count" /\ MqttInitialized(w)
            \/ ctl[w] = "count" /\ ctl'[w] = "spin" /\ CountMqtt(w)
            \/ ctl[w] = "spin" /\ ctl'[w] \in After_Spin /\ mqtt_count = NumberWorkers
            \/ ctl[w] \in After_Spin /\ ctl'[w] \in After_Spin
         /\ mqtt_count' = IF ctl[w] = "count" THEN mqtt_count + 1 ELSE mqtt_count
  <1>1. UNCHANGED <<vars, mqtt, sem_mqtt, sem_mqtt_ready, finished>>
    BY DEF ControlStep, Open, AskMqtt, MqttInitialized, CountMqtt, LeaveSpin, ReadyTold, TakeTask,
           TaskCalculated, LockStore, ResultSent, TellFinished, FinishedTold, ExitBlocked, Goto_ctl,
           workerStartVars, handlerVars
  <1> USE DEF Goto_ctl, StartTypes, Before_Spin, After_Spin, Passed
  <1>2. CASE Open(w) \/ AskMqtt(w) \/ MqttInitialized(w)
    BY <1>1, <1>2 DEF Open, AskMqtt, MqttInitialized
  <1>3. CASE CountMqtt(w) \/ LeaveSpin(w)
    BY <1>1, <1>3 DEF CountMqtt, LeaveSpin
  <1>4. CASE ReadyTold(w) \/ TakeTask(w) \/ TaskCalculated(w) \/ LockStore(w)
    BY <1>1, <1>4 DEF ReadyTold, TakeTask, TaskCalculated, LockStore
  <1>5. CASE ResultSent(w) \/ TellFinished(w) \/ FinishedTold(w) \/ ExitBlocked(w)
    BY <1>1, <1>5 DEF ResultSent, TellFinished, FinishedTold, ExitBlocked
  <1> QED  BY <1>2, <1>3, <1>4, <1>5 DEF ControlStep

\* What the RPC handler does to its connection.
LEMMA HandlerStepRpc ==
  ASSUME StartTypes, NEW w \in Workers, HandlerStep(w)
  PROVE  \E request, handler, reply :
           Becomes(w, Connection(rpc[w].open, rpc[w].method, request, handler, reply))
  <1>1. CASE isMQTTInitialized(w)
    <2>1. PICK result : writeReply(w, "isMQTTInitialized", result)
      BY <1>1 DEF isMQTTInitialized, process_isMQTTInitialized
    <2> QED  BY <2>1, WriteReply
  <1>2. CASE MQTTReady(w)
    <2>1. writeReply(w, "MQTTReady", MQTTReady_result_write)
      BY <1>2 DEF MQTTReady, process_MQTTReady
    <2> QED  BY <2>1, WriteReply
  <1>3. CASE calcTask(w)
    <2>1. PICK result : writeReply(w, "calcTask", result)
      BY <1>3 DEF calcTask, process_calcTask
    <2> QED  BY <2>1, WriteReply
  <1>4. CASE sendTaskResult(w)
    BY <1>4, TakeCall DEF sendTaskResult
  <1>5. CASE sendTaskResultReturns(w)
    <2>1. PICK success \in BOOLEAN :
             writeReply(w, "sendTaskResult", sendTaskResult_result_write(success))
      BY <1>5 DEF sendTaskResultReturns, return_sendTaskResult
    <2> QED  BY <2>1, WriteReply
  <1>6. CASE calculationIsFinished(w)
    <2>1. writeReply(w, "calculationIsFinished", calculationIsFinished_result_write)
      BY <1>6 DEF calculationIsFinished, process_calculationIsFinished
    <2> QED  BY <2>1, WriteReply
  <1> QED  BY <1>1, <1>2, <1>3, <1>4, <1>5, <1>6 DEF HandlerStep

LEMMA TypesInit == StartInit => StartTypes /\ ThreadsTyped
  BY DEF StartInit, Init, StartTypes, ConnectionsShaped, MqttStates, Before_Spin, Closed,
         Connection, ThreadsTyped, ThreadStates

LEMMA TypesStep ==
  ASSUME StartTypes, [StartNext]_systemVars
  PROVE  StartTypes'
  <1> USE DEF StartTypes
  <1>1. CASE CreateThreads
    BY <1>1 DEF CreateThreads, workerStartVars, handlerVars, Before_Spin
  <1>2. ASSUME NEW w \in Workers, Serve(w) \/ Register(w) \/ MqttStart(w) PROVE StartTypes'
    <2>1. UNCHANGED <<rpc, ctl, mqtt_count, sem_mqtt_ready>>
      BY <1>2 DEF Serve, Register, MqttStart, ConnectMqtt, Subscribe, PostSemMqtt, MqttGoto,
                  handlerVars, threadVars
    <2>2. mqtt' \in [Workers -> MqttStates] /\ sem_mqtt' \in [Workers -> Nat]
      BY <1>2 DEF MqttStates, Serve, Register, MqttStart, ConnectMqtt, Subscribe, PostSemMqtt,
                  MqttGoto, handlerVars
    <2> QED  BY <2>1, <2>2
  <1>3. ASSUME NEW w \in Workers, HandlerStep(w) PROVE StartTypes'
    <2>1. UNCHANGED <<ctl, mqtt, mqtt_count>>
      BY <1>3 DEF HandlerStep, isMQTTInitialized, MQTTReady, calcTask, sendTaskResult,
             sendTaskResultReturns, calculationIsFinished, workerStartVars, threadVars, startVars
    <2>2. sem_mqtt' \in [Workers -> Nat] /\ sem_mqtt_ready' \in [Workers -> Nat]
      <3>1. CASE isMQTTInitialized(w)
        <4>1. /\ sem_mqtt[w] > 0 /\ UNCHANGED sem_mqtt_ready
              /\ sem_mqtt' = [sem_mqtt EXCEPT ![w] = sem_mqtt[w] - 1]
          BY <3>1 DEF isMQTTInitialized
        <4> QED  BY <4>1
      <3>2. CASE MQTTReady(w)
        BY <3>2 DEF MQTTReady
      <3>3. CASE ~(isMQTTInitialized(w) \/ MQTTReady(w))
        BY <1>3, <3>3 DEF HandlerStep, calcTask, sendTaskResult, sendTaskResultReturns,
                          calculationIsFinished, startVars, handlerVars
      <3> QED  BY <3>1, <3>2, <3>3
    <2>3. ConnectionsShaped(rpc')
      BY <1>3, HandlerStepRpc, StaysShaped
    <2> QED  BY <2>1, <2>2, <2>3
  <1>4. ASSUME NEW w \in Workers, ControlStep(w) PROVE StartTypes'
    <2>1. /\ ctl' \in [Workers -> Before_Spin \cup Passed]
          /\ UNCHANGED <<mqtt, sem_mqtt, sem_mqtt_ready>> /\ mqtt_count' \in Nat
      BY <1>4, ControlStepCtl
    <2>2. ConnectionsShaped(rpc')
      BY <1>4, ControlStepRpc, StaysShaped
    <2> QED  BY <2>1, <2>2
  <1>5. ASSUME NEW w \in Workers, LockStep(w) PROVE StartTypes'
    BY <1>5 DEF LockStep, startVars, workerStartVars, handlerVars, threadVars
  <1>6. CASE UNCHANGED systemVars
    BY <1>6 DEF systemVars, startVars, workerStartVars, handlerVars, threadVars
  <1> QED  BY <1>1, <1>2, <1>3, <1>4, <1>5, <1>6 DEF StartNext

\* A thread of a worker goes from one of WriteLock's places to another.
LEMMA ThreadGoes ==
  ASSUME ThreadsTyped, NEW w \in Workers, NEW r \in Requesters,
         \/ MqttRequest(<<w, r>>) \/ RequesterStep(<<w, r>>)
         \/ DatabaseFailed(w) /\ r = "rpc"
  PROVE  ThreadsTyped'
  <1>1. <<w, r>> \in Threads  BY DEF Threads
  <1>2. UNCHANGED pc \/ \E label \in ThreadStates : pc' = [pc EXCEPT ![<<w, r>>] = label]
    BY DEF MqttRequest, RequesterStep, Acquire, StartResponding, RespondToOpenRequest, CloseRequest,
           LeaveRequest, DatabaseFailed, Goto, ThreadStates
  <1> QED  BY <1>1, <1>2 DEF ThreadsTyped

LEMMA ThreadsStep ==
  ASSUME ThreadsTyped, [StartNext]_systemVars
  PROVE  ThreadsTyped'
  <1>1. CASE UNCHANGED pc
    BY <1>1 DEF ThreadsTyped
  <1>2. ASSUME NEW w \in Workers, HandlerStep(w) PROVE ThreadsTyped'
    <2>1. CASE sendTaskResult(w) \/ sendTaskResultReturns(w)
      BY <2>1, ThreadGoes DEF sendTaskResult, sendTaskResultReturns, RequesterStep, Requesters
    <2>2. CASE ~(sendTaskResult(w) \/ sendTaskResultReturns(w))
      BY <1>1, <1>2, <2>2 DEF HandlerStep, isMQTTInitialized, MQTTReady, calcTask,
                              calculationIsFinished, vars
    <2> QED  BY <2>1, <2>2
  <1>3. ASSUME NEW w \in Workers, LockStep(w) PROVE ThreadsTyped'
    <2>1. CASE CallbackStep(w)
      BY <1>1, <2>1 DEF CallbackStep, ReceiveReply, ReceiveRequest, ReadRequestOpen,
                        CompareRequests, QueueRequest, ReplyImmediately
    <2>2. CASE ~CallbackStep(w)
      BY <1>3, <2>2, ThreadGoes DEF LockStep, MainStep, RequesterStep, BreakLoop, Requesters
    <2> QED  BY <2>1, <2>2
  <1>4. ASSUME NEW w \in Workers, Serve(w) \/ Register(w) \/ MqttStart(w) PROVE ThreadsTyped'
    BY <1>1, <1>4 DEF Serve, Register, MqttStart, ConnectMqtt, Subscribe, PostSemMqtt, MqttGoto, vars
  <1>5. ASSUME NEW w \in Workers, ControlStep(w) PROVE ThreadsTyped'
    BY <1>1, <1>5
    DEF ControlStep, Open, AskMqtt, MqttInitialized, CountMqtt, LeaveSpin, ReadyTold, TakeTask,
        TaskCalculated, LockStore, ResultSent, TellFinished, FinishedTold, ExitBlocked, Goto_ctl, vars
  <1>6. CASE CreateThreads \/ UNCHANGED systemVars
    BY <1>1, <1>6 DEF CreateThreads, systemVars, vars
  <1> QED  BY <1>2, <1>3, <1>4, <1>5, <1>6 DEF StartNext

-----------------------------------------------------------------------------
(***************************************************************************)
(* What is written to the wire is read from it                             *)
(***************************************************************************)

\* A field that is the only one of its number and type is found.
LEMMA FieldFound ==
  ASSUME NEW wire, NEW fid, NEW ftype, Len(wire) \in Nat, NEW i \in 1 .. Len(wire),
         wire[i].fid = fid, wire[i].ftype = ftype,
         \A j \in 1 .. Len(wire) : wire[j].fid = fid /\ wire[j].ftype = ftype => j = i
  PROVE  FieldPosition(wire, fid, ftype) = i
  BY DEF FieldPosition, SelectLastInSeq, Max

LEMMA NumberedField ==
  ASSUME NEW wire, Len(wire) \in Nat, \A j \in 1 .. Len(wire) : wire[j].fid = j,
         NEW fid \in 1 .. Len(wire), NEW ftype, wire[fid].ftype = ftype
  PROVE  FieldPosition(wire, fid, ftype) = fid
  BY FieldFound

LEMMA FieldParts ==
  ASSUME NEW fid, NEW ftype, NEW value
  PROVE  /\ Field(fid, ftype, value).fid = fid
         /\ Field(fid, ftype, value).ftype = ftype
         /\ Field(fid, ftype, value).value = value
  BY DEF Field

LEMMA OneField ==
  ASSUME NEW fid, NEW ftype, NEW value
  PROVE  ReadField(<<Field(fid, ftype, value)>>, fid, ftype) = value
  <1> DEFINE f == Field(fid, ftype, value)
  <1> DEFINE wire == <<f>>
  <1>0. f.fid = fid /\ f.ftype = ftype /\ f.value = value BY FieldParts
  <1> HIDE DEF f
  <1>1. Len(wire) = 1 /\ wire[1] = f
    OBVIOUS
  <1> HIDE DEF wire
  <1>2. FieldPosition(wire, fid, ftype) = 1
    BY <1>0, <1>1, FieldFound
  <1>3. ReadField(wire, fid, ftype) = value
    BY <1>0, <1>1, <1>2 DEF ReadField
  <1> QED  BY <1>3 DEF f, wire

\* A task is read from the wire as it was written.
LEMMA TaskRoundTrip ==
  ASSUME NEW c
  PROVE  RPCMatrixTask_read(RPCMatrixTask_write(ChunkTask(c))) = ChunkTask(c)
  <1> DEFINE t == ChunkTask(c)
  <1> DEFINE f1 == Field(1, "T_I32", t.result_matrix)
  <1> DEFINE f2 == Field(2, "T_I64", t.row)
  <1> DEFINE f3 == Field(3, "T_I64", t.col)
  <1> DEFINE f4 == Field(4, "T_LIST", t.matrix_chunk_a)
  <1> DEFINE f5 == Field(5, "T_LIST", t.matrix_chunk_b)
  <1> DEFINE wire == <<f1, f2, f3, f4, f5>>
  <1>0. t = [result_matrix |-> t.result_matrix, row |-> t.row, col |-> t.col,
             matrix_chunk_a |-> t.matrix_chunk_a, matrix_chunk_b |-> t.matrix_chunk_b]
    BY DEF ChunkTask
  <1> HIDE DEF t
  <1>1. /\ f1.fid = 1 /\ f1.ftype = "T_I32" /\ f1.value = t.result_matrix
        /\ f2.fid = 2 /\ f2.ftype = "T_I64" /\ f2.value = t.row
        /\ f3.fid = 3 /\ f3.ftype = "T_I64" /\ f3.value = t.col
        /\ f4.fid = 4 /\ f4.ftype = "T_LIST" /\ f4.value = t.matrix_chunk_a
        /\ f5.fid = 5 /\ f5.ftype = "T_LIST" /\ f5.value = t.matrix_chunk_b
    BY FieldParts
  <1>2. RPCMatrixTask_write(t) = wire  BY DEF RPCMatrixTask_write
  <1> HIDE DEF f1, f2, f3, f4, f5
  <1>3. /\ Len(wire) = 5 /\ wire[1] = f1 /\ wire[2] = f2 /\ wire[3] = f3 /\ wire[4] = f4
        /\ wire[5] = f5
    OBVIOUS
  <1> HIDE DEF wire
  <1>4. \A j \in 1 .. Len(wire) : wire[j].fid = j
    BY <1>1, <1>3
  <1>5. /\ FieldPosition(wire, 1, "T_I32") = 1 /\ FieldPosition(wire, 2, "T_I64") = 2
        /\ FieldPosition(wire, 3, "T_I64") = 3 /\ FieldPosition(wire, 4, "T_LIST") = 4
        /\ FieldPosition(wire, 5, "T_LIST") = 5
    <2>1. FieldPosition(wire, 1, "T_I32") = 1
      <3>1. 1 \in 1 .. Len(wire) /\ Len(wire) \in Nat  BY <1>3
      <3>2. wire[1].ftype = "T_I32"  BY <1>1, <1>3
      <3> QED  BY <1>4, <3>1, <3>2, NumberedField
    <2>2. FieldPosition(wire, 2, "T_I64") = 2
      <3>1. 2 \in 1 .. Len(wire) /\ Len(wire) \in Nat  BY <1>3
      <3>2. wire[2].ftype = "T_I64"  BY <1>1, <1>3
      <3> QED  BY <1>4, <3>1, <3>2, NumberedField
    <2>3. FieldPosition(wire, 3, "T_I64") = 3
      <3>1. 3 \in 1 .. Len(wire) /\ Len(wire) \in Nat  BY <1>3
      <3>2. wire[3].ftype = "T_I64"  BY <1>1, <1>3
      <3> QED  BY <1>4, <3>1, <3>2, NumberedField
    <2>4. FieldPosition(wire, 4, "T_LIST") = 4
      <3>1. 4 \in 1 .. Len(wire) /\ Len(wire) \in Nat  BY <1>3
      <3>2. wire[4].ftype = "T_LIST"  BY <1>1, <1>3
      <3> QED  BY <1>4, <3>1, <3>2, NumberedField
    <2>5. FieldPosition(wire, 5, "T_LIST") = 5
      <3>1. 5 \in 1 .. Len(wire) /\ Len(wire) \in Nat  BY <1>3
      <3>2. wire[5].ftype = "T_LIST"  BY <1>1, <1>3
      <3> QED  BY <1>4, <3>1, <3>2, NumberedField
    <2> QED  BY <2>1, <2>2, <2>3, <2>4, <2>5
  <1>6. RPCMatrixTask_read(wire) = t
    BY <1>0, <1>1, <1>3, <1>5 DEF RPCMatrixTask_read, ReadField
  <1> QED  BY <1>2, <1>6 DEF t

LEMMA CallRoundTrip ==
  ASSUME NEW t \in AllTasks
  PROVE  calcTask_args_read(calcTask_args_write(t)) = t
  <1>1. PICK c \in 1 .. NumberStores : t = ChunkTask(c)  BY DEF AllTasks
  <1>2. RPCMatrixTask_read(RPCMatrixTask_write(t)) = t  BY <1>1, TaskRoundTrip
  <1> QED  BY <1>2, OneField DEF calcTask_args_read, calcTask_args_write

LEMMA FlagRoundTrip ==
  ASSUME NEW b
  PROVE  sendTaskResult_args_read(sendTaskResult_args_write(b)) = b
  BY OneField DEF sendTaskResult_args_read, sendTaskResult_args_write

-----------------------------------------------------------------------------
(***************************************************************************)
(* The task that is written to the database                                *)
(***************************************************************************)

Dot(t) == ScalarProduct(t.matrix_chunk_a, t.matrix_chunk_b)
IsLast == informed = NumberStores - 1
PostOf(t) ==
  [result_matrix |-> t.result_matrix, row |-> t.row, col |-> t.col, result |-> Dot(t),
   last_chunk |-> IsLast]
Sending(w) == pc[<<w, "rpc">>] # "idle"

PoolTypes ==
  /\ DOMAIN task = Workers /\ DOMAIN current_task = Workers
  /\ DOMAIN current_result = Workers /\ DOMAIN post = Workers
  /\ tasks_left \subseteq AllTasks

\* A call is in one place: on its way, handled, or answered.
OneCall(w) ==
  /\ rpc[w].method = "none" => rpc[w].request.name = "none" /\ rpc[w].reply.name = "none"
  /\ rpc[w].request.name = "none" \/ rpc[w].reply.name = "none"
  /\ Sending(w) => /\ rpc[w].method # "none"
                   /\ rpc[w].request.name = "none" /\ rpc[w].reply.name = "none"
  /\ Sending(w) <=> rpc[w].handler = "sendTaskResult"

\* The thread that stores holds the mutex.
Holds(w) == store_holder = w <=> ctl[w] = "store"

\* What is called is what the thread is at.
CallFits(w) ==
  /\ rpc[w].request.name = "calcTask" =>
       ctl[w] = "calc" /\ rpc[w].request.fields = calcTask_args_write(task[w])
  /\ rpc[w].request.name = "sendTaskResult" =>
       ctl[w] = "store" /\ rpc[w].request.fields = sendTaskResult_args_write(IsLast)
  /\ Sending(w) => ctl[w] = "store" /\ post[w] = PostOf(task[w])

\* The task a thread holds is the one its worker has calculated.
Calculated(w) ==
  /\ ctl[w] \in {"calc", "lock", "store"} => task[w] \in AllTasks
  /\ ctl[w] \in {"lock", "store"} \/ (ctl[w] = "calc" /\ rpc[w].reply.name = "calcTask") =>
       current_task[w] = task[w] /\ current_result[w] = Dot(task[w])

PostInv ==
  /\ PoolTypes
  /\ \A w \in Workers : OneCall(w) /\ Holds(w) /\ CallFits(w) /\ Calculated(w)

LEMMA PostInit == StartInit => PostInv
  <1> SUFFICES ASSUME StartInit PROVE PostInv  OBVIOUS
  <1>1. PoolTypes  BY DEF StartInit, PoolTypes
  <1> SUFFICES ASSUME NEW w \in Workers
               PROVE  OneCall(w) /\ Holds(w) /\ CallFits(w) /\ Calculated(w)
    BY <1>1 DEF PostInv
  <1>2. /\ rpc[w].method = "none" /\ rpc[w].request = Nothing /\ rpc[w].handler = "none"
        /\ rpc[w].reply = Nothing
    BY DEF StartInit, Closed, Connection
  <1>3. Nothing.name = "none"  BY MessageFields DEF Nothing
  <1>4. pc[<<w, "rpc">>] = "idle"  BY DEF StartInit, Init, Threads, Requesters
  <1>5. ctl[w] = "none" /\ store_holder # w
    BY DEF StartInit, Nobody, Workers
  <1> QED  BY <1>2, <1>3, <1>4, <1>5 DEF OneCall, Holds, CallFits, Calculated, Sending

\* What the invariant says of one worker depends on its part of the state.
LEMMA PostUnchanged ==
  ASSUME NEW w \in Workers, OneCall(w) /\ Holds(w) /\ CallFits(w) /\ Calculated(w),
         rpc'[w] = rpc[w], ctl'[w] = ctl[w], task'[w] = task[w], post'[w] = post[w],
         current_task'[w] = current_task[w], current_result'[w] = current_result[w],
         Sending(w)' <=> Sending(w), store_holder' = w <=> store_holder = w,
         ctl[w] = "store" => informed' = informed
  PROVE  (OneCall(w) /\ Holds(w) /\ CallFits(w) /\ Calculated(w))'
  <1>1. OneCall(w)' /\ Holds(w)' /\ Calculated(w)'
    BY DEF OneCall, Holds, Calculated, Dot
  <1>2. ctl[w] = "store" => (IsLast' <=> IsLast)  BY DEF IsLast
  <1>3. CallFits(w)'
    BY <1>2 DEF CallFits, PostOf, Dot, IsLast
  <1> QED  BY <1>1, <1>3

\* A thread that neither has a task nor sends one.
LEMMA NothingToPost ==
  ASSUME NEW w \in Workers, OneCall(w)', ctl'[w] \notin {"calc", "lock", "store"},
         rpc'[w].request.name \notin {"calcTask", "sendTaskResult"}, store_holder' # w, ~Sending(w)'
  PROVE  (OneCall(w) /\ Holds(w) /\ CallFits(w) /\ Calculated(w))'
  BY DEF Holds, CallFits, Calculated

\* The lock's own steps do not begin or end a sendTaskResult.
LEMMA LockStepSending ==
  ASSUME ThreadsTyped, NEW w \in Workers, LockStep(w), NEW v \in Workers
  PROVE  Sending(v)' <=> Sending(v)
  <1>1. pc \in [Threads -> ThreadStates]  BY DEF ThreadsTyped
  <1>2. CASE CallbackStep(w)
    <2>1. UNCHANGED pc
      BY <1>2 DEF CallbackStep, ReceiveReply, ReceiveRequest, ReadRequestOpen, CompareRequests,
                  QueueRequest, ReplyImmediately
    <2> QED  BY <2>1 DEF Sending
  <1>3. CASE Acquire(<<w, "rpc">>) \/ StartResponding(<<w, "rpc">>)
    <2>1. \E label \in {"critical", "respond"} : pc' = [pc EXCEPT ![<<w, "rpc">>] = label]
      BY <1>3 DEF Acquire, StartResponding, Goto
    <2>2. pc[<<w, "rpc">>] # "idle"  BY <1>3 DEF Acquire, StartResponding
    <2> QED  BY <1>1, <2>1, <2>2 DEF Sending, Threads, Requesters
  <1>4. CASE RespondToOpenRequest(<<w, "rpc">>) \/ RespondToOpenRequest(<<w, "main">>)
    <2>1. UNCHANGED pc  BY <1>4 DEF RespondToOpenRequest
    <2> QED  BY <2>1 DEF Sending
  <1>5. CASE \/ Acquire(<<w, "main">>) \/ StartResponding(<<w, "main">>)
             \/ CloseRequest(<<w, "main">>) \/ BreakLoop(w)
    <2>1. \E label : pc' = [pc EXCEPT ![<<w, "main">>] = label]
      BY <1>5 DEF Acquire, StartResponding, CloseRequest, LeaveRequest, BreakLoop, MqttRequest, Goto
    <2> QED  BY <1>1, <2>1 DEF Sending, Threads, Requesters
  <1> QED  BY <1>2, <1>3, <1>4, <1>5 DEF LockStep, MainStep, RequesterStep

LEMMA LockStepPost ==
  ASSUME PostInv, ThreadsTyped, NEW w \in Workers, LockStep(w)
  PROVE  PostInv'
  <1>1. UNCHANGED <<rpc, ctl, task, post, current_task, current_result, store_holder, informed,
                    tasks_left>>
    BY DEF LockStep, startVars, handlerVars, currentVars, threadVars, poolVars
  <1>2. PoolTypes'  BY <1>1 DEF PostInv, PoolTypes
  <1>3. ASSUME NEW v \in Workers PROVE (OneCall(v) /\ Holds(v) /\ CallFits(v) /\ Calculated(v))'
    <2>1. Sending(v)' <=> Sending(v)  BY LockStepSending
    <2> QED  BY <1>1, <2>1, PostUnchanged DEF PostInv
  <1> QED  BY <1>2, <1>3 DEF PostInv

\* What a step of another worker's thread or handler leaves alone.
LEMMA OthersUnchanged ==
  ASSUME PostInv, NEW w \in Workers, NEW v \in Workers \ {w},
         rpc'[v] = rpc[v], ctl'[v] = ctl[v], task'[v] = task[v], post'[v] = post[v],
         current_task'[v] = current_task[v], current_result'[v] = current_result[v],
         Sending(v)' <=> Sending(v),
         \/ UNCHANGED <<store_holder, informed>>
         \/ store_holder = Nobody /\ store_holder' = w
         \/ store_holder = w /\ store_holder' = Nobody
  PROVE  (OneCall(v) /\ Holds(v) /\ CallFits(v) /\ Calculated(v))'
  <1>1. OneCall(v) /\ Holds(v) /\ CallFits(v) /\ Calculated(v)  BY DEF PostInv
  <1>2. v # Nobody /\ v # w /\ w # Nobody  BY WriteLockAssumption DEF Nobody, Workers
  <1>3. store_holder' = v <=> store_holder = v  BY <1>2
  <1>4. ctl[v] = "store" => store_holder = v  BY <1>1 DEF Holds
  <1>5. ctl[v] = "store" => informed' = informed  BY <1>2, <1>4
  <1> QED  BY <1>1, <1>3, <1>5, PostUnchanged

\* The handler answers a call that it took from the wire.
LEMMA AnswerPost ==
  ASSUME PostInv, StartTypes, NEW w \in Workers, NEW name, NEW result,
         name \in {"isMQTTInitialized", "MQTTReady", "calcTask", "calculationIsFinished"},
         dispatchCall(w, name), writeReply(w, name, result)
  PROVE  /\ \A v \in Workers \ {w} : rpc'[v] = rpc[v]
         /\ rpc[w].request.name = name /\ rpc[w].method # "none" /\ ~Sending(w)
         /\ rpc'[w].method = rpc[w].method /\ rpc'[w].request.name = "none"
         /\ rpc'[w].handler = "none" /\ rpc'[w].reply.name = name
  <1>1. rpc[w].request.name = name  BY DEF dispatchCall
  <1>2. OneCall(w)  BY DEF PostInv
  <1>3. rpc[w].method # "none" /\ ~Sending(w)  BY <1>1, <1>2 DEF OneCall
  <1> DEFINE answer == Message(name, "T_REPLY", result)
  <1>4. answer.name = name  BY MessageFields
  <1>5. Becomes(w, Connection(rpc[w].open, rpc[w].method, Nothing, "none", answer))
    BY WriteReply
  <1> HIDE DEF answer
  <1>6. /\ \A v \in Workers \ {w} : rpc'[v] = rpc[v]
        /\ rpc'[w] = Connection(rpc[w].open, rpc[w].method, Nothing, "none", answer)
    BY <1>5, StaysShaped DEF StartTypes
  <1>7. /\ rpc'[w].method = rpc[w].method /\ rpc'[w].request = Nothing
        /\ rpc'[w].handler = "none" /\ rpc'[w].reply = answer
    BY <1>6 DEF Connection
  <1>8. Nothing.name = "none"  BY MessageFields DEF Nothing
  <1> QED  BY <1>1, <1>3, <1>4, <1>6, <1>7, <1>8

LEMMA CalcTaskPost ==
  ASSUME PostInv, StartTypes, NEW w \in Workers, calcTask(w)
  PROVE  PostInv'
  <1>1. UNCHANGED <<ctl, task, post, pc, store_holder, informed, tasks_left>>
    BY DEF calcTask, threadVars, poolVars, vars
  <1>2. PICK result : dispatchCall(w, "calcTask") /\ writeReply(w, "calcTask", result)
    BY DEF calcTask, process_calcTask
  <1>3. /\ \A v \in Workers \ {w} : rpc'[v] = rpc[v]
        /\ rpc[w].request.name = "calcTask" /\ rpc[w].method # "none" /\ ~Sending(w)
        /\ rpc'[w].method = rpc[w].method /\ rpc'[w].request.name = "none"
        /\ rpc'[w].handler = "none" /\ rpc'[w].reply.name = "calcTask"
    BY <1>2, AnswerPost
  <1>4. OneCall(w) /\ Holds(w) /\ CallFits(w) /\ Calculated(w)  BY DEF PostInv
  <1>5. ctl[w] = "calc" /\ rpc[w].request.fields = calcTask_args_write(task[w])
        /\ task[w] \in AllTasks
    BY <1>3, <1>4 DEF CallFits, Calculated
  <1>6. calcTask_args_read(rpc[w].request.fields) = task[w]
    BY <1>5, CallRoundTrip
  <1>7. /\ current_task' = [current_task EXCEPT ![w] = task[w]]
        /\ current_result' = [current_result EXCEPT ![w] = Dot(task[w])]
    BY <1>6 DEF calcTask, Dot
  <1>8. PoolTypes'  BY <1>1, <1>7 DEF PostInv, PoolTypes
  <1>9. /\ current_task'[w] = task[w] /\ current_result'[w] = Dot(task[w])
        /\ \A v \in Workers \ {w} : /\ current_task'[v] = current_task[v]
                                    /\ current_result'[v] = current_result[v]
    BY <1>7 DEF PostInv, PoolTypes
  <1>10. ~Sending(w)' /\ \A v \in Workers : Sending(v)' <=> Sending(v)
    BY <1>1, <1>3 DEF Sending
  <1>11. (OneCall(w) /\ Holds(w) /\ CallFits(w) /\ Calculated(w))'
    <2>1. OneCall(w)'  BY <1>3, <1>10 DEF OneCall
    <2>2. Holds(w)'  BY <1>1, <1>4 DEF Holds
    <2>3. CallFits(w)'  BY <1>3, <1>10 DEF CallFits
    <2>4. Calculated(w)'  BY <1>1, <1>5, <1>9 DEF Calculated, Dot
    <2> QED  BY <2>1, <2>2, <2>3, <2>4
  <1>12. ASSUME NEW v \in Workers \ {w}
         PROVE  (OneCall(v) /\ Holds(v) /\ CallFits(v) /\ Calculated(v))'
    BY <1>1, <1>3, <1>9, <1>10, OthersUnchanged
  <1> QED  BY <1>8, <1>11, <1>12 DEF PostInv

\* isMQTTInitialized, MQTTReady and calculationIsFinished.
LEMMA OtherCallPost ==
  ASSUME PostInv, StartTypes, NEW w \in Workers,
         isMQTTInitialized(w) \/ MQTTReady(w) \/ calculationIsFinished(w)
  PROVE  PostInv'
  <1>1. UNCHANGED <<ctl, task, post, pc, store_holder, informed, tasks_left, current_task,
                    current_result>>
    BY DEF isMQTTInitialized, MQTTReady, calculationIsFinished, threadVars, poolVars, vars,
           currentVars
  <1>2. PICK name \in {"isMQTTInitialized", "MQTTReady", "calculationIsFinished"} :
          \E result : dispatchCall(w, name) /\ writeReply(w, name, result)
    BY DEF isMQTTInitialized, process_isMQTTInitialized, MQTTReady, process_MQTTReady,
           calculationIsFinished, process_calculationIsFinished
  <1>3. /\ \A v \in Workers \ {w} : rpc'[v] = rpc[v]
        /\ rpc[w].request.name = name /\ rpc[w].method # "none" /\ ~Sending(w)
        /\ rpc'[w].method = rpc[w].method /\ rpc'[w].request.name = "none"
        /\ rpc'[w].handler = "none" /\ rpc'[w].reply.name = name
    BY <1>2, AnswerPost
  <1>4. OneCall(w) /\ Holds(w) /\ CallFits(w) /\ Calculated(w)  BY DEF PostInv
  <1>5. PoolTypes'  BY <1>1 DEF PostInv, PoolTypes
  <1>6. \A v \in Workers : Sending(v)' <=> Sending(v)  BY <1>1 DEF Sending
  <1>7. (OneCall(w) /\ Holds(w) /\ CallFits(w) /\ Calculated(w))'
    <2>1. OneCall(w)'  BY <1>3, <1>6 DEF OneCall
    <2>2. Holds(w)'  BY <1>1, <1>4 DEF Holds
    <2>3. CallFits(w)'  BY <1>3, <1>6 DEF CallFits
    <2>4. Calculated(w)'  BY <1>1, <1>3, <1>4 DEF Calculated, Dot
    <2> QED  BY <2>1, <2>2, <2>3, <2>4
  <1>8. ASSUME NEW v \in Workers \ {w}
        PROVE  (OneCall(v) /\ Holds(v) /\ CallFits(v) /\ Calculated(v))'
    BY <1>1, <1>3, <1>6, OthersUnchanged
  <1> QED  BY <1>5, <1>7, <1>8 DEF PostInv

\* The step of the lock that sendTaskResult and its return are.
LEMMA RpcThreadOnly ==
  ASSUME ThreadsTyped, NEW w \in Workers, NEW label, pc' = [pc EXCEPT ![<<w, "rpc">>] = label]
  PROVE  /\ Sending(w)' <=> label # "idle"
         /\ \A v \in Workers \ {w} : Sending(v)' <=> Sending(v)
  BY DEF ThreadsTyped, Sending, Threads, Requesters

LEMMA SendTaskResultPost ==
  ASSUME PostInv, StartTypes, ThreadsTyped, NEW w \in Workers, sendTaskResult(w)
  PROVE  PostInv'
  <1>1. UNCHANGED <<ctl, task, store_holder, informed, tasks_left, current_task, current_result>>
    BY DEF sendTaskResult, threadVars, poolVars, currentVars
  <1>2. rpc[w].request.name = "sendTaskResult" /\ rpc[w].handler = "none"
    BY DEF sendTaskResult, process_sendTaskResult, dispatchCall
  <1>3. OneCall(w) /\ Holds(w) /\ CallFits(w) /\ Calculated(w)  BY DEF PostInv
  <1>4. Becomes(w, Connection(rpc[w].open, rpc[w].method, Nothing, "sendTaskResult", rpc[w].reply))
    BY TakeCall DEF sendTaskResult
  <1>5. /\ \A v \in Workers \ {w} : rpc'[v] = rpc[v]
        /\ rpc'[w].method = rpc[w].method /\ rpc'[w].request = Nothing
        /\ rpc'[w].handler = "sendTaskResult" /\ rpc'[w].reply = rpc[w].reply
    BY <1>4, StaysShaped DEF StartTypes, Connection
  <1>6. Nothing.name = "none"  BY MessageFields DEF Nothing
  <1>7. Sending(w)' /\ \A v \in Workers \ {w} : Sending(v)' <=> Sending(v)
    <2>1. \E label \in {"waiting", "critical"} : pc' = [pc EXCEPT ![<<w, "rpc">>] = label]
      BY DEF sendTaskResult, MqttRequest, Goto
    <2> QED  BY <2>1, RpcThreadOnly
  <1>8. ctl[w] = "store" /\ task[w] \in AllTasks
        /\ current_task[w] = task[w] /\ current_result[w] = Dot(task[w])
        /\ rpc[w].request.fields = sendTaskResult_args_write(IsLast)
    BY <1>2, <1>3 DEF CallFits, Calculated
  <1>9. sendTaskResult_args_read(rpc[w].request.fields) = IsLast
    BY <1>8, FlagRoundTrip
  <1>10. post' = [post EXCEPT ![w] = PostOf(task[w])]
    BY <1>8, <1>9 DEF sendTaskResult, PostOf
  <1>11. post'[w] = PostOf(task[w]) /\ \A v \in Workers \ {w} : post'[v] = post[v]
    BY <1>10 DEF PostInv, PoolTypes
  <1>12. PoolTypes'  BY <1>1, <1>10 DEF PostInv, PoolTypes
  <1>13. (OneCall(w) /\ Holds(w) /\ CallFits(w) /\ Calculated(w))'
    <2>1. OneCall(w)'  BY <1>2, <1>3, <1>5, <1>6, <1>7 DEF OneCall
    <2>2. Holds(w)'  BY <1>1, <1>3 DEF Holds
    <2>3. PostOf(task[w])' = PostOf(task[w])  BY <1>1 DEF PostOf, Dot, IsLast
    <2>4. CallFits(w)'  BY <1>1, <1>5, <1>6, <1>8, <1>11, <2>3 DEF CallFits
    <2>5. Calculated(w)'  BY <1>1, <1>5, <1>3 DEF Calculated, Dot
    <2> QED  BY <2>1, <2>2, <2>4, <2>5
  <1>14. ASSUME NEW v \in Workers \ {w}
         PROVE  (OneCall(v) /\ Holds(v) /\ CallFits(v) /\ Calculated(v))'
    BY <1>1, <1>5, <1>7, <1>11, OthersUnchanged
  <1> QED  BY <1>12, <1>13, <1>14 DEF PostInv

LEMMA SendTaskResultReturnsPost ==
  ASSUME PostInv, StartTypes, ThreadsTyped, NEW w \in Workers, sendTaskResultReturns(w)
  PROVE  PostInv'
  <1>1. UNCHANGED <<ctl, task, post, store_holder, informed, tasks_left, current_task,
                    current_result>>
    BY DEF sendTaskResultReturns, startVars, handlerVars, currentVars, threadVars, poolVars
  <1>2. PICK result : /\ rpc[w].handler = "sendTaskResult"
                      /\ writeReply(w, "sendTaskResult", result)
    BY DEF sendTaskResultReturns, return_sendTaskResult
  <1>3. OneCall(w) /\ Holds(w) /\ CallFits(w) /\ Calculated(w)  BY DEF PostInv
  <1>4. Sending(w) /\ ctl[w] = "store" /\ rpc[w].method # "none"
    BY <1>2, <1>3 DEF OneCall, CallFits
  <1> DEFINE answer == Message("sendTaskResult", "T_REPLY", result)
  <1>5. answer.name = "sendTaskResult" /\ Nothing.name = "none"
    BY MessageFields DEF Nothing
  <1>6. Becomes(w, Connection(rpc[w].open, rpc[w].method, Nothing, "none", answer))
    BY <1>2, WriteReply
  <1> HIDE DEF answer
  <1>7. /\ \A v \in Workers \ {w} : rpc'[v] = rpc[v]
        /\ rpc'[w].method = rpc[w].method /\ rpc'[w].request = Nothing
        /\ rpc'[w].handler = "none" /\ rpc'[w].reply = answer
    BY <1>6, StaysShaped DEF StartTypes, Connection
  <1>8. ~Sending(w)' /\ \A v \in Workers \ {w} : Sending(v)' <=> Sending(v)
    <2>1. pc' = [pc EXCEPT ![<<w, "rpc">>] = "idle"]
      BY DEF sendTaskResultReturns, CloseRequest, LeaveRequest, DatabaseFailed, Goto
    <2> QED  BY <2>1, RpcThreadOnly
  <1>9. PoolTypes'  BY <1>1 DEF PostInv, PoolTypes
  <1>10. (OneCall(w) /\ Holds(w) /\ CallFits(w) /\ Calculated(w))'
    <2>1. OneCall(w)'  BY <1>4, <1>5, <1>7, <1>8 DEF OneCall
    <2>2. Holds(w)'  BY <1>1, <1>3 DEF Holds
    <2>3. CallFits(w)'  BY <1>5, <1>7, <1>8 DEF CallFits
    <2>4. Calculated(w)'  BY <1>1, <1>3, <1>4 DEF Calculated, Dot
    <2> QED  BY <2>1, <2>2, <2>3, <2>4
  <1>11. ASSUME NEW v \in Workers \ {w}
         PROVE  (OneCall(v) /\ Holds(v) /\ CallFits(v) /\ Calculated(v))'
    BY <1>1, <1>7, <1>8, OthersUnchanged
  <1> QED  BY <1>9, <1>10, <1>11 DEF PostInv

LEMMA HandlerStepPost ==
  ASSUME PostInv, StartTypes, ThreadsTyped, NEW w \in Workers, HandlerStep(w)
  PROVE  PostInv'
  BY CalcTaskPost, OtherCallPost, SendTaskResultPost, SendTaskResultReturnsPost DEF HandlerStep

\* A thread sends a call when none is under way, and takes the answer to it.
LEMMA CallSent ==
  ASSUME PostInv, StartTypes, NEW w \in Workers, NEW name, NEW args, name # "none",
         writeCall(w, name, args)
  PROVE  /\ \A v \in Workers \ {w} : rpc'[v] = rpc[v]
         /\ ~Sending(w) /\ rpc'[w].method # "none"
         /\ rpc'[w].request.name = name /\ rpc'[w].request.fields = args
         /\ rpc'[w].handler = rpc[w].handler /\ rpc'[w].reply.name = "none"
  <1>1. OneCall(w)  BY DEF PostInv
  <1> DEFINE call == Message(name, "T_CALL", args)
  <1>2. call.name = name /\ call.fields = args  BY MessageFields
  <1>3. /\ rpc[w].method = "none"
        /\ Becomes(w, Connection(rpc[w].open, name, call, rpc[w].handler, rpc[w].reply))
    BY WriteCall
  <1> HIDE DEF call
  <1>4. /\ \A v \in Workers \ {w} : rpc'[v] = rpc[v]
        /\ rpc'[w].method = name /\ rpc'[w].request = call
        /\ rpc'[w].handler = rpc[w].handler /\ rpc'[w].reply = rpc[w].reply
    BY <1>3, StaysShaped DEF StartTypes, Connection
  <1> QED  BY <1>1, <1>2, <1>3, <1>4 DEF OneCall

LEMMA AnswerTaken ==
  ASSUME PostInv, StartTypes, NEW w \in Workers, NEW name, name # "none", readReply(w, name)
  PROVE  /\ \A v \in Workers \ {w} : rpc'[v] = rpc[v]
         /\ rpc[w].reply.name = name /\ ~Sending(w) /\ rpc'[w].method = "none"
         /\ rpc'[w].request.name = "none"
         /\ rpc'[w].handler = rpc[w].handler /\ rpc'[w].reply.name = "none"
  <1>1. OneCall(w)  BY DEF PostInv
  <1>2. Nothing.name = "none"  BY MessageFields DEF Nothing
  <1>3. /\ rpc[w].method = name /\ rpc[w].reply.name = name
        /\ Becomes(w, Connection(rpc[w].open, "none", rpc[w].request, rpc[w].handler, Nothing))
    BY ReadReply
  <1>4. /\ \A v \in Workers \ {w} : rpc'[v] = rpc[v]
        /\ rpc'[w].method = "none" /\ rpc'[w].request = rpc[w].request
        /\ rpc'[w].handler = rpc[w].handler /\ rpc'[w].reply = Nothing
    BY <1>3, StaysShaped DEF StartTypes, Connection
  <1> QED  BY <1>1, <1>2, <1>3, <1>4 DEF OneCall

\* Where ctl is.
LEMMA Going ==
  ASSUME StartTypes, NEW w \in Workers, NEW label, Goto_ctl(w, label)
  PROVE  /\ ctl'[w] = label /\ \A v \in Workers \ {w} : ctl'[v] = ctl[v]
         /\ UNCHANGED <<post, current_task, current_result>>
         /\ \A v \in Workers : Sending(v)' <=> Sending(v)
  <1>1. UNCHANGED <<post, current_task, current_result, pc>>
    BY DEF Goto_ctl, handlerVars, currentVars, vars
  <1>2. \A v \in Workers : Sending(v)' <=> Sending(v)  BY <1>1 DEF Sending
  <1> QED  BY <1>1, <1>2 DEF Goto_ctl, StartTypes

\* Steps of a thread that has no task, and that ends none.
LEMMA NoTaskPost ==
  ASSUME PostInv, StartTypes, NEW w \in Workers,
         \/ Open(w) \/ AskMqtt(w) \/ MqttInitialized(w) \/ CountMqtt(w) \/ LeaveSpin(w)
         \/ ReadyTold(w) \/ TellFinished(w) \/ FinishedTold(w) \/ ExitBlocked(w)
  PROVE  PostInv'
  <1>1. UNCHANGED <<task, store_holder, informed, tasks_left>>
    BY DEF Open, AskMqtt, MqttInitialized, CountMqtt, LeaveSpin, ReadyTold, TellFinished,
           FinishedTold, ExitBlocked, poolVars
  <1>2. PICK label \in {"ask", "asked", "count", "spin", "told", "loop", "finish", "exited"} :
          Goto_ctl(w, label)
    BY DEF Open, AskMqtt, MqttInitialized, CountMqtt, LeaveSpin, ReadyTold, TellFinished,
           FinishedTold, ExitBlocked
  <1>3. ctl[w] \in {"open", "ask", "asked", "count", "spin", "told", "loop", "finish"}
    BY DEF Open, AskMqtt, MqttInitialized, CountMqtt, LeaveSpin, ReadyTold, TellFinished,
           FinishedTold, ExitBlocked
  <1>4. OneCall(w) /\ Holds(w) /\ CallFits(w) /\ Calculated(w)  BY DEF PostInv
  <1>5. /\ ctl'[w] = label /\ \A v \in Workers \ {w} : ctl'[v] = ctl[v]
        /\ UNCHANGED <<post, current_task, current_result>>
        /\ \A v \in Workers : Sending(v)' <=> Sending(v)
    BY <1>2, Going
  <1>6. ~Sending(w) /\ ~Sending(w)'  BY <1>3, <1>4, <1>5 DEF CallFits
  <1>7. /\ \A v \in Workers \ {w} : rpc'[v] = rpc[v]
        /\ OneCall(w)' /\ rpc'[w].request.name \notin {"calcTask", "sendTaskResult"}
    <2>1. CASE UNCHANGED rpc
      BY <1>3, <1>4, <1>6, <2>1 DEF OneCall, CallFits
    <2>2. CASE Becomes(w, Opened)
      <3>1. /\ \A v \in Workers \ {w} : rpc'[v] = rpc[v]
            /\ rpc'[w].method = "none" /\ rpc'[w].request = Nothing
            /\ rpc'[w].handler = "none" /\ rpc'[w].reply = Nothing
        BY <2>2, StaysShaped DEF StartTypes, Opened, Connection
      <3>2. Nothing.name = "none"  BY MessageFields DEF Nothing
      <3> QED  BY <1>6, <3>1, <3>2 DEF OneCall
    <2>3. CASE \E name \in {"isMQTTInitialized", "MQTTReady", "calculationIsFinished"} :
                 \E args : writeCall(w, name, args)
      <3>1. PICK name, args : /\ name \in {"isMQTTInitialized", "MQTTReady", "calculationIsFinished"}
                              /\ writeCall(w, name, args)
        BY <2>3
      <3> QED  BY <1>4, <1>6, <3>1, CallSent DEF OneCall
    <2>4. CASE \E name \in {"isMQTTInitialized", "MQTTReady", "calculationIsFinished"} :
                 readReply(w, name)
      BY <1>4, <1>6, <2>4, AnswerTaken DEF OneCall
    <2> QED
      BY <2>1, <2>2, <2>3, <2>4
      DEF Open, Becomes, AskMqtt, send_isMQTTInitialized, MqttInitialized, recv_isMQTTInitialized,
          CountMqtt, LeaveSpin, send_MQTTReady, ReadyTold, recv_MQTTReady, TellFinished,
          send_calculationIsFinished, FinishedTold, recv_calculationIsFinished, ExitBlocked
  <1>8. PoolTypes'  BY <1>1, <1>5 DEF PostInv, PoolTypes
  <1>9. store_holder' # w  BY <1>1, <1>3, <1>4 DEF Holds
  <1>10. (OneCall(w) /\ Holds(w) /\ CallFits(w) /\ Calculated(w))'
    BY <1>2, <1>5, <1>6, <1>7, <1>9, NothingToPost
  <1>11. ASSUME NEW v \in Workers \ {w}
         PROVE  (OneCall(v) /\ Holds(v) /\ CallFits(v) /\ Calculated(v))'
    BY <1>1, <1>5, <1>7, OthersUnchanged
  <1> QED  BY <1>8, <1>10, <1>11 DEF PostInv

LEMMA TakeTaskPost ==
  ASSUME PostInv, StartTypes, NEW w \in Workers, TakeTask(w)
  PROVE  PostInv'
  <1>1. UNCHANGED <<store_holder, informed>> /\ ctl[w] = "loop" /\ Goto_ctl(w, "calc")
    BY DEF TakeTask
  <1>2. PICK t \in tasks_left : /\ tasks_left' = tasks_left \ {t}
                                /\ task' = [task EXCEPT ![w] = t]
                                /\ writeCall(w, "calcTask", calcTask_args_write(t))
    BY DEF TakeTask, send_calcTask
  <1>3. OneCall(w) /\ Holds(w) /\ CallFits(w) /\ Calculated(w) /\ PoolTypes  BY DEF PostInv
  <1>4. /\ ctl'[w] = "calc" /\ \A v \in Workers \ {w} : ctl'[v] = ctl[v]
        /\ UNCHANGED <<post, current_task, current_result>>
        /\ \A v \in Workers : Sending(v)' <=> Sending(v)
    BY <1>1, Going
  <1> DEFINE args == calcTask_args_write(t)
  <1> HIDE DEF args
  <1>5. /\ \A v \in Workers \ {w} : rpc'[v] = rpc[v]
        /\ ~Sending(w) /\ rpc'[w].method # "none"
        /\ rpc'[w].request.name = "calcTask" /\ rpc'[w].request.fields = args
        /\ rpc'[w].handler = rpc[w].handler /\ rpc'[w].reply.name = "none"
    BY <1>2, CallSent DEF args
  <1>6. task'[w] = t /\ t \in AllTasks /\ \A v \in Workers \ {w} : task'[v] = task[v]
    BY <1>2, <1>3 DEF PoolTypes
  <1>7. PoolTypes'  BY <1>2, <1>3, <1>4 DEF PoolTypes
  <1>8. (OneCall(w) /\ Holds(w) /\ CallFits(w) /\ Calculated(w))'
    <2>1. OneCall(w)'  BY <1>3, <1>4, <1>5 DEF OneCall
    <2>2. Holds(w)'  BY <1>1, <1>3, <1>4 DEF Holds
    <2>3. CallFits(w)'  BY <1>4, <1>5, <1>6 DEF CallFits, args
    <2>4. Calculated(w)'  BY <1>4, <1>5, <1>6 DEF Calculated
    <2> QED  BY <2>1, <2>2, <2>3, <2>4
  <1>9. ASSUME NEW v \in Workers \ {w}
        PROVE  (OneCall(v) /\ Holds(v) /\ CallFits(v) /\ Calculated(v))'
    BY <1>1, <1>4, <1>5, <1>6, OthersUnchanged
  <1> QED  BY <1>7, <1>8, <1>9 DEF PostInv

LEMMA TaskCalculatedPost ==
  ASSUME PostInv, StartTypes, NEW w \in Workers, TaskCalculated(w)
  PROVE  PostInv'
  <1>1. /\ UNCHANGED <<task, tasks_left, store_holder, informed>>
        /\ ctl[w] = "calc" /\ Goto_ctl(w, "lock") /\ readReply(w, "calcTask")
    BY DEF TaskCalculated, poolVars, recv_calcTask
  <1>2. OneCall(w) /\ Holds(w) /\ CallFits(w) /\ Calculated(w) /\ PoolTypes  BY DEF PostInv
  <1>3. /\ ctl'[w] = "lock" /\ \A v \in Workers \ {w} : ctl'[v] = ctl[v]
        /\ UNCHANGED <<post, current_task, current_result>>
        /\ \A v \in Workers : Sending(v)' <=> Sending(v)
    BY <1>1, Going
  <1>4. /\ \A v \in Workers \ {w} : rpc'[v] = rpc[v]
        /\ rpc[w].reply.name = "calcTask" /\ ~Sending(w) /\ rpc'[w].method = "none"
        /\ rpc'[w].request.name = "none"
        /\ rpc'[w].handler = rpc[w].handler /\ rpc'[w].reply.name = "none"
    BY <1>1, AnswerTaken
  <1>5. PoolTypes'  BY <1>1, <1>2, <1>3 DEF PoolTypes
  <1>6. (OneCall(w) /\ Holds(w) /\ CallFits(w) /\ Calculated(w))'
    <2>1. OneCall(w)'  BY <1>2, <1>3, <1>4 DEF OneCall
    <2>2. Holds(w)'  BY <1>1, <1>2, <1>3 DEF Holds
    <2>3. CallFits(w)'  BY <1>3, <1>4 DEF CallFits
    <2>4. Calculated(w)'  BY <1>1, <1>2, <1>3, <1>4 DEF Calculated, Dot
    <2> QED  BY <2>1, <2>2, <2>3, <2>4
  <1>7. ASSUME NEW v \in Workers \ {w}
        PROVE  (OneCall(v) /\ Holds(v) /\ CallFits(v) /\ Calculated(v))'
    BY <1>1, <1>3, <1>4, OthersUnchanged
  <1> QED  BY <1>5, <1>6, <1>7 DEF PostInv

LEMMA LockStorePost ==
  ASSUME PostInv, StartTypes, NEW w \in Workers, LockStore(w)
  PROVE  PostInv'
  <1>1. /\ UNCHANGED <<task, tasks_left, informed>>
        /\ ctl[w] = "lock" /\ Goto_ctl(w, "store")
        /\ store_holder = Nobody /\ store_holder' = w
    BY DEF LockStore
  <1> DEFINE args == sendTaskResult_args_write(IsLast)
  <1>2. writeCall(w, "sendTaskResult", args)
    BY DEF LockStore, send_sendTaskResult, IsLast
  <1>3. args' = args  BY <1>1 DEF IsLast
  <1> HIDE DEF args
  <1>4. OneCall(w) /\ Holds(w) /\ CallFits(w) /\ Calculated(w) /\ PoolTypes  BY DEF PostInv
  <1>5. /\ ctl'[w] = "store" /\ \A v \in Workers \ {w} : ctl'[v] = ctl[v]
        /\ UNCHANGED <<post, current_task, current_result>>
        /\ \A v \in Workers : Sending(v)' <=> Sending(v)
    BY <1>1, Going
  <1>6. /\ \A v \in Workers \ {w} : rpc'[v] = rpc[v]
        /\ ~Sending(w) /\ rpc'[w].method # "none"
        /\ rpc'[w].request.name = "sendTaskResult" /\ rpc'[w].request.fields = args
        /\ rpc'[w].handler = rpc[w].handler /\ rpc'[w].reply.name = "none"
    BY <1>2, CallSent
  <1>7. PoolTypes'  BY <1>1, <1>4, <1>5 DEF PoolTypes
  <1>8. (OneCall(w) /\ Holds(w) /\ CallFits(w) /\ Calculated(w))'
    <2>1. OneCall(w)'  BY <1>4, <1>5, <1>6 DEF OneCall
    <2>2. Holds(w)'  BY <1>1, <1>5 DEF Holds
    <2>3. CallFits(w)'  BY <1>3, <1>5, <1>6 DEF CallFits, args
    <2>4. Calculated(w)'  BY <1>1, <1>4, <1>5 DEF Calculated, Dot
    <2> QED  BY <2>1, <2>2, <2>3, <2>4
  <1>9. ASSUME NEW v \in Workers \ {w}
        PROVE  (OneCall(v) /\ Holds(v) /\ CallFits(v) /\ Calculated(v))'
    BY <1>1, <1>5, <1>6, OthersUnchanged
  <1> QED  BY <1>7, <1>8, <1>9 DEF PostInv

LEMMA ResultSentPost ==
  ASSUME PostInv, StartTypes, NEW w \in Workers, ResultSent(w)
  PROVE  PostInv'
  <1>1. /\ ctl[w] = "store" /\ Goto_ctl(w, "loop") /\ readReply(w, "sendTaskResult")
        /\ tasks_left' \in {tasks_left, tasks_left \cup {task[w]}}
        /\ task' = [task EXCEPT ![w] = NoTask] /\ store_holder' = Nobody
    BY DEF ResultSent, recv_sendTaskResult
  <1>2. OneCall(w) /\ Holds(w) /\ CallFits(w) /\ Calculated(w) /\ PoolTypes  BY DEF PostInv
  <1>3. /\ ctl'[w] = "loop" /\ \A v \in Workers \ {w} : ctl'[v] = ctl[v]
        /\ UNCHANGED <<post, current_task, current_result>>
        /\ \A v \in Workers : Sending(v)' <=> Sending(v)
    BY <1>1, Going
  <1>4. /\ \A v \in Workers \ {w} : rpc'[v] = rpc[v]
        /\ rpc[w].reply.name = "sendTaskResult" /\ ~Sending(w) /\ rpc'[w].method = "none"
        /\ rpc'[w].request.name = "none"
        /\ rpc'[w].handler = rpc[w].handler /\ rpc'[w].reply.name = "none"
    BY <1>1, AnswerTaken
  <1>5. task[w] \in AllTasks /\ store_holder = w  BY <1>1, <1>2 DEF Calculated, Holds
  <1>6. PoolTypes' /\ \A v \in Workers \ {w} : task'[v] = task[v]
    BY <1>1, <1>2, <1>3, <1>5 DEF PoolTypes
  <1>7. store_holder' # w  BY <1>1, WriteLockAssumption DEF Nobody, Workers
  <1>8. (OneCall(w) /\ Holds(w) /\ CallFits(w) /\ Calculated(w))'
    <2>1. OneCall(w)'  BY <1>2, <1>3, <1>4 DEF OneCall
    <2> QED  BY <1>3, <1>4, <1>7, <2>1, NothingToPost
  <1>9. ASSUME NEW v \in Workers \ {w}
        PROVE  (OneCall(v) /\ Holds(v) /\ CallFits(v) /\ Calculated(v))'
    BY <1>1, <1>3, <1>4, <1>5, <1>6, OthersUnchanged
  <1> QED  BY <1>6, <1>8, <1>9 DEF PostInv

LEMMA PostStep ==
  ASSUME PostInv, StartTypes, ThreadsTyped, [StartNext]_systemVars
  PROVE  PostInv'
  <1>1. ASSUME UNCHANGED <<rpc, task, post, current_task, current_result, pc, store_holder,
                           informed, tasks_left, ctl>>
        PROVE  PostInv'
    <2>1. PoolTypes'  BY <1>1 DEF PostInv, PoolTypes
    <2>2. \A v \in Workers : Sending(v)' <=> Sending(v)  BY <1>1 DEF Sending
    <2>3. ASSUME NEW v \in Workers PROVE (OneCall(v) /\ Holds(v) /\ CallFits(v) /\ Calculated(v))'
      BY <1>1, <2>2, PostUnchanged DEF PostInv
    <2> QED  BY <2>1, <2>3 DEF PostInv
  <1>2. ASSUME NEW w \in Workers, Serve(w) \/ Register(w) \/ MqttStart(w) PROVE PostInv'
    BY <1>1, <1>2 DEF Serve, Register, MqttStart, ConnectMqtt, Subscribe, PostSemMqtt, MqttGoto,
                      handlerVars, currentVars, threadVars, poolVars, vars
  <1>3. ASSUME NEW w \in Workers, HandlerStep(w) PROVE PostInv'
    BY <1>3, HandlerStepPost
  <1>4. ASSUME NEW w \in Workers, ControlStep(w) PROVE PostInv'
    BY <1>4, NoTaskPost, TakeTaskPost, TaskCalculatedPost, LockStorePost, ResultSentPost
    DEF ControlStep
  <1>5. ASSUME NEW w \in Workers, LockStep(w) PROVE PostInv'
    BY <1>5, LockStepPost
  <1>6. CASE CreateThreads
    <2>1. /\ UNCHANGED <<rpc, task, post, current_task, current_result, pc, store_holder,
                         informed, tasks_left>>
          /\ \A v \in Workers : ctl[v] = "none" /\ ctl'[v] = "open"
      BY <1>6 DEF CreateThreads, handlerVars, currentVars, poolVars, vars
    <2>2. PoolTypes'  BY <2>1 DEF PostInv, PoolTypes
    <2>3. \A v \in Workers : Sending(v)' <=> Sending(v)  BY <2>1 DEF Sending
    <2>4. ASSUME NEW v \in Workers PROVE (OneCall(v) /\ Holds(v) /\ CallFits(v) /\ Calculated(v))'
      <3>1. OneCall(v) /\ Holds(v) /\ CallFits(v)  BY DEF PostInv
      <3>2. OneCall(v)'  BY <2>1, <2>3, <3>1 DEF OneCall
      <3>3. /\ rpc'[v].request.name \notin {"calcTask", "sendTaskResult"}
            /\ store_holder' # v /\ ~Sending(v)'
        BY <2>1, <2>3, <3>1 DEF Holds, CallFits
      <3> QED  BY <2>1, <3>2, <3>3, NothingToPost
    <2> QED  BY <2>2, <2>4 DEF PostInv
  <1>7. CASE UNCHANGED systemVars
    BY <1>1, <1>7 DEF systemVars, startVars, handlerVars, currentVars, threadVars, poolVars, vars
  <1> QED  BY <1>2, <1>3, <1>4, <1>5, <1>6, <1>7 DEF StartNext

-----------------------------------------------------------------------------
(***************************************************************************)
(* The results that are not stored                                         *)
(***************************************************************************)

\* A task is open until its result is reported: it waits, or a thread has it.
HoldingTask == {"calc", "lock", "store"}
Holders == {w \in Workers : ctl[w] \in HoldingTask}
OpenTasks == tasks_left \cup {task[w] : w \in Holders}

\* The answers of sendTaskResult.
StoredReply == Message("sendTaskResult", "T_REPLY", sendTaskResult_result_write(TRUE))
NotStoredReply == Message("sendTaskResult", "T_REPLY", sendTaskResult_result_write(FALSE))
Told(w) == rpc[w].reply = StoredReply

ReplyFits(w) ==
  rpc[w].reply.name = "sendTaskResult" =>
    ctl[w] = "store" /\ rpc[w].reply \in {StoredReply, NotStoredReply}

\* A task is in one place.
TasksApart ==
  /\ \A v, w \in Holders : task[v] = task[w] => v = w
  /\ \A w \in Holders : task[w] \notin tasks_left

OpenCounted == informed \in Nat /\ Cardinality(OpenTasks) = NumberStores - informed

\* The lock knows of a stored result before the controller does.
StoresCounted ==
  stores_left = IF \E w \in Workers : Told(w) THEN NumberStores - informed - 1
                                              ELSE NumberStores - informed

FinishedFits(w) ==
  w \in finished \/ rpc[w].request.name = "calculationIsFinished" => informed = NumberStores

StoreInv ==
  /\ \A w \in Workers : ReplyFits(w) /\ FinishedFits(w)
  /\ TasksApart /\ OpenCounted /\ StoresCounted

LEMMA AnswerRead ==
  ASSUME NEW b, NEW answer, answer = Message("sendTaskResult", "T_REPLY", sendTaskResult_result_write(b))
  PROVE  answer.name = "sendTaskResult" /\ sendTaskResult_result_read(answer.fields) = b
  <1> DEFINE wire == sendTaskResult_result_write(b)
  <1>1. sendTaskResult_result_read(wire) = b
    BY OneField DEF sendTaskResult_result_read, sendTaskResult_result_write
  <1>2. answer = Message("sendTaskResult", "T_REPLY", wire)  OBVIOUS
  <1> HIDE DEF wire
  <1>3. answer.name = "sendTaskResult" /\ answer.fields = wire
    BY <1>2, MessageFields
  <1> QED  BY <1>1, <1>3

LEMMA Replies ==
  /\ StoredReply.name = "sendTaskResult" /\ NotStoredReply.name = "sendTaskResult"
  /\ sendTaskResult_result_read(StoredReply.fields) = TRUE
  /\ sendTaskResult_result_read(NotStoredReply.fields) = FALSE
  <1>1. /\ StoredReply.name = "sendTaskResult"
        /\ sendTaskResult_result_read(StoredReply.fields) = TRUE
    BY AnswerRead, Zenon DEF StoredReply
  <1>2. /\ NotStoredReply.name = "sendTaskResult"
        /\ sendTaskResult_result_read(NotStoredReply.fields) = FALSE
    BY AnswerRead, Zenon DEF NotStoredReply
  <1> QED  BY <1>1, <1>2

LEMMA AllTasksCounted == IsFiniteSet(AllTasks) /\ Cardinality(AllTasks) = NumberStores
  <1> DEFINE f == [c \in 1 .. NumberStores |-> ChunkTask(c)]
  <1>1. NumberStores \in Nat  BY WriteLockAssumption
  <1>2. IsFiniteSet(1 .. NumberStores) /\ Cardinality(1 .. NumberStores) = NumberStores
    BY <1>1, FS_Interval
  <1>3. \A c, d \in 1 .. NumberStores : ChunkTask(c) = ChunkTask(d) => c = d
    <2> SUFFICES ASSUME NEW c \in 1 .. NumberStores, NEW d \in 1 .. NumberStores,
                        ChunkTask(c) = ChunkTask(d)
                 PROVE  c = d
      OBVIOUS
    <2>1. ChunkTask(c).matrix_chunk_a = <<c, 1>> /\ ChunkTask(d).matrix_chunk_a = <<d, 1>>
      BY DEF ChunkTask
    <2>2. <<c, 1>> = <<d, 1>>  BY <2>1
    <2> QED  BY <2>2
  <1>4. f \in Bijection(1 .. NumberStores, AllTasks)
    BY <1>3 DEF AllTasks, Bijection, Injection, Surjection, IsInjective
  <1> QED  BY <1>2, <1>4, FS_Bijection DEF ExistsBijection

LEMMA OpenFinite ==
  ASSUME PostInv
  PROVE  OpenTasks \subseteq AllTasks /\ IsFiniteSet(OpenTasks) /\ Cardinality(OpenTasks) \in Nat
  <1>1. OpenTasks \subseteq AllTasks
    BY DEF PostInv, PoolTypes, Calculated, OpenTasks, Holders, HoldingTask
  <1> QED  BY <1>1, AllTasksCounted, FS_Subset, FS_CardinalityType

\* Only the holder of mutex_store_result is at sendTaskResult.
LEMMA OneStores ==
  ASSUME PostInv, StoreInv
  PROVE  /\ \A v, w \in Workers : ctl[v] = "store" /\ ctl[w] = "store" => v = w
         /\ \A w \in Workers : Sending(w) \/ Told(w) => ctl[w] = "store"
  <1>1. \A w \in Workers : ctl[w] = "store" => store_holder = w
    BY DEF PostInv, Holds
  <1>2. \A w \in Workers : Sending(w) => ctl[w] = "store"
    BY DEF PostInv, CallFits
  <1>3. \A w \in Workers : Told(w) => ctl[w] = "store"
    BY Replies DEF StoreInv, ReplyFits, Told
  <1> QED  BY <1>1, <1>2, <1>3

LEMMA StoreInit == StartInit => StoreInv
  <1> SUFFICES ASSUME StartInit PROVE StoreInv  OBVIOUS
  <1>1. /\ \A w \in Workers : ctl[w] = "none" /\ rpc[w].reply = Nothing /\ rpc[w].request = Nothing
        /\ finished = {} /\ informed = 0 /\ tasks_left = AllTasks /\ stores_left = NumberStores
    BY DEF StartInit, Init, Closed, Connection
  <1>2. Nothing.name = "none"  BY MessageFields DEF Nothing
  <1>3. Holders = {}  BY <1>1 DEF Holders, HoldingTask
  <1>4. TasksApart  BY <1>3 DEF TasksApart
  <1>5. OpenTasks = AllTasks  BY <1>1, <1>3 DEF OpenTasks
  <1>6. OpenCounted
    BY <1>1, <1>5, AllTasksCounted, WriteLockAssumption DEF OpenCounted
  <1>7. \A w \in Workers : ~Told(w)  BY <1>1, <1>2, Replies DEF Told
  <1>8. StoresCounted  BY <1>1, <1>7, WriteLockAssumption DEF StoresCounted
  <1>9. \A w \in Workers : ReplyFits(w) /\ FinishedFits(w)
    BY <1>1, <1>2 DEF ReplyFits, FinishedFits
  <1> QED  BY <1>4, <1>6, <1>8, <1>9 DEF StoreInv

\* Steps that neither store nor report a result, nor move a task.
LEMMA StoreKept ==
  ASSUME StoreInv, UNCHANGED <<tasks_left, informed, stores_left>>,
         \A v \in Workers : /\ ctl'[v] \in HoldingTask <=> ctl[v] \in HoldingTask
                            /\ ctl[v] \in HoldingTask => task'[v] = task[v]
                            /\ \/ rpc'[v].reply = rpc[v].reply
                               \/ /\ rpc[v].reply.name # "sendTaskResult"
                                  /\ rpc'[v].reply.name # "sendTaskResult"
                            /\ rpc'[v].reply.name = "sendTaskResult" /\ ctl[v] = "store"
                                 => ctl'[v] = "store"
                            /\ v \in finished' \/ rpc'[v].request.name = "calculationIsFinished"
                                 => \/ v \in finished
                                    \/ rpc[v].request.name = "calculationIsFinished"
                                    \/ informed = NumberStores
  PROVE  StoreInv'
  <1>1. Holders' = Holders  BY DEF Holders
  <1>2. TasksApart'  BY <1>1 DEF StoreInv, TasksApart, Holders
  <1>3. OpenTasks' = OpenTasks  BY <1>1 DEF OpenTasks, Holders
  <1>4. OpenCounted'  BY <1>3 DEF StoreInv, OpenCounted
  <1>5. StoredReply' = StoredReply /\ NotStoredReply' = NotStoredReply
    BY DEF StoredReply, NotStoredReply
  <1>6. \A v \in Workers : Told(v)' <=> Told(v)
    BY <1>5, Replies DEF Told
  <1>7. StoresCounted'  BY <1>6 DEF StoreInv, StoresCounted
  <1>8. \A v \in Workers : ReplyFits(v)' /\ FinishedFits(v)'
    BY <1>5 DEF StoreInv, ReplyFits, FinishedFits
  <1> QED  BY <1>2, <1>4, <1>7, <1>8 DEF StoreInv
\* The handler answers the calls other than sendTaskResult at once.
LEMMA AnswerStore ==
  ASSUME StoreInv, PostInv, StartTypes, NEW w \in Workers,
         isMQTTInitialized(w) \/ MQTTReady(w) \/ calcTask(w) \/ calculationIsFinished(w)
  PROVE  StoreInv'
  <1>1. UNCHANGED <<ctl, task, tasks_left, informed, stores_left>>
    BY DEF isMQTTInitialized, MQTTReady, calcTask, calculationIsFinished, threadVars, poolVars, vars,
           controllerVars
  <1>2. PICK name \in {"isMQTTInitialized", "MQTTReady", "calcTask", "calculationIsFinished"} :
          /\ \E result : dispatchCall(w, name) /\ writeReply(w, name, result)
          /\ \A v \in finished' \ finished : v = w /\ name = "calculationIsFinished"
    <2>1. CASE isMQTTInitialized(w)
      BY <2>1 DEF isMQTTInitialized, process_isMQTTInitialized
    <2>2. CASE MQTTReady(w)
      BY <2>2 DEF MQTTReady, process_MQTTReady
    <2>3. CASE calcTask(w)
      BY <2>3 DEF calcTask, process_calcTask
    <2>4. CASE calculationIsFinished(w)
      BY <2>4 DEF calculationIsFinished, process_calculationIsFinished
    <2> QED  BY <2>1, <2>2, <2>3, <2>4
  <1>3. /\ \A v \in Workers \ {w} : rpc'[v] = rpc[v]
        /\ rpc[w].request.name = name /\ rpc'[w].request.name = "none" /\ rpc'[w].reply.name = name
    BY <1>2, AnswerPost
  <1>4. rpc[w].reply.name = "none"  BY <1>2, <1>3 DEF PostInv, OneCall
  <1> QED  BY <1>1, <1>2, <1>3, <1>4, StoreKept

LEMMA SendTaskResultStore ==
  ASSUME StoreInv, StartTypes, NEW w \in Workers, sendTaskResult(w)
  PROVE  StoreInv'
  <1>1. UNCHANGED <<ctl, task, tasks_left, informed, stores_left, finished>>
    BY DEF sendTaskResult, threadVars, poolVars, controllerVars
  <1>2. Becomes(w, Connection(rpc[w].open, rpc[w].method, Nothing, "sendTaskResult", rpc[w].reply))
    BY TakeCall DEF sendTaskResult
  <1>3. /\ \A v \in Workers \ {w} : rpc'[v] = rpc[v]
        /\ rpc'[w].request = Nothing /\ rpc'[w].reply = rpc[w].reply
    BY <1>2, StaysShaped DEF StartTypes, Connection
  <1>4. Nothing.name = "none"  BY MessageFields DEF Nothing
  <1> QED  BY <1>1, <1>3, <1>4, StoreKept

\* The result is stored, or is not, and the controller gets the answer.
LEMMA SendTaskResultReturnsStore ==
  ASSUME StoreInv, PostInv, StartTypes, NEW w \in Workers, sendTaskResultReturns(w)
  PROVE  StoreInv'
  <1>1. UNCHANGED <<ctl, task, tasks_left, informed, finished>>
    BY DEF sendTaskResultReturns, startVars, handlerVars, threadVars, poolVars
  <1>2. PICK stored \in BOOLEAN :
          /\ rpc[w].handler = "sendTaskResult"
          /\ writeReply(w, "sendTaskResult", sendTaskResult_result_write(stored))
          /\ stores_left' = IF stored THEN stores_left - 1 ELSE stores_left
    BY DEF sendTaskResultReturns, return_sendTaskResult, CloseRequest, LeaveRequest, DatabaseFailed
  <1> DEFINE answer == Message("sendTaskResult", "T_REPLY", sendTaskResult_result_write(stored))
  <1>3. answer = IF stored THEN StoredReply ELSE NotStoredReply
    BY <1>2, Zenon DEF StoredReply, NotStoredReply
  <1>4. Becomes(w, Connection(rpc[w].open, rpc[w].method, Nothing, "none", answer))
    BY <1>2, WriteReply
  <1> HIDE DEF answer
  <1>5. /\ \A v \in Workers \ {w} : rpc'[v] = rpc[v]
        /\ rpc'[w].request = Nothing /\ rpc'[w].reply = answer
    BY <1>4, StaysShaped DEF StartTypes, Connection
  <1>6. Nothing.name = "none"  BY MessageFields DEF Nothing
  <1>7. Sending(w) /\ rpc[w].reply.name = "none"
    BY <1>2 DEF PostInv, OneCall
  <1>8. ctl[w] = "store" /\ \A v \in Workers \ {w} : ~Told(v)
    BY <1>7, OneStores
  <1>9. ~Told(w)  BY <1>7, Replies DEF Told
  <1>10. StoredReply' = StoredReply /\ NotStoredReply' = NotStoredReply
    BY DEF StoredReply, NotStoredReply
  <1>11. stores_left = NumberStores - informed  BY <1>8, <1>9 DEF StoreInv, StoresCounted
  <1>12. StoredReply # NotStoredReply  BY Replies
  <1>13. \A v \in Workers : Told(v)' <=> v = w /\ stored
    BY <1>3, <1>5, <1>8, <1>10, <1>12 DEF Told
  <1>14. StoresCounted'  BY <1>1, <1>2, <1>11, <1>13 DEF StoresCounted
  <1>15. TasksApart' /\ OpenCounted'
    BY <1>1 DEF StoreInv, TasksApart, OpenCounted, OpenTasks, Holders
  <1>16. \A v \in Workers : ReplyFits(v)' /\ FinishedFits(v)'
    BY <1>1, <1>3, <1>5, <1>6, <1>8, <1>10 DEF StoreInv, ReplyFits, FinishedFits
  <1> QED  BY <1>14, <1>15, <1>16 DEF StoreInv

\* Steps of a thread that has no task, and that ends none.
LEMMA NoTaskStore ==
  ASSUME StoreInv, PostInv, StartTypes, NEW w \in Workers,
         \/ Open(w) \/ AskMqtt(w) \/ MqttInitialized(w) \/ CountMqtt(w) \/ LeaveSpin(w)
         \/ ReadyTold(w) \/ TellFinished(w) \/ FinishedTold(w) \/ ExitBlocked(w)
  PROVE  StoreInv'
  <1>1. UNCHANGED <<task, informed, tasks_left>>
    BY DEF Open, AskMqtt, MqttInitialized, CountMqtt, LeaveSpin, ReadyTold, TellFinished,
           FinishedTold, ExitBlocked, poolVars
  <1>2. PICK label \in {"ask", "asked", "count", "spin", "told", "loop", "finish", "exited"} :
          Goto_ctl(w, label)
    BY DEF Open, AskMqtt, MqttInitialized, CountMqtt, LeaveSpin, ReadyTold, TellFinished,
           FinishedTold, ExitBlocked
  <1>3. ctl[w] \in {"open", "ask", "asked", "count", "spin", "told", "loop", "finish"}
    BY DEF Open, AskMqtt, MqttInitialized, CountMqtt, LeaveSpin, ReadyTold, TellFinished,
           FinishedTold, ExitBlocked
  <1>4. ctl'[w] = label /\ \A v \in Workers \ {w} : ctl'[v] = ctl[v]
    BY <1>2, Going
  <1>5. UNCHANGED <<stores_left, finished>>
    BY <1>2 DEF Goto_ctl, vars, controllerVars, handlerVars
  <1>6. rpc[w].reply.name # "sendTaskResult"
    BY <1>3 DEF StoreInv, ReplyFits
  <1>7. /\ \A v \in Workers \ {w} : rpc'[v] = rpc[v]
        /\ rpc'[w].reply.name # "sendTaskResult"
        /\ rpc'[w].request.name = "calculationIsFinished" =>
             rpc[w].request.name = "calculationIsFinished" \/ informed = NumberStores
    <2>1. CASE UNCHANGED rpc
      BY <1>6, <2>1
    <2>2. CASE Becomes(w, Opened)
      <3>1. /\ \A v \in Workers \ {w} : rpc'[v] = rpc[v]
            /\ rpc'[w].request = Nothing /\ rpc'[w].reply = Nothing
        BY <2>2, StaysShaped DEF StartTypes, Opened, Connection
      <3>2. Nothing.name = "none"  BY MessageFields DEF Nothing
      <3> QED  BY <3>1, <3>2
    <2>3. CASE \E name \in {"isMQTTInitialized", "MQTTReady", "calculationIsFinished"} :
                 /\ \E args : writeCall(w, name, args)
                 /\ name = "calculationIsFinished" => informed = NumberStores
      <3>1. PICK name, args : /\ name \in {"isMQTTInitialized", "MQTTReady", "calculationIsFinished"}
                              /\ writeCall(w, name, args)
                              /\ name = "calculationIsFinished" => informed = NumberStores
        BY <2>3
      <3> QED  BY <3>1, CallSent
    <2>4. CASE \E name \in {"isMQTTInitialized", "MQTTReady", "calculationIsFinished"} :
                 readReply(w, name)
      BY <2>4, AnswerTaken
    <2> QED
      BY <2>1, <2>2, <2>3, <2>4
      DEF Open, Becomes, AskMqtt, send_isMQTTInitialized, MqttInitialized, recv_isMQTTInitialized,
          CountMqtt, LeaveSpin, send_MQTTReady, ReadyTold, recv_MQTTReady, TellFinished,
          send_calculationIsFinished, FinishedTold, recv_calculationIsFinished, ExitBlocked
  <1> QED  BY <1>1, <1>2, <1>3, <1>4, <1>5, <1>6, <1>7, StoreKept DEF HoldingTask

\* A thread that holds a task goes on with it.
LEMMA KeepTaskStore ==
  ASSUME StoreInv, PostInv, StartTypes, NEW w \in Workers, TaskCalculated(w) \/ LockStore(w)
  PROVE  StoreInv'
  <1>1. UNCHANGED <<task, informed, tasks_left>>
    BY DEF TaskCalculated, LockStore, poolVars
  <1>2. PICK label \in {"lock", "store"} : Goto_ctl(w, label)
    BY DEF TaskCalculated, LockStore
  <1>3. ctl[w] \in {"calc", "lock"}  BY DEF TaskCalculated, LockStore
  <1>4. ctl'[w] = label /\ \A v \in Workers \ {w} : ctl'[v] = ctl[v]
    BY <1>2, Going
  <1>5. UNCHANGED <<stores_left, finished>>
    BY <1>2 DEF Goto_ctl, vars, controllerVars, handlerVars
  <1>6. rpc[w].reply.name # "sendTaskResult"
    BY <1>3 DEF StoreInv, ReplyFits
  <1>7. /\ \A v \in Workers \ {w} : rpc'[v] = rpc[v]
        /\ rpc'[w].reply.name = "none"
        /\ rpc'[w].request.name \in {"none", "sendTaskResult"}
    <2>1. CASE TaskCalculated(w)
      <3>1. readReply(w, "calcTask")  BY <2>1 DEF TaskCalculated, recv_calcTask
      <3> QED  BY <3>1, AnswerTaken
    <2>2. CASE LockStore(w)
      <3>1. PICK args : writeCall(w, "sendTaskResult", args)
        BY <2>2 DEF LockStore, send_sendTaskResult
      <3> QED  BY <3>1, CallSent
    <2> QED  BY <2>1, <2>2
  <1> QED  BY <1>1, <1>2, <1>3, <1>4, <1>5, <1>6, <1>7, StoreKept DEF HoldingTask

LEMMA TakeTaskStore ==
  ASSUME StoreInv, PostInv, StartTypes, NEW w \in Workers, TakeTask(w)
  PROVE  StoreInv'
  <1>1. UNCHANGED informed /\ ctl[w] = "loop" /\ Goto_ctl(w, "calc")
    BY DEF TakeTask
  <1>2. PICK t \in tasks_left : /\ tasks_left' = tasks_left \ {t}
                                /\ task' = [task EXCEPT ![w] = t]
                                /\ writeCall(w, "calcTask", calcTask_args_write(t))
    BY DEF TakeTask, send_calcTask
  <1>3. ctl'[w] = "calc" /\ \A v \in Workers \ {w} : ctl'[v] = ctl[v]
    BY <1>1, Going
  <1>4. UNCHANGED <<stores_left, finished>>
    BY <1>1 DEF Goto_ctl, vars, controllerVars, handlerVars
  <1>5. task'[w] = t /\ \A v \in Workers \ {w} : task'[v] = task[v]
    BY <1>2 DEF PostInv, PoolTypes
  <1> DEFINE args == calcTask_args_write(t)
  <1> HIDE DEF args
  <1>6. /\ \A v \in Workers \ {w} : rpc'[v] = rpc[v]
        /\ rpc'[w].request.name = "calcTask" /\ rpc'[w].reply.name = "none"
    BY <1>2, CallSent DEF args
  <1>7. Holders' = Holders \cup {w} /\ w \notin Holders
    BY <1>1, <1>3 DEF Holders, HoldingTask
  <1>8. TasksApart'
    BY <1>2, <1>5, <1>7 DEF StoreInv, TasksApart, Holders
  <1>9. OpenTasks' = OpenTasks
    BY <1>2, <1>5, <1>7 DEF OpenTasks, Holders
  <1>10. OpenCounted'  BY <1>1, <1>9 DEF StoreInv, OpenCounted
  <1>11. StoredReply' = StoredReply /\ NotStoredReply' = NotStoredReply
    BY DEF StoredReply, NotStoredReply
  <1>12. ~Told(w)  BY <1>1, OneStores
  <1>13. \A v \in Workers : Told(v)' <=> Told(v)
    BY <1>6, <1>11, <1>12, Replies DEF Told
  <1>14. StoresCounted'  BY <1>1, <1>4, <1>13 DEF StoreInv, StoresCounted
  <1>15. \A v \in Workers : ReplyFits(v)' /\ FinishedFits(v)'
    BY <1>1, <1>3, <1>4, <1>6, <1>11 DEF StoreInv, ReplyFits, FinishedFits
  <1> QED  BY <1>8, <1>10, <1>14, <1>15 DEF StoreInv

\* The result is reported, or the task given back.
LEMMA ResultSentStore ==
  ASSUME StoreInv, PostInv, StartTypes, NEW w \in Workers, ResultSent(w)
  PROVE  StoreInv'
  <1>1. /\ ctl[w] = "store" /\ Goto_ctl(w, "loop") /\ readReply(w, "sendTaskResult")
        /\ task' = [task EXCEPT ![w] = NoTask]
    BY DEF ResultSent, recv_sendTaskResult
  <1>2. PICK stored \in BOOLEAN :
          /\ stored = sendTaskResult_result_read(rpc[w].reply.fields)
          /\ informed' = IF stored THEN informed + 1 ELSE informed
          /\ tasks_left' = IF stored THEN tasks_left ELSE tasks_left \cup {task[w]}
    BY DEF ResultSent, recv_sendTaskResult
  <1>3. ctl'[w] = "loop" /\ \A v \in Workers \ {w} : ctl'[v] = ctl[v]
    BY <1>1, Going
  <1>4. UNCHANGED <<stores_left, finished>>
    BY <1>1 DEF Goto_ctl, vars, controllerVars, handlerVars
  <1>5. /\ \A v \in Workers \ {w} : rpc'[v] = rpc[v]
        /\ rpc[w].reply.name = "sendTaskResult"
        /\ rpc'[w].request.name = "none" /\ rpc'[w].reply.name = "none"
    BY <1>1, AnswerTaken
  <1>6. \A v \in Workers \ {w} : task'[v] = task[v]
    BY <1>1 DEF PostInv, PoolTypes
  <1>7. Told(w) <=> stored
    <2>1. rpc[w].reply \in {StoredReply, NotStoredReply}
      BY <1>5 DEF StoreInv, ReplyFits
    <2> QED  BY <1>2, <2>1, Replies DEF Told
  <1>8. \A v \in Workers \ {w} : ~Told(v)  BY <1>1, OneStores
  <1>9. StoredReply' = StoredReply /\ NotStoredReply' = NotStoredReply
    BY DEF StoredReply, NotStoredReply
  <1>10. \A v \in Workers : ~Told(v)'  BY <1>5, <1>8, <1>9, Replies DEF Told
  <1>11. informed \in Nat /\ NumberStores \in Nat
    BY WriteLockAssumption DEF StoreInv, OpenCounted
  <1>12. stores_left = IF stored THEN NumberStores - informed - 1 ELSE NumberStores - informed
    BY <1>7, <1>8 DEF StoreInv, StoresCounted
  <1>13. StoresCounted'  BY <1>2, <1>4, <1>10, <1>11, <1>12 DEF StoresCounted
  <1>14. Holders' = Holders \ {w} /\ w \in Holders
    BY <1>1, <1>3 DEF Holders, HoldingTask
  <1>15. /\ task[w] \notin tasks_left /\ task[w] \in OpenTasks
         /\ \A v \in Holders \ {w} : task[v] # task[w]
    BY <1>14 DEF StoreInv, TasksApart, OpenTasks
  <1>16. TasksApart'
    BY <1>2, <1>6, <1>14, <1>15 DEF StoreInv, TasksApart, Holders
  <1>17. OpenTasks' = IF stored THEN OpenTasks \ {task[w]} ELSE OpenTasks
    BY <1>2, <1>6, <1>14, <1>15 DEF OpenTasks, Holders
  <1>18. Cardinality(OpenTasks') = IF stored THEN Cardinality(OpenTasks) - 1
                                             ELSE Cardinality(OpenTasks)
    BY <1>15, <1>17, OpenFinite, FS_RemoveElement
  <1>19. Cardinality(OpenTasks) = NumberStores - informed
    BY DEF StoreInv, OpenCounted
  <1>20. OpenCounted'
    BY <1>2, <1>11, <1>18, <1>19 DEF OpenCounted
  <1>21. informed # NumberStores
    BY <1>15, <1>19, OpenFinite, FS_EmptySet, <1>11
  <1>22. \A v \in Workers : ReplyFits(v)' /\ FinishedFits(v)'
    BY <1>3, <1>4, <1>5, <1>9, <1>21 DEF StoreInv, ReplyFits, FinishedFits
  <1> QED  BY <1>13, <1>16, <1>20, <1>22 DEF StoreInv

LEMMA StoreStep ==
  ASSUME StoreInv, PostInv, StartTypes, [StartNext]_systemVars
  PROVE  StoreInv'
  <1>1. ASSUME UNCHANGED <<rpc, ctl, task, tasks_left, informed, stores_left, finished>>
        PROVE  StoreInv'
    BY <1>1, StoreKept
  <1>2. ASSUME NEW w \in Workers, Serve(w) \/ Register(w) \/ MqttStart(w) PROVE StoreInv'
    BY <1>1, <1>2 DEF Serve, Register, MqttStart, ConnectMqtt, Subscribe, PostSemMqtt, MqttGoto,
                      handlerVars, threadVars, poolVars, vars, controllerVars
  <1>3. ASSUME NEW w \in Workers, HandlerStep(w) PROVE StoreInv'
    BY <1>3, AnswerStore, SendTaskResultStore, SendTaskResultReturnsStore DEF HandlerStep
  <1>4. ASSUME NEW w \in Workers, ControlStep(w) PROVE StoreInv'
    BY <1>4, NoTaskStore, KeepTaskStore, TakeTaskStore, ResultSentStore DEF ControlStep
  <1>5. ASSUME NEW w \in Workers, LockStep(w) PROVE StoreInv'
    <2>1. UNCHANGED <<rpc, ctl, task, tasks_left, informed, finished>>
      BY <1>5 DEF LockStep, startVars, handlerVars, threadVars, poolVars
    <2>2. UNCHANGED stores_left
      BY <1>5 DEF LockStep, CallbackStep, ReceiveReply, ReceiveRequest, ReadRequestOpen,
         CompareRequests, QueueRequest, ReplyImmediately, MainStep, RequesterStep, Acquire,
         StartResponding, RespondToOpenRequest, CloseRequest, LeaveRequest, BreakLoop, controllerVars
    <2> QED  BY <1>1, <2>1, <2>2
  <1>6. CASE CreateThreads
    <2>1. /\ UNCHANGED <<rpc, task, tasks_left, informed, stores_left, finished>>
          /\ \A v \in Workers : ctl[v] = "none" /\ ctl'[v] = "open"
      BY <1>6 DEF CreateThreads, handlerVars, poolVars, vars, controllerVars
    <2> QED  BY <2>1, StoreKept DEF HoldingTask
  <1>7. CASE UNCHANGED systemVars
    BY <1>1, <1>7 DEF systemVars, startVars, handlerVars, threadVars, poolVars, vars, controllerVars
  <1> QED  BY <1>2, <1>3, <1>4, <1>5, <1>6, <1>7 DEF StartNext

-----------------------------------------------------------------------------
(***************************************************************************)
(* The lock                                                                *)
(***************************************************************************)

SystemInv == StartTypes /\ ThreadsTyped /\ PostInv /\ StoreInv

LEMMA SystemInit == StartInit => SystemInv
  BY TypesInit, PostInit, StoreInit DEF SystemInv

LEMMA SystemStep ==
  ASSUME SystemInv, [StartNext]_systemVars
  PROVE  SystemInv'
  <1>1. StartTypes' /\ ThreadsTyped'  BY TypesStep, ThreadsStep DEF SystemInv
  <1>2. PostInv' /\ StoreInv'  BY PostStep, StoreStep DEF SystemInv
  <1> QED  BY <1>1, <1>2 DEF SystemInv

LEMMA SystemInvariant == StartSpec => []SystemInv
  BY SystemInit, SystemStep, PTL DEF StartSpec

\* A worker is called by sendTaskResult only when no other one writes and
\* results are missing: its thread holds mutex_store_result, and its task is
\* open.
LEMMA SendTaskResultAllowed ==
  ASSUME SystemInv, NEW w \in Workers, sendTaskResult(w)
  PROVE  SendTaskResult(w)
  <1> USE DEF SystemInv
  <1>1. rpc[w].request.name = "sendTaskResult"
    BY DEF sendTaskResult, process_sendTaskResult, dispatchCall
  <1>2. ctl[w] = "store" /\ ~Sending(w) /\ rpc[w].reply.name = "none"
    BY <1>1 DEF PostInv, CallFits, OneCall
  <1>3. \A v \in Workers : ~Sending(v) /\ ~Told(v)
    BY <1>2, OneStores, Replies DEF Told
  <1>4. StoreMutexFree  BY <1>3 DEF StoreMutexFree, Sending
  <1>5. task[w] \in OpenTasks  BY <1>2 DEF OpenTasks, Holders, HoldingTask
  <1>6. stores_left = Cardinality(OpenTasks)
    BY <1>3 DEF StoreInv, StoresCounted, OpenCounted
  <1>7. stores_left > 0
    BY <1>5, <1>6, OpenFinite, FS_EmptySet
  <1> QED  BY <1>4, <1>7 DEF sendTaskResult, SendTaskResult

\* A worker that was told to finish leaves its loop when all results are stored.
LEMMA BreakLoopAllowed ==
  ASSUME SystemInv, NEW w \in Workers, BreakLoop(w)
  PROVE  LeaveLoop(w)
  <1> USE DEF SystemInv
  <1>1. ASSUME w \in finished PROVE stores_left = 0
    <2>1. informed = NumberStores /\ NumberStores \in Nat
      BY <1>1, WriteLockAssumption DEF StoreInv, FinishedFits
    <2>2. OpenTasks = {}
      BY <2>1, OpenFinite, FS_EmptySet DEF StoreInv, OpenCounted
    <2>3. \A v \in Workers : ctl[v] # "store"
      BY <2>2 DEF OpenTasks, Holders, HoldingTask
    <2>4. \A v \in Workers : ~Told(v)  BY <2>3, OneStores
    <2> QED  BY <2>1, <2>4 DEF StoreInv, StoresCounted
  <1> QED  BY <1>1 DEF BreakLoop, LeaveLoop

LEMMA MqttStartKeepsLock ==
  ASSUME NEW w \in Workers, MqttStart(w)
  PROVE  UNCHANGED vars
  BY DEF MqttStart, ConnectMqtt, Subscribe, PostSemMqtt, MqttGoto

LEMMA HandlerStepIsLockStep ==
  ASSUME SystemInv, NEW w \in Workers, HandlerStep(w)
  PROVE  [Next]_vars
  <1>1. CASE isMQTTInitialized(w) \/ MQTTReady(w) \/ calcTask(w) \/ calculationIsFinished(w)
    BY <1>1 DEF isMQTTInitialized, MQTTReady, calcTask, calculationIsFinished
  <1>2. CASE sendTaskResult(w)
    BY <1>2, SendTaskResultAllowed DEF Next
  <1>3. CASE sendTaskResultReturns(w)
    BY <1>3 DEF sendTaskResultReturns, Next, RpcStep, RequesterStep
  <1> QED  BY <1>1, <1>2, <1>3 DEF HandlerStep

LEMMA ControlStepKeepsLock ==
  ASSUME NEW w \in Workers, ControlStep(w)
  PROVE  UNCHANGED vars
  BY DEF ControlStep, Open, AskMqtt, MqttInitialized, CountMqtt, LeaveSpin, ReadyTold, TakeTask,
         TaskCalculated, LockStore, ResultSent, TellFinished, FinishedTold, ExitBlocked, Goto_ctl

LEMMA LockStepIsLockStep ==
  ASSUME SystemInv, NEW w \in Workers, LockStep(w)
  PROVE  Next
  <1>1. BreakLoop(w) => LeaveLoop(w)  BY BreakLoopAllowed
  <1> QED  BY <1>1 DEF LockStep, Next, RpcStep, RequesterStep

\* Every step is one of the lock or leaves its variables alone.
LEMMA StepImplements ==
  ASSUME SystemInv, [StartNext]_systemVars
  PROVE  [Next]_vars
  <1>1. CASE CreateThreads
    BY <1>1 DEF CreateThreads
  <1>2. ASSUME NEW w \in Workers, Serve(w) \/ Register(w) PROVE [Next]_vars
    BY <1>2 DEF Serve, Register
  <1>3. ASSUME NEW w \in Workers, MqttStart(w) PROVE [Next]_vars
    BY <1>3, MqttStartKeepsLock
  <1>4. ASSUME NEW w \in Workers, HandlerStep(w) PROVE [Next]_vars
    BY <1>4, HandlerStepIsLockStep
  <1>5. ASSUME NEW w \in Workers, ControlStep(w) PROVE [Next]_vars
    BY <1>5, ControlStepKeepsLock
  <1>6. ASSUME NEW w \in Workers, LockStep(w) PROVE [Next]_vars
    BY <1>6, LockStepIsLockStep
  <1>7. CASE UNCHANGED systemVars
    BY <1>7 DEF systemVars
  <1> QED  BY <1>1, <1>2, <1>3, <1>4, <1>5, <1>6, <1>7 DEF StartNext

\* The system implements the lock: what the lock takes the controller to do,
\* to let one worker at a time store and to say that the calculation is
\* finished only when all results are stored, follows from mutex_store_result
\* and the tasks that the threads hold, whichever POST fails.
THEOREM SystemImplementsLock == StartSpec => LockImplemented
  <1>1. StartInit => Init  BY DEF StartInit
  <1>2. SystemInv /\ [StartNext]_systemVars => [Next]_vars
    BY StepImplements
  <1> QED  BY <1>1, <1>2, SystemInvariant, PTL DEF StartSpec, Spec, LockImplemented

\* At most one worker writes to the database or prints, with the requests that
\* the controller's threads cause.
THEOREM SystemExclusion ==
  ASSUME TimeoutWorkers = {}
  PROVE  StartSpec => []MutualExclusion
  BY SystemImplementsLock, Exclusion, PTL DEF LockImplemented

\* No reply counts for another request than the one it answers.
THEOREM SystemAccounting ==
  ASSUME TimeoutWorkers = {}
  PROVE  StartSpec => []RepliesAccounted
  BY SystemImplementsLock, ReplyAccounting, PTL DEF LockImplemented

-----------------------------------------------------------------------------
(***************************************************************************)
(* The barrier                                                             *)
(***************************************************************************)

\* Who says that MQTT is initialised, or was told so, has it initialised.
Initialised ==
  \A w \in Workers :
    (sem_mqtt[w] > 0 \/ rpc[w].reply.name = "isMQTTInitialized" \/ ctl[w] \in Passed \cup {"count"})
      => mqtt[w] = "looping"

\* The counter of the barrier is exact.
Arrived == {w \in Workers : ctl[w] \in Passed}
CountExact == mqtt_count = Cardinality(Arrived)

\* Until all workers are ready no thread has passed the barrier, no worker has
\* been called but by isMQTTInitialized, and the lock is at rest.
AllReady == \A w \in Workers : mqtt[w] = "looping"
NotCalled(w) ==
  /\ ctl[w] \notin After_Spin
  /\ rpc[w].request.name \in {"none", "isMQTTInitialized"}
  /\ sem_mqtt_ready[w] = 0
  /\ w \notin finished
LockAtRest ==
  /\ \A th \in Threads : pc[th] = "idle"
  /\ \A w \in Workers : callback[w] = "idle"
  /\ messages = {}
Quiet == (\A w \in Workers : NotCalled(w)) /\ LockAtRest

BarrierInv == StartTypes /\ Initialised /\ CountExact /\ (AllReady \/ Quiet)

LEMMA ArrivedFinite == IsFiniteSet(Arrived) /\ Cardinality(Arrived) \in Nat
  <1>1. Arrived \subseteq Workers  BY DEF Arrived
  <1> QED  BY <1>1, WorkersFinite, FS_Subset, FS_CardinalityType

LEMMA BarrierInit == StartInit => BarrierInv
  <1> SUFFICES ASSUME StartInit PROVE BarrierInv  OBVIOUS
  <1>1. StartTypes
    BY DEF StartInit, StartTypes, ConnectionsShaped, MqttStates, Before_Spin, Closed, Connection
  <1>2. Initialised
    BY DEF StartInit, Initialised, Passed, After_Spin, Closed, Connection, Nothing, Message
  <1>3. CountExact
    <2>1. Arrived = {}  BY DEF StartInit, Arrived, Passed, After_Spin
    <2> QED  BY <2>1, FS_EmptySet DEF CountExact, StartInit
  <1>4. Quiet
    BY DEF StartInit, Init, Quiet, NotCalled, LockAtRest, After_Spin, Closed, Connection,
           Nothing, Message
  <1> QED  BY <1>1, <1>2, <1>3, <1>4 DEF BarrierInv

\* A step of the lock alone: everything the barrier speaks of stays.
LEMMA LockStepBarrier ==
  ASSUME BarrierInv, TimeoutWorkers = {}, NEW w \in Workers, LockStep(w)
  PROVE  BarrierInv'
  <1>1. UNCHANGED <<mqtt, ctl, sem_mqtt, sem_mqtt_ready, mqtt_count, rpc, finished>>
    BY DEF LockStep, startVars, workerStartVars, handlerVars, threadVars
  <1>2. StartTypes' /\ Initialised' /\ CountExact'
    BY <1>1 DEF BarrierInv, StartTypes, Initialised, CountExact, Arrived
  <1>3. CASE AllReady
    BY <1>1, <1>2, <1>3 DEF BarrierInv, AllReady
  <1>4. CASE ~AllReady /\ Quiet
    <2>1. w \notin finished /\ pc[<<w, "rpc">>] = "idle" /\ pc[<<w, "main">>] = "idle"
          /\ callback[w] = "idle" /\ messages = {}
      BY <1>4 DEF Quiet, NotCalled, LockAtRest, Threads, Requesters
    <2>2. ~CallbackStep(w)
      BY <2>1 DEF CallbackStep, ReceiveReply, ReceiveRequest, ReadRequestOpen, CompareRequests,
                  QueueRequest, ReplyImmediately
    <2>3. ~RpcStep(w) /\ ~MainStep(w)
      BY <2>1 DEF RpcStep, MainStep, RequesterStep, Acquire, StartResponding,
                  RespondToOpenRequest, CloseRequest
    <2> QED  BY <2>1, <2>2, <2>3 DEF LockStep, BreakLoop, RpcStep, RequesterStep
  <1> QED  BY <1>3, <1>4 DEF BarrierInv

\* The steps that leave the lock, the threads and the RPCs alone.
LEMMA WorkerStartBarrier ==
  ASSUME BarrierInv, NEW w \in Workers, Serve(w) \/ Register(w) \/ MqttStart(w)
  PROVE  BarrierInv'
  <1>1. UNCHANGED <<vars, rpc, ctl, mqtt_count, sem_mqtt_ready, finished>>
    BY DEF Serve, Register, MqttStart, ConnectMqtt, Subscribe, PostSemMqtt, MqttGoto,
           handlerVars, threadVars
  <1>2. /\ mqtt' \in [Workers -> MqttStates] /\ sem_mqtt' \in [Workers -> Nat]
        /\ \A v \in Workers : mqtt[v] = "looping" => mqtt'[v] = "looping"
        /\ \A v \in Workers : sem_mqtt'[v] > sem_mqtt[v] => mqtt'[v] = "looping"
    BY DEF BarrierInv, StartTypes, MqttStates, Serve, Register, MqttStart, ConnectMqtt, Subscribe,
           PostSemMqtt, MqttGoto, handlerVars
  <1>3. StartTypes'  BY <1>1, <1>2 DEF BarrierInv, StartTypes
  <1>4. Initialised'
    <2> SUFFICES ASSUME NEW v \in Workers,
                        sem_mqtt'[v] > 0 \/ rpc[v].reply.name = "isMQTTInitialized"
                          \/ ctl[v] \in Passed \cup {"count"}
                 PROVE  mqtt'[v] = "looping"
      BY <1>1 DEF Initialised
    <2>1. sem_mqtt[v] \in Nat /\ sem_mqtt'[v] \in Nat
      BY <1>2 DEF BarrierInv, StartTypes
    <2> QED  BY <1>2, <2>1 DEF BarrierInv, Initialised
  <1>5. CountExact'  BY <1>1 DEF BarrierInv, CountExact, Arrived
  <1>6. AllReady => AllReady'  BY <1>2 DEF AllReady
  <1>7. Quiet => Quiet'
    BY <1>1 DEF Quiet, NotCalled, LockAtRest, vars, callbackVars
  <1> QED  BY <1>3, <1>4, <1>5, <1>6, <1>7 DEF BarrierInv

\* A step that leaves the MQTT threads alone: the barrier has to look at one
\* connection only.
LEMMA Readiness ==
  ASSUME BarrierInv, UNCHANGED mqtt
  PROVE  AllReady' <=> AllReady
  BY DEF AllReady

LEMMA HandlerStepBarrier ==
  ASSUME BarrierInv, NEW w \in Workers, HandlerStep(w)
  PROVE  BarrierInv'
  <1> USE DEF BarrierInv
  <1>1. UNCHANGED <<ctl, mqtt, mqtt_count>>
    BY DEF HandlerStep, isMQTTInitialized, MQTTReady, calcTask, sendTaskResult,
           sendTaskResultReturns, calculationIsFinished, workerStartVars, threadVars, startVars
  <1>2. CountExact'  BY <1>1 DEF CountExact, Arrived
  <1>3. AllReady' <=> AllReady  BY <1>1, Readiness
  <1>4. CASE isMQTTInitialized(w)
    <2>1. /\ sem_mqtt[w] > 0 /\ sem_mqtt' = [sem_mqtt EXCEPT ![w] = @ - 1]
          /\ UNCHANGED <<sem_mqtt_ready, vars, finished>>
      BY <1>4 DEF isMQTTInitialized
    <2>2. PICK result : writeReply(w, "isMQTTInitialized", result)
      BY <1>4 DEF isMQTTInitialized, process_isMQTTInitialized
    <2>3. Becomes(w, Connection(rpc[w].open, rpc[w].method, Nothing, "none",
                                Message("isMQTTInitialized", "T_REPLY", result)))
      BY <2>2, WriteReply
    <2>4. /\ ConnectionsShaped(rpc')
          /\ \A v \in Workers \ {w} : rpc'[v] = rpc[v]
          /\ rpc'[w].request = Nothing /\ mqtt[w] = "looping"
      BY <2>1, <2>3, StaysShaped DEF StartTypes, Initialised, Connection
    <2>5. StartTypes'  BY <1>1, <2>1, <2>4 DEF StartTypes
    <2>6. \A v \in Workers \ {w} : sem_mqtt'[v] = sem_mqtt[v]
      BY <2>1 DEF StartTypes
    <2>7. Initialised'  BY <1>1, <2>4, <2>6 DEF Initialised
    <2>8. Quiet => Quiet'
      BY <1>1, <2>1, <2>4 DEF Quiet, NotCalled, LockAtRest, vars, callbackVars, Nothing, Message
    <2> QED  BY <1>2, <1>3, <2>5, <2>7, <2>8
  <1>5. CASE ~isMQTTInitialized(w)
    <2>1. AllReady
      <3>1. CASE sendTaskResultReturns(w)
        <4>1. pc[<<w, "rpc">>] # "idle"
          BY <3>1 DEF sendTaskResultReturns, CloseRequest, DatabaseFailed
        <4> QED  BY <4>1 DEF Quiet, LockAtRest, Threads, Requesters
      <3>2. CASE ~sendTaskResultReturns(w)
        <4>1. rpc[w].request.name
                \in {"MQTTReady", "calcTask", "sendTaskResult", "calculationIsFinished"}
          BY <1>5, <3>2 DEF HandlerStep, MQTTReady, process_MQTTReady, calcTask, process_calcTask,
             sendTaskResult, process_sendTaskResult, calculationIsFinished,
             process_calculationIsFinished, dispatchCall
        <4> QED  BY <4>1 DEF Quiet, NotCalled
      <3> QED  BY <3>1, <3>2
    <2>2. /\ UNCHANGED sem_mqtt
          /\ sem_mqtt_ready' \in [Workers -> Nat]
      <3>1. CASE MQTTReady(w)
        BY <3>1 DEF MQTTReady, StartTypes
      <3>2. CASE ~MQTTReady(w)
        <4>1. UNCHANGED <<sem_mqtt, sem_mqtt_ready>>
          BY <1>5, <3>2 DEF HandlerStep, calcTask, sendTaskResult, sendTaskResultReturns,
                            calculationIsFinished, startVars, handlerVars
        <4> QED  BY <4>1 DEF StartTypes
      <3> QED  BY <3>1, <3>2
    <2>3. \E request, handler, reply :
            /\ Becomes(w, Connection(rpc[w].open, rpc[w].method, request, handler, reply))
            /\ reply.name # "isMQTTInitialized" \/ reply = rpc[w].reply
      <3>1. CASE MQTTReady(w)
        <4>1. writeReply(w, "MQTTReady", MQTTReady_result_write)
          BY <3>1 DEF MQTTReady, process_MQTTReady
        <4>2. Message("MQTTReady", "T_REPLY", MQTTReady_result_write).name # "isMQTTInitialized"
          BY MessageFields
        <4> QED  BY <4>1, <4>2, WriteReply
      <3>2. CASE calcTask(w)
        <4>1. PICK result : writeReply(w, "calcTask", result)
          BY <3>2 DEF calcTask, process_calcTask
        <4>2. Message("calcTask", "T_REPLY", result).name # "isMQTTInitialized"
          BY MessageFields
        <4> QED  BY <4>1, <4>2, WriteReply
      <3>3. CASE sendTaskResult(w)
        BY <3>3, TakeCall DEF sendTaskResult
      <3>4. CASE sendTaskResultReturns(w)
        <4>1. PICK success \in BOOLEAN :
                 writeReply(w, "sendTaskResult", sendTaskResult_result_write(success))
          BY <3>4 DEF sendTaskResultReturns, return_sendTaskResult
        <4>2. Message("sendTaskResult", "T_REPLY", sendTaskResult_result_write(success)).name
                # "isMQTTInitialized"
          BY MessageFields
        <4> QED  BY <4>1, <4>2, WriteReply
      <3>5. CASE calculationIsFinished(w)
        <4>1. writeReply(w, "calculationIsFinished", calculationIsFinished_result_write)
          BY <3>5 DEF calculationIsFinished, process_calculationIsFinished
        <4>2. Message("calculationIsFinished", "T_REPLY", calculationIsFinished_result_write).name
                # "isMQTTInitialized"
          BY MessageFields
        <4> QED  BY <4>1, <4>2, WriteReply
      <3> QED  BY <1>5, <3>1, <3>2, <3>3, <3>4, <3>5 DEF HandlerStep
    <2>4. /\ ConnectionsShaped(rpc')
          /\ \A v \in Workers \ {w} : rpc'[v] = rpc[v]
          /\ rpc'[w].reply.name # "isMQTTInitialized" \/ rpc'[w].reply = rpc[w].reply
      BY <2>3, StaysShaped DEF StartTypes, Connection
    <2>5. StartTypes'  BY <1>1, <2>2, <2>4 DEF StartTypes
    <2>6. Initialised'  BY <1>1, <2>2, <2>4 DEF Initialised
    <2> QED  BY <1>2, <1>3, <2>1, <2>5, <2>6
  <1> QED  BY <1>4, <1>5

\* Before the barrier a thread makes no call but isMQTTInitialized.
LEMMA OnlyCallBefore ==
  ASSUME StartTypes, NEW w \in Workers, ControlStep(w), ctl[w] \in Before_Spin
  PROVE  rpc'[w].request = rpc[w].request \/ rpc'[w].request.name \in {"none", "isMQTTInitialized"}
  <1>1. Open(w) \/ AskMqtt(w) \/ MqttInitialized(w) \/ CountMqtt(w)
    BY DEF ControlStep, LeaveSpin, ReadyTold, TakeTask, TaskCalculated, LockStore, ResultSent,
           TellFinished, FinishedTold, ExitBlocked, Before_Spin
  <1>2. CASE Open(w)
    <2>1. Becomes(w, Opened) \/ UNCHANGED rpc  BY <1>2 DEF Open, Becomes
    <2>2. ASSUME Becomes(w, Opened) PROVE rpc'[w].request = Nothing
      BY <2>2, StaysShaped DEF StartTypes, Opened, Connection
    <2> QED  BY <2>1, <2>2, MessageFields DEF Nothing
  <1>3. CASE AskMqtt(w)
    <2>1. writeCall(w, "isMQTTInitialized", isMQTTInitialized_args_write)
      BY <1>3 DEF AskMqtt, send_isMQTTInitialized
    <2> DEFINE call == Message("isMQTTInitialized", "T_CALL", isMQTTInitialized_args_write)
    <2>2. Becomes(w, Connection(rpc[w].open, "isMQTTInitialized", call,
                                rpc[w].handler, rpc[w].reply))
      BY <2>1, WriteCall
    <2>3. call.name = "isMQTTInitialized"  BY MessageFields
    <2> HIDE DEF call
    <2>4. rpc'[w].request = call  BY <2>2, StaysShaped DEF StartTypes, Connection
    <2> QED  BY <2>3, <2>4
  <1>4. CASE MqttInitialized(w)
    <2>1. readReply(w, "isMQTTInitialized")
      BY <1>4 DEF MqttInitialized, recv_isMQTTInitialized
    <2>2. Becomes(w, Connection(rpc[w].open, "none", rpc[w].request, rpc[w].handler, Nothing))
      BY <2>1, ReadReply
    <2> QED  BY <2>2, StaysShaped DEF StartTypes, Connection
  <1>5. CASE CountMqtt(w)
    BY <1>5 DEF CountMqtt
  <1> QED  BY <1>1, <1>2, <1>3, <1>4, <1>5

\* A full counter means that every worker is ready.
LEMMA FullCounter ==
  ASSUME BarrierInv, mqtt_count = NumberWorkers
  PROVE  AllReady
  <1>1. Arrived \subseteq Workers /\ Cardinality(Arrived) = Cardinality(Workers)
    BY WorkersFinite DEF BarrierInv, CountExact, Arrived
  <1>2. Arrived = Workers
    BY <1>1, WorkersFinite, FS_Subset
  <1> QED  BY <1>2 DEF BarrierInv, Initialised, Arrived, AllReady

LEMMA ControlStepBarrier ==
  ASSUME BarrierInv, NEW w \in Workers, ControlStep(w)
  PROVE  BarrierInv'
  <1> USE DEF BarrierInv
  <1>1. PICK label \in Before_Spin \cup Passed : ctl' = [ctl EXCEPT ![w] = label]
    BY ControlStepCtl
  <1>2. /\ ctl'[w] = label /\ \A v \in Workers \ {w} : ctl'[v] = ctl[v]
        /\ ctl' \in [Workers -> Before_Spin \cup Passed]
    BY <1>1 DEF StartTypes
  <1>3. UNCHANGED <<vars, mqtt, sem_mqtt, sem_mqtt_ready, finished>>
    BY ControlStepCtl
  <1>4. /\ ConnectionsShaped(rpc')
        /\ \A v \in Workers \ {w} : rpc'[v] = rpc[v]
        /\ rpc'[w].reply = rpc[w].reply \/ rpc'[w].reply = Nothing
    <2>1. CASE UNCHANGED rpc
      BY <2>1 DEF StartTypes
    <2>2. CASE ~UNCHANGED rpc
      <3>1. PICK open, method, request, handler, reply :
              /\ Becomes(w, Connection(open, method, request, handler, reply))
              /\ reply = rpc[w].reply \/ reply = Nothing
        BY <2>2, ControlStepRpc
      <3> QED  BY <3>1, StaysShaped DEF StartTypes, Connection
    <2> QED  BY <2>1, <2>2
  <1>5. mqtt_count' = IF ctl[w] = "count" THEN mqtt_count + 1 ELSE mqtt_count
    BY ControlStepCtl
  <1>6. StartTypes'  BY <1>2, <1>3, <1>4, <1>5 DEF StartTypes
  <1>7. Initialised'
    <2>1. ctl'[w] \in Passed \cup {"count"} => mqtt[w] = "looping"
      <3>1. CASE ctl[w] \in Passed \cup {"count"}
        BY <3>1 DEF Initialised
      <3>2. CASE MqttInitialized(w)
        <4>1. readReply(w, "isMQTTInitialized")
          BY <3>2 DEF MqttInitialized, recv_isMQTTInitialized
        <4> QED  BY <4>1, ReadReply DEF Initialised
      <3> QED
        BY <3>1, <3>2, ControlStepCtl DEF Before_Spin, After_Spin, Passed
    <2>2. Nothing.name # "isMQTTInitialized"
      BY MessageFields DEF Nothing
    <2> QED  BY <1>2, <1>3, <1>4, <2>1, <2>2 DEF Initialised
  <1>8. CountExact'
    <2>1. CASE ctl[w] = "count"
      <3>1. ctl'[w] = "spin"  BY <2>1, ControlStepCtl DEF Before_Spin, After_Spin
      <3>2. Arrived' = Arrived \cup {w} /\ w \notin Arrived
        BY <1>2, <2>1, <3>1 DEF Arrived, Passed, After_Spin
      <3> QED  BY <1>5, <2>1, <3>2, ArrivedFinite, FS_AddElement DEF CountExact
    <2>2. CASE ctl[w] # "count"
      <3>1. ctl'[w] \in Passed <=> ctl[w] \in Passed
        BY <2>2, ControlStepCtl DEF Before_Spin, After_Spin, Passed
      <3>2. Arrived' = Arrived  BY <1>2, <3>1 DEF Arrived
      <3> QED  BY <1>5, <2>2, <3>2 DEF CountExact
    <2> QED  BY <2>1, <2>2
  <1>9. AllReady' <=> AllReady  BY <1>3, Readiness
  <1>10. ASSUME Quiet, ~AllReady PROVE Quiet'
    <2>1. ctl[w] \notin After_Spin /\ mqtt_count # NumberWorkers
      BY <1>10, FullCounter DEF Quiet, NotCalled
    <2>2. ctl[w] \in Before_Spin /\ ctl'[w] \notin After_Spin
      BY <2>1, ControlStepCtl DEF Before_Spin, After_Spin
    <2>3. rpc'[w].request.name \in {"none", "isMQTTInitialized"}
      BY <1>10, <2>2, OnlyCallBefore DEF Quiet, NotCalled
    <2> QED
      BY <1>2, <1>3, <1>4, <1>10, <2>2, <2>3 DEF Quiet, NotCalled, LockAtRest, vars, callbackVars
  <1> QED  BY <1>6, <1>7, <1>8, <1>9, <1>10

LEMMA CreateThreadsBarrier ==
  ASSUME BarrierInv, CreateThreads
  PROVE  BarrierInv'
  <1> USE DEF BarrierInv
  <1>1. /\ UNCHANGED <<vars, rpc, mqtt, sem_mqtt, sem_mqtt_ready, finished, mqtt_count>>
        /\ ctl = [w \in Workers |-> "none"] /\ ctl' = [w \in Workers |-> "open"]
    BY DEF CreateThreads, workerStartVars, handlerVars
  <1>2. StartTypes'  BY <1>1 DEF StartTypes, Before_Spin
  <1>3. Initialised'  BY <1>1 DEF Initialised, Passed, After_Spin
  <1>4. CountExact'
    <2>1. Arrived' = Arrived  BY <1>1 DEF Arrived, Passed, After_Spin
    <2> QED  BY <1>1, <2>1 DEF CountExact
  <1>5. AllReady' <=> AllReady  BY <1>1, Readiness
  <1>6. Quiet => Quiet'
    BY <1>1 DEF Quiet, NotCalled, LockAtRest, After_Spin, vars, callbackVars
  <1> QED  BY <1>2, <1>3, <1>4, <1>5, <1>6

LEMMA BarrierStep ==
  ASSUME BarrierInv, TimeoutWorkers = {}, [StartNext]_systemVars
  PROVE  BarrierInv'
  <1>1. CASE CreateThreads
    BY <1>1, CreateThreadsBarrier
  <1>2. ASSUME NEW w \in Workers, Serve(w) \/ Register(w) \/ MqttStart(w) PROVE BarrierInv'
    BY <1>2, WorkerStartBarrier
  <1>3. ASSUME NEW w \in Workers, HandlerStep(w) PROVE BarrierInv'
    BY <1>3, HandlerStepBarrier
  <1>4. ASSUME NEW w \in Workers, ControlStep(w) PROVE BarrierInv'
    BY <1>4, ControlStepBarrier
  <1>5. ASSUME NEW w \in Workers, LockStep(w) PROVE BarrierInv'
    BY <1>5, LockStepBarrier
  <1>6. CASE UNCHANGED systemVars
    <2>1. UNCHANGED <<vars, rpc, mqtt, ctl, sem_mqtt, sem_mqtt_ready, finished, mqtt_count>>
      BY <1>6 DEF systemVars, startVars, workerStartVars, handlerVars, threadVars
    <2> QED
      BY <2>1 DEF BarrierInv, StartTypes, Initialised, CountExact, Arrived, AllReady, Quiet,
                  NotCalled, LockAtRest, vars, callbackVars
  <1> QED  BY <1>1, <1>2, <1>3, <1>4, <1>5, <1>6 DEF StartNext

\* No MQTT message is published before every worker has its subscriptions: a
\* lost REQUEST or REPLY would leave its sender waiting for ever.
THEOREM SubscribersReady ==
  ASSUME TimeoutWorkers = {}
  PROVE  StartSpec => []MessagesHaveSubscribers
  <1>1. ASSUME BarrierInv, TypeOK PROVE MessagesHaveSubscribers
    <2> SUFFICES ASSUME NEW m \in messages PROVE mqtt[m.to] = "looping"
      BY DEF MessagesHaveSubscribers
    <2>1. m.to \in Workers  BY <1>1 DEF TypeOK, Messages
    <2> QED  BY <1>1, <2>1 DEF BarrierInv, Quiet, LockAtRest, AllReady
  <1>2. StartSpec => []BarrierInv
    BY BarrierInit, BarrierStep, PTL DEF StartSpec
  <1> QED  BY <1>1, <1>2, SystemImplementsLock, TypeCorrect, PTL DEF LockImplemented

\* A worker writes to the database the result of the task that its control
\* thread holds, with the flag lastChunk gave, and the thread holds the mutex.
THEOREM PostsCurrentTask == StartSpec => []PostIsCurrentTask
  <1>1. ASSUME SystemInv PROVE PostIsCurrentTask
    <2> SUFFICES ASSUME NEW w \in Workers, Sending(w)
                 PROVE  /\ task[w] # NoTask
                        /\ <<post[w].result_matrix, post[w].row, post[w].col>> =
                             <<task[w].result_matrix, task[w].row, task[w].col>>
                        /\ post[w].result
                             = ScalarProduct(task[w].matrix_chunk_a, task[w].matrix_chunk_b)
                        /\ store_holder = w
                        /\ post[w].last_chunk <=> (informed = NumberStores - 1)
      BY DEF PostIsCurrentTask, Sending
    <2>1. /\ ctl[w] = "store" /\ post[w] = PostOf(task[w]) /\ task[w] \in AllTasks
          /\ store_holder = w
      BY <1>1 DEF SystemInv, PostInv, Holds, CallFits, Calculated
    <2>2. task[w] # NoTask  BY <2>1 DEF AllTasks, ChunkTask, NoTask
    <2>3. /\ post[w].result_matrix = task[w].result_matrix /\ post[w].row = task[w].row
          /\ post[w].col = task[w].col /\ post[w].result = Dot(task[w])
          /\ post[w].last_chunk = IsLast
      BY <2>1 DEF PostOf
    <2>4. post[w].last_chunk <=> (informed = NumberStores - 1)
      BY <2>3, Zenon DEF IsLast
    <2> QED  BY <2>1, <2>2, <2>3, <2>4 DEF Dot
  <1> QED  BY <1>1, SystemInvariant, PTL
=============================================================================
