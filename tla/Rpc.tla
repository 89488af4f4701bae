-------------------------------- MODULE Rpc --------------------------------
(***************************************************************************)
(* The remote procedure calls (RPC/RPCSendMatrixTasks.thrift and the code  *)
(* the Thrift compiler made of it, gen-cpp): for each worker one           *)
(* connection between the client of its control thread and its server,     *)
(* which handles one call at a time.  The client sends the call and reads  *)
(* the reply before it does anything else.                                 *)
(*                                                                         *)
(* A struct on the wire is the sequence of its fields, each with number and *)
(* type; a list is the sequence of its elements.                           *)
(*                                                                         *)
(* The branches for exceptions, other message types, unknown methods and   *)
(* missing results stand in the code for peers that do not agree on the    *)
(* file; no handler throws.  A broken connection is part of Controller.    *)
(***************************************************************************)
EXTENDS Integers, SequencesExt

VARIABLE rpc    \* for each worker: see Connection

\* The connection's client waits for method's reply; request and reply travel,
\* handler is what the server executes.
Connection(open, method, request, handler, reply) ==
  [open |-> open, method |-> method, request |-> request, handler |-> handler, reply |-> reply]

Message(name, type, fields) == [name |-> name, type |-> type, fields |-> fields]
Nothing == Message("none", "none", <<>>)
Closed == Connection(FALSE, "none", Nothing, "none", Nothing)
Opened == Connection(TRUE, "none", Nothing, "none", Nothing)

-----------------------------------------------------------------------------
(***************************************************************************)
(* Structs                                                                 *)
(***************************************************************************)

Field(fid, ftype, value) == [fid |-> fid, ftype |-> ftype, value |-> value]

\* A reader takes a field it knows by number and type, the last one if there
\* are several, and skips all others; 0 if there is none.
FieldPosition(wire, fid, ftype) ==
  SelectLastInSeq(wire, LAMBDA f : f.fid = fid /\ f.ftype = ftype)
isset(wire, fid, ftype) == FieldPosition(wire, fid, ftype) # 0
ReadField(wire, fid, ftype) == wire[FieldPosition(wire, fid, ftype)].value

RPCMatrixTask_write(t) ==
  <<Field(1, "T_I32", t.result_matrix), Field(2, "T_I64", t.row), Field(3, "T_I64", t.col),
    Field(4, "T_LIST", t.matrix_chunk_a), Field(5, "T_LIST", t.matrix_chunk_b)>>
RPCMatrixTask_read(wire) ==
  [result_matrix |-> ReadField(wire, 1, "T_I32"),
   row |-> ReadField(wire, 2, "T_I64"), col |-> ReadField(wire, 3, "T_I64"),
   matrix_chunk_a |-> ReadField(wire, 4, "T_LIST"), matrix_chunk_b |-> ReadField(wire, 5, "T_LIST")]

\* The arguments of each method, and its result in field 0.
calcTask_args_write(rpc_matrix_task) ==
  <<Field(1, "T_STRUCT", RPCMatrixTask_write(rpc_matrix_task))>>
calcTask_args_read(wire) == RPCMatrixTask_read(ReadField(wire, 1, "T_STRUCT"))
calcTask_result_write(success) == <<Field(0, "T_BOOL", success)>>
calcTask_result_read(wire) == ReadField(wire, 0, "T_BOOL")

sendTaskResult_args_write(last_chunk) == <<Field(1, "T_BOOL", last_chunk)>>
sendTaskResult_args_read(wire) == ReadField(wire, 1, "T_BOOL")
sendTaskResult_result_write(success) == <<Field(0, "T_BOOL", success)>>
sendTaskResult_result_read(wire) == ReadField(wire, 0, "T_BOOL")

isMQTTInitialized_args_write == <<>>
isMQTTInitialized_result_write(success) == <<Field(0, "T_BOOL", success)>>
isMQTTInitialized_result_read(wire) == ReadField(wire, 0, "T_BOOL")

MQTTReady_args_write == <<>>
MQTTReady_result_write == <<>>
calculationIsFinished_args_write == <<>>
calculationIsFinished_result_write == <<>>

-----------------------------------------------------------------------------
(***************************************************************************)
(* The client                                                              *)
(***************************************************************************)

writeCall(w, name, args) ==
  /\ rpc[w].open /\ rpc[w].method = "none"
  /\ rpc' = [rpc EXCEPT ![w].method = name, ![w].request = Message(name, "T_CALL", args)]

send_calcTask(w, rpc_matrix_task) ==
  writeCall(w, "calcTask", calcTask_args_write(rpc_matrix_task))
send_sendTaskResult(w, last_chunk) ==
  writeCall(w, "sendTaskResult", sendTaskResult_args_write(last_chunk))
send_isMQTTInitialized(w) == writeCall(w, "isMQTTInitialized", isMQTTInitialized_args_write)
send_MQTTReady(w) == writeCall(w, "MQTTReady", MQTTReady_args_write)
send_calculationIsFinished(w) ==
  writeCall(w, "calculationIsFinished", calculationIsFinished_args_write)

\* Only a reply of the called method is taken.
readReply(w, method) ==
  /\ rpc[w].method = method
  /\ rpc[w].reply.type = "T_REPLY" /\ rpc[w].reply.name = method
  /\ rpc' = [rpc EXCEPT ![w].method = "none", ![w].reply = Nothing]

\* A method with a result returns it, if it is set.
HasSuccess(w) == isset(rpc[w].reply.fields, 0, "T_BOOL")

recv_calcTask(w, success) ==
  /\ readReply(w, "calcTask")
  /\ HasSuccess(w) /\ success = calcTask_result_read(rpc[w].reply.fields)
recv_sendTaskResult(w, success) ==
  /\ readReply(w, "sendTaskResult")
  /\ HasSuccess(w) /\ success = sendTaskResult_result_read(rpc[w].reply.fields)
recv_isMQTTInitialized(w, success) ==
  /\ readReply(w, "isMQTTInitialized")
  /\ HasSuccess(w) /\ success = isMQTTInitialized_result_read(rpc[w].reply.fields)
recv_MQTTReady(w) == readReply(w, "MQTTReady")
recv_calculationIsFinished(w) == readReply(w, "calculationIsFinished")

-----------------------------------------------------------------------------
(***************************************************************************)
(* The server                                                              *)
(***************************************************************************)

\* The processor finds the method by the name of the message.
dispatchCall(w, name) ==
  rpc[w].request.type = "T_CALL" /\ rpc[w].request.name = name /\ rpc[w].handler = "none"

\* The handler has returned, or returns in this step.
writeReply(w, name, result) ==
  rpc' = [rpc EXCEPT ![w].request = Nothing, ![w].handler = "none",
                     ![w].reply = Message(name, "T_REPLY", result)]

process_calcTask(w, success) ==
  dispatchCall(w, "calcTask") /\ writeReply(w, "calcTask", calcTask_result_write(success))
process_isMQTTInitialized(w, success) ==
  /\ dispatchCall(w, "isMQTTInitialized")
  /\ writeReply(w, "isMQTTInitialized", isMQTTInitialized_result_write(success))
process_MQTTReady(w) ==
  dispatchCall(w, "MQTTReady") /\ writeReply(w, "MQTTReady", MQTTReady_result_write)
process_calculationIsFinished(w) ==
  /\ dispatchCall(w, "calculationIsFinished")
  /\ writeReply(w, "calculationIsFinished", calculationIsFinished_result_write)

\* sendTaskResult takes time: the call is taken, and later answered.
process_sendTaskResult(w) ==
  /\ dispatchCall(w, "sendTaskResult")
  /\ rpc' = [rpc EXCEPT ![w].request = Nothing, ![w].handler = "sendTaskResult"]

return_sendTaskResult(w, success) ==
  /\ rpc[w].handler = "sendTaskResult"
  /\ writeReply(w, "sendTaskResult", sendTaskResult_result_write(success))
=============================================================================
