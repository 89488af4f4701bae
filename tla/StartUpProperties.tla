------------------------- MODULE StartUpProperties -------------------------
(***************************************************************************)
(* What the start-up and the RPCs guarantee the workers' mutual exclusion; *)
(* the properties of WriteLock must hold for the requests that the         *)
(* controller's threads cause, too.                                        *)
(***************************************************************************)
EXTENDS StartUp, WriteLockProperties

\* Every MQTT message has a subscriber: no worker sends a REQUEST, and none
\* can be answered, before each addressee has asked the broker for its topics
\* ("Wait until all workers are ready", controller.cpp:315).  A message sent
\* earlier would be lost and its sender wait for ever.
MessagesHaveSubscribers == \A m \in messages : mqtt[m.to] = "looping"

\* What a worker writes to the database is the task its control thread holds:
\* the handler keeps current_task between two calls (RPCImplementation.h:49-68),
\* the thread holds mutex_store_result, and the flag Last-Chunk is the one that
\* lastChunk would return now.
PostIsCurrentTask ==
  \A w \in Workers : pc[<<w, "rpc">>] # "idle" =>
    /\ task[w] # NoTask
    /\ <<post[w].result_matrix, post[w].row, post[w].col>> =
         <<task[w].result_matrix, task[w].row, task[w].col>>
    /\ post[w].result = ScalarProduct(task[w].matrix_chunk_a, task[w].matrix_chunk_b)
    /\ store_holder = w
    /\ post[w].last_chunk <=> (informed = NumberStores - 1)

\* The system implements WriteLock, whose guards no code of a worker tests: the
\* controller's threads, with mutex_store_result (controller.cpp:379) and the
\* pool's tasks, call sendTaskResult on one worker at a time and only while
\* results are missing, and calculationIsFinished only when none is.
LockImplemented == Spec

-----------------------------------------------------------------------------

\* All threads are scheduled, the registrations arrive, the broker and the
\* database answer.
StartFairness ==
  /\ WF_systemVars(CreateThreads)
  /\ \A w \in Workers :
       /\ WF_systemVars(Serve(w)) /\ WF_systemVars(Register(w)) /\ WF_systemVars(MqttStart(w))
       /\ WF_systemVars(HandlerStep(w)) /\ WF_systemVars(ControlStep(w))
       /\ WF_systemVars(mqtt[w] = "looping" /\ CallbackStep(w) /\ UNCHANGED <<rpc, startVars>>)
       /\ WF_systemVars(RpcStep(w) /\ UNCHANGED <<rpc, startVars>>)
       /\ WF_systemVars(MainStep(w) /\ UNCHANGED <<rpc, startVars>>)

StartFairSpec == StartSpec /\ StartFairness

\* Every control thread passes the barrier, and its worker gets tasks, if every
\* worker reaches the broker and no connection to a worker is refused.
AllStart ==
  [](controller_up /\ \A w \in Workers : mqtt[w] # "failed") =>
    \A w \in Workers : <>(ctl[w] = "loop")
=============================================================================
