------------------------- MODULE WriteLockProperties -------------------------
(***************************************************************************)
(* What the workers' mutual exclusion guarantees, and its fairness.        *)
(***************************************************************************)
EXTENDS WriteLock

-----------------------------------------------------------------------------
(***************************************************************************)
(* Safety                                                                  *)
(***************************************************************************)

\* No two threads, of the same worker or of two, are between the replies to
\* their request and its end: one writes to the database or prints at a time.
Critical == {th \in Threads : pc[th] = "critical"}
MutualExclusion == \A s, t \in Critical : s = t

\* The Ricart-Agrawala algorithm gives the database to one worker at a time
\* (README.md:29), whatever its own threads do.
OneWorkerAtATime == \A s, t \in Critical : s[1] = t[1]

Waiting(p) == \E r \in Requesters : pc[<<p, r>>] = "waiting"

\* What q owes p: p's request on its way, being handled or deferred, or the
\* reply on its way.
One(b) == IF b THEN 1 ELSE 0
Travelling(p, q) ==
  {m \in messages : \/ m.type = "REQUEST" /\ m.from = p /\ m.to = q
                    \/ m.type = "REPLY" /\ m.from = q /\ m.to = p}
Handling(p, q) == callback[q] # "idle" /\ received[q].from = p
Deferred(p, q) == {i \in DOMAIN req_worker_numbers[q] : req_worker_numbers[q][i] = p}
Owed(p, q) == Cardinality(Travelling(p, q)) + Cardinality(Deferred(p, q)) + One(Handling(p, q))

\* Every reply is accounted for: while a thread of p waits, each other worker
\* owes exactly one reply or has been counted, and received_replies is their
\* number; no reply of an earlier request is left to be counted for this one.
RepliesAccounted ==
  \A p \in Workers :
    IF Waiting(p) /\ sem_write_database[p] = 0
    THEN LET owed == [q \in Workers \ {p} |-> Owed(p, q)] IN
         /\ \A q \in Workers \ {p} : owed[q] \in {0, 1}
         /\ received_replies[p] = Cardinality({q \in Workers \ {p} : owed[q] = 0})
    ELSE /\ received_replies[p] = 0
         /\ \A q \in Workers \ {p} : Owed(p, q) = 0

\* While no POST fails, two workers whose requests are both open never wait for
\* each other: a worker defers only requests that come after its own in the
\* total order of (Lamport time, worker number).
Before(p, q) ==
  \/ request_lamport_time[p] < request_lamport_time[q]
  \/ request_lamport_time[p] = request_lamport_time[q] /\ p < q
DeferredComeLater ==
  failures = 0 => \A p, q \in Workers :
    Deferred(p, q) # {} /\ Waiting(p)
      /\ (\E r \in Requesters : pc[<<q, r>>] \in {"waiting", "critical"})
    => Before(q, p)

\* A request is open only while a thread of the worker asks for, has or gives
\* back the access ("The request is now finished", worker.cpp:399).
OpenMeansRequesting ==
  \A p \in Workers :
    mqtt_request_open[p] =>
      \E r \in Requesters : pc[<<p, r>>] \in {"waiting", "critical", "respond"}

\* Only a failed POST leaves a request open (worker.cpp:532): neither the
\* callbacks nor the worker's other thread do.
OpenUntilFailure == failures = 0 => OpenMeansRequesting

-----------------------------------------------------------------------------
(***************************************************************************)
(* Liveness                                                                *)
(***************************************************************************)

\* Every thread of a worker is scheduled, messages are delivered, and the
\* database answers; the controller need not make its next call.
Fairness ==
  \A p \in Workers :
    WF_vars(CallbackStep(p)) /\ WF_vars(RpcStep(p)) /\ WF_vars(MainStep(p))

FairSpec == Spec /\ Fairness

\* While no POST fails, a worker that asks for the database gets it.
StoreRequestGranted ==
  [](failures = 0) =>
    \A p \in Workers : pc[<<p, "rpc">>] = "waiting" ~> pc[<<p, "rpc">>] = "critical"

\* A worker that has printed its results has answered the requests it
\* received, so every worker that asks to print gets its turn.
PrintRequestGranted ==
  \A p \in Workers : pc[<<p, "main">>] = "waiting" ~> pc[<<p, "main">>] = "critical"
=============================================================================
