---------------------------- MODULE Healthcheck ----------------------------
(***************************************************************************)
(* The healthchecks as datagrams: healthcheck() and the program loop of    *)
(* Controller/controller.cpp, and the responder thread of                  *)
(* Worker/worker.cpp.  A request is one byte with the worker's number      *)
(* modulo 127, an answer one with the number modulo 128; the controller    *)
(* does not look at the sender.  Datagrams may be late, overtake each      *)
(* other and get lost, but are not doubled.                                *)
(*                                                                         *)
(* A control thread may block its worker at any moment, when its           *)
(* sendTaskResult returns false.                                           *)
(***************************************************************************)
EXTENDS Integers

CONSTANTS
  NumberWorkers,     \* number_workers
  RequestModulus,    \* 127, HEALTHCHECK_MSG_WORKERNR
  AnswerModulus      \* 128

Workers == 0 .. NumberWorkers - 1

ASSUME HealthcheckAssumption ==
  /\ NumberWorkers \in Nat \ {0}
  /\ RequestModulus \in Nat \ {0}
  /\ AnswerModulus \in Nat \ {0}

WAITING_FOR_TASK == 0
BLOCKED == 2

Datagrams == [type : {"request", "answer"}, worker : Workers, byte : Nat]

VARIABLES
  main,             \* where the controller's main thread is
  hc_worker,        \* the loop variable of healthcheck()
  worker_status,
  datagrams,        \* sent to or by `worker` and not received
  stopped,          \* the workers that will never answer again
  given_up          \* history: the workers that did not answer in time

mainVars == <<main, hc_worker>>
vars == <<mainVars, worker_status, datagrams, stopped, given_up>>

TypeOK ==
  /\ main \in {"loop", "healthcheck", "await", "left"}
  /\ hc_worker \in 0 .. NumberWorkers
  /\ main = "await" => hc_worker \in Workers
  /\ worker_status \in [Workers -> {WAITING_FOR_TASK, BLOCKED}]
  /\ datagrams \subseteq Datagrams
  /\ stopped \subseteq Workers
  /\ given_up \subseteq Workers

Init ==
  /\ main = "loop"
  /\ hc_worker = 0
  /\ worker_status = [w \in Workers |-> WAITING_FOR_TASK]
  /\ datagrams = {}
  /\ stopped = {}
  /\ given_up = {}

RequestByte(w) == w % RequestModulus

\* Mutant: the byte is read as a signed number.
AnswerByte_Signed(w) == (w % AnswerModulus) - AnswerModulus

AnswerByte(w) == w % AnswerModulus

-----------------------------------------------------------------------------
(***************************************************************************)
(* The controller                                                          *)
(***************************************************************************)

\* HEALTHCHECK_PERIOD has passed.
StartHealthcheck ==
  /\ main = "loop"
  /\ main' = "healthcheck"
  /\ hc_worker' = 0
  /\ UNCHANGED <<worker_status, datagrams, stopped, given_up>>

\* The job is finished or the time is over.
LeaveLoop ==
  /\ main = "loop"
  /\ main' = "left"
  /\ UNCHANGED <<hc_worker, worker_status, datagrams, stopped, given_up>>

\* All workers were asked.
EndHealthcheck ==
  /\ main = "healthcheck"
  /\ hc_worker = NumberWorkers
  /\ main' = "loop"
  /\ UNCHANGED <<hc_worker, worker_status, datagrams, stopped, given_up>>

\* A blocked worker is not asked.
SkipBlocked ==
  /\ main = "healthcheck"
  /\ hc_worker \in Workers
  /\ worker_status[hc_worker] = BLOCKED
  /\ hc_worker' = hc_worker + 1
  /\ UNCHANGED <<main, worker_status, datagrams, stopped, given_up>>

\* Mutant: blocked workers are asked, too.
SendRequest_Blocked ==
  /\ main = "healthcheck"
  /\ hc_worker \in Workers
  /\ datagrams' = datagrams \cup
       {[type |-> "request", worker |-> hc_worker, byte |-> RequestByte(hc_worker)]}
  /\ main' = "await"
  /\ UNCHANGED <<hc_worker, worker_status, stopped, given_up>>

SendRequest ==
  /\ main = "healthcheck"
  /\ hc_worker \in Workers
  /\ worker_status[hc_worker] # BLOCKED
  /\ datagrams' = datagrams \cup
       {[type |-> "request", worker |-> hc_worker, byte |-> RequestByte(hc_worker)]}
  /\ main' = "await"
  /\ UNCHANGED <<hc_worker, worker_status, stopped, given_up>>

\* Mutant: any answer is taken for the one that is awaited.
ValidAnswer_Any(d) == TRUE

\* Any datagram with the awaited number is the answer, whoever sent it.
ValidAnswer(d) == d.byte = hc_worker % AnswerModulus

\* A valid answer overwrites the status with its status bit, which no worker
\* ever sets; after any other the controller waits again for the full time.
ReceiveAnswer ==
  /\ main = "await"
  /\ \E d \in datagrams :
       /\ d.type = "answer"
       /\ datagrams' = datagrams \ {d}
       /\ IF ValidAnswer(d)
          THEN /\ worker_status' = [worker_status EXCEPT ![hc_worker] = WAITING_FOR_TASK]
               /\ main' = "healthcheck"
               /\ hc_worker' = hc_worker + 1
          ELSE UNCHANGED <<mainVars, worker_status>>
  /\ UNCHANGED <<stopped, given_up>>

\* Mutant: the worker is not blocked.
ReceiveTimeout_NotBlocked ==
  /\ main = "await"
  /\ given_up' = given_up \cup {hc_worker}
  /\ main' = "healthcheck"
  /\ hc_worker' = hc_worker + 1
  /\ UNCHANGED <<worker_status, datagrams, stopped>>

\* Nothing was received for HEALTHCHECK_MAX_WAIT.
ReceiveTimeout ==
  /\ main = "await"
  /\ worker_status' = [worker_status EXCEPT ![hc_worker] = BLOCKED]
  /\ given_up' = given_up \cup {hc_worker}
  /\ main' = "healthcheck"
  /\ hc_worker' = hc_worker + 1
  /\ UNCHANGED <<datagrams, stopped>>

\* controlWorker: sendTaskResult returned false.
BlockAfterFailedStore(w) ==
  /\ worker_status' = [worker_status EXCEPT ![w] = BLOCKED]
  /\ UNCHANGED <<mainVars, datagrams, stopped, given_up>>

-----------------------------------------------------------------------------
(***************************************************************************)
(* The workers and the network                                             *)
(***************************************************************************)

\* A request with another worker's number is only reported.
Respond(w) ==
  /\ w \notin stopped
  /\ \E d \in datagrams :
       /\ d.type = "request" /\ d.worker = w
       /\ datagrams' = (datagrams \ {d}) \cup
            IF d.byte = RequestByte(w)
            THEN {[type |-> "answer", worker |-> w, byte |-> AnswerByte(w)]}
            ELSE {}
  /\ UNCHANGED <<mainVars, worker_status, stopped, given_up>>

\* The worker hangs, dies or has reached its PROGR_TIMEOUT.
Stop(w) ==
  /\ stopped' = stopped \cup {w}
  /\ UNCHANGED <<mainVars, worker_status, datagrams, given_up>>

Lose ==
  /\ \E d \in datagrams : datagrams' = datagrams \ {d}
  /\ UNCHANGED <<mainVars, worker_status, stopped, given_up>>

MainStep ==
  \/ StartHealthcheck \/ LeaveLoop \/ EndHealthcheck \/ SkipBlocked \/ SendRequest
  \/ ReceiveAnswer \/ ReceiveTimeout

Next ==
  \/ MainStep \/ Lose
  \/ \E w \in Workers : Respond(w) \/ Stop(w) \/ BlockAfterFailedStore(w)

Spec == Init /\ [][Next]_vars

-----------------------------------------------------------------------------
(***************************************************************************)
(* Properties                                                              *)
(***************************************************************************)

\* A worker that did not answer in time stays blocked: its answer may come
\* later, but nothing that arrives later makes it a healthy worker again.
GivenUpStaysBlocked == \A w \in given_up : worker_status[w] = BLOCKED

\* The answer that ends the waiting was sent by the worker that was asked, to
\* the request just sent: late answers to given up requests, which may come
\* while any other worker is asked, are never taken for it.
AnswersAreFresh ==
  [][\A d \in datagrams \ datagrams' :
       d.type = "answer" /\ main = "await" /\ main' = "healthcheck"
         => d.worker = hc_worker /\ hc_worker \notin given_up]_vars

\* healthcheck() blocks or asks each worker for ever; the period passes again
\* and again, and recv returns or times out.
FairSpec == Spec /\ WF_vars(MainStep)

\* A worker that has stopped is blocked in the end, late answers of its own or
\* of others notwithstanding, unless the controller's loop ends before.
StoppedIsBlocked ==
  \A w \in Workers : w \in stopped ~> (worker_status[w] = BLOCKED \/ main = "left")
=============================================================================
