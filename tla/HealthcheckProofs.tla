------------------------- MODULE HealthcheckProofs -------------------------
(***************************************************************************)
(* Proofs about Healthcheck: late answers are harmless as long as the      *)
(* seven bits of an answer tell all workers apart.                         *)
(*                                                                         *)
(* The argument: a worker that gave no answer in time is never asked       *)
(* again, and one that was not given up has at most one datagram under     *)
(* way, which belongs to the request that is awaited.                      *)
(***************************************************************************)
EXTENDS Healthcheck, TLAPS

\* A worker that is awaited was not given up before.
AwaitedIsNew == main = "await" => hc_worker \notin given_up

\* Only given up workers have datagrams that nobody waits for.
OthersAreLate ==
  \A d \in datagrams : d.worker \in given_up \/ (main = "await" /\ d.worker = hc_worker)

\* The awaited worker has one request or one answer under way.
OneUnderWay ==
  \A d, e \in datagrams : d.worker = e.worker /\ d.worker \notin given_up => d = e

AnswerBytes == \A d \in datagrams : d.type = "answer" => d.byte = AnswerByte(d.worker)

IInv == TypeOK /\ GivenUpStaysBlocked /\ AwaitedIsNew /\ OthersAreLate /\ OneUnderWay /\ AnswerBytes

-----------------------------------------------------------------------------

LEMMA Modulo ==
  ASSUME NEW m \in Nat \ {0}, NEW n \in Nat
  PROVE  n % m \in Nat /\ (n < m => n % m = n)
  OBVIOUS

LEMMA ByteTypes ==
  ASSUME NEW w \in Workers
  PROVE  RequestByte(w) \in Nat /\ AnswerByte(w) \in Nat
  BY Modulo, HealthcheckAssumption DEF Workers, RequestByte, AnswerByte

\* If there are not more workers than answer numbers, an answer is valid only
\* if it comes from the worker that was asked.
LEMMA ValidAnswerFromAsked ==
  ASSUME NumberWorkers <= AnswerModulus,
         TypeOK, AnswerBytes, hc_worker \in Workers,
         NEW d \in datagrams, d.type = "answer", ValidAnswer(d)
  PROVE  d.worker = hc_worker
  <1>1. d.worker \in Workers
    BY DEF TypeOK, Datagrams
  <1>2. d.worker % AnswerModulus = hc_worker % AnswerModulus
    BY DEF AnswerBytes, AnswerByte, ValidAnswer
  <1>3. \A w \in Workers : w \in Nat /\ w < AnswerModulus
    BY HealthcheckAssumption DEF Workers
  <1>. QED
    BY <1>1, <1>2, <1>3, Modulo, HealthcheckAssumption

LEMMA Initially == Init => IInv
  BY HealthcheckAssumption
  DEF Init, IInv, TypeOK, GivenUpStaysBlocked, AwaitedIsNew, OthersAreLate, OneUnderWay,
      AnswerBytes, Workers, WAITING_FOR_TASK

LEMMA Inductive ==
  ASSUME NumberWorkers <= AnswerModulus, IInv, [Next]_vars
  PROVE  IInv'
  <1>. USE HealthcheckAssumption
       DEF IInv, GivenUpStaysBlocked, AwaitedIsNew, OthersAreLate, OneUnderWay, AnswerBytes
  <1>1. CASE StartHealthcheck \/ LeaveLoop \/ EndHealthcheck \/ SkipBlocked
    <2>1. /\ UNCHANGED <<worker_status, datagrams, stopped, given_up>>
          /\ main' \in {"loop", "healthcheck", "left"}
          /\ hc_worker' \in 0 .. NumberWorkers
          /\ main # "await"
      BY <1>1 DEF StartHealthcheck, LeaveLoop, EndHealthcheck, SkipBlocked, TypeOK, Workers
    <2>2. TypeOK'
      BY <2>1 DEF TypeOK
    <2>. QED
      BY <2>1, <2>2
  <1>2. CASE SendRequest
    <2>1. TypeOK'
      BY <1>2, ByteTypes DEF SendRequest, TypeOK, Datagrams
    <2>2. hc_worker \notin given_up
      BY <1>2 DEF SendRequest
    <2>3. \A d \in datagrams : d.worker \in given_up
      BY <1>2 DEF SendRequest
    <2>. QED
      BY <1>2, <2>1, <2>2, <2>3 DEF SendRequest
  <1>3. CASE ReceiveAnswer
    <2>1. PICK d \in datagrams :
            /\ d.type = "answer"
            /\ datagrams' = datagrams \ {d}
            /\ IF ValidAnswer(d)
               THEN /\ worker_status' = [worker_status EXCEPT ![hc_worker] = WAITING_FOR_TASK]
                    /\ main' = "healthcheck"
                    /\ hc_worker' = hc_worker + 1
               ELSE UNCHANGED <<mainVars, worker_status>>
      BY <1>3 DEF ReceiveAnswer
    <2>2. main = "await" /\ hc_worker \in Workers /\ UNCHANGED <<stopped, given_up>>
      BY <1>3 DEF ReceiveAnswer, TypeOK
    <2>3. CASE ValidAnswer(d)
      <3>1. d.worker = hc_worker
        BY <2>1, <2>2, <2>3, ValidAnswerFromAsked
      <3>2. TypeOK'
        BY <2>1, <2>2, <2>3 DEF TypeOK, Workers, WAITING_FOR_TASK
      <3>3. \A e \in datagrams' : e.worker \in given_up
        BY <2>1, <2>2, <3>1
      <3>4. GivenUpStaysBlocked'
        BY <2>1, <2>2, <2>3 DEF TypeOK
      <3>. QED
        BY <2>1, <2>2, <2>3, <3>2, <3>3, <3>4
    <2>4. CASE ~ValidAnswer(d)
      BY <2>1, <2>2, <2>4 DEF TypeOK, mainVars
    <2>. QED
      BY <2>3, <2>4
  <1>4. CASE ReceiveTimeout
    <2>1. TypeOK'
      BY <1>4 DEF ReceiveTimeout, TypeOK, Workers, BLOCKED
    <2>2. GivenUpStaysBlocked'
      BY <1>4 DEF ReceiveTimeout, TypeOK
    <2>. QED
      BY <1>4, <2>1, <2>2 DEF ReceiveTimeout
  <1>5. CASE Lose
    BY <1>5 DEF Lose, TypeOK, mainVars
  <1>6. ASSUME NEW w \in Workers, Respond(w)
        PROVE  IInv'
    <2>1. PICK d \in datagrams :
            /\ d.worker = w
            /\ datagrams' = (datagrams \ {d}) \cup
                 IF d.byte = RequestByte(w)
                 THEN {[type |-> "answer", worker |-> w, byte |-> AnswerByte(w)]}
                 ELSE {}
      BY <1>6 DEF Respond
    <2>2. UNCHANGED <<main, hc_worker, worker_status, stopped, given_up>>
      BY <1>6 DEF Respond, mainVars
    <2>3. TypeOK'
      BY <2>1, <2>2, ByteTypes DEF TypeOK, Datagrams
    <2>4. OneUnderWay'
      BY <2>1, <2>2
    <2>. QED
      BY <2>1, <2>2, <2>3, <2>4
  <1>7. ASSUME NEW w \in Workers, Stop(w)
        PROVE  IInv'
    BY <1>7 DEF Stop, TypeOK, mainVars
  <1>8. ASSUME NEW w \in Workers, BlockAfterFailedStore(w)
        PROVE  IInv'
    BY <1>8 DEF BlockAfterFailedStore, TypeOK, mainVars, BLOCKED
  <1>9. CASE UNCHANGED vars
    BY <1>9 DEF vars, mainVars, TypeOK
  <1>. QED
    BY <1>1, <1>2, <1>3, <1>4, <1>5, <1>6, <1>7, <1>8, <1>9 DEF Next, MainStep

LEMMA Invariance ==
  ASSUME NumberWorkers <= AnswerModulus
  PROVE  Spec => []IInv
  <1>1. IInv /\ [Next]_vars => IInv'
    BY Inductive
  <1>. QED
    BY <1>1, Initially, PTL DEF Spec

-----------------------------------------------------------------------------

\* The variables keep their types (healthcheck(), controller.cpp:241).
THEOREM TypeCorrect ==
  ASSUME NumberWorkers <= AnswerModulus
  PROVE  Spec => []TypeOK
  <1>1. IInv => TypeOK
    BY DEF IInv
  <1>. QED
    BY <1>1, Invariance, PTL

\* A worker blocked for not answering a healthcheck stays blocked, whatever
\* arrives from it or from others later (controller.cpp:264-274).
THEOREM NoRevival ==
  ASSUME NumberWorkers <= AnswerModulus
  PROVE  Spec => []GivenUpStaysBlocked
  <1>1. IInv => GivenUpStaysBlocked
    BY DEF IInv
  <1>. QED
    BY <1>1, Invariance, PTL

\* The step's part of AnswersAreFresh.
LEMMA FreshStep ==
  ASSUME NumberWorkers <= AnswerModulus, IInv, [Next]_vars,
         NEW d \in datagrams \ datagrams', d.type = "answer",
         main = "await", main' = "healthcheck"
  PROVE  d.worker = hc_worker /\ hc_worker \notin given_up
  <1>1. hc_worker \notin given_up /\ hc_worker \in Workers
    BY DEF IInv, AwaitedIsNew, TypeOK
  <1>2. ReceiveAnswer
    BY DEF Next, MainStep, StartHealthcheck, LeaveLoop, EndHealthcheck, SkipBlocked, SendRequest,
           ReceiveTimeout, Lose, Respond, Stop, BlockAfterFailedStore, vars, mainVars
  <1>3. ValidAnswer(d)
    BY <1>2 DEF ReceiveAnswer, mainVars
  <1>. QED
    BY <1>1, <1>3, ValidAnswerFromAsked DEF IInv

\* The answer that ends the waiting for a worker was sent by that worker, to
\* the request just sent (controller.cpp:271).
THEOREM FreshAnswers ==
  ASSUME NumberWorkers <= AnswerModulus
  PROVE  Spec => AnswersAreFresh
  <1>1. IInv /\ [Next]_vars =>
          [\A d \in datagrams \ datagrams' :
             d.type = "answer" /\ main = "await" /\ main' = "healthcheck"
               => d.worker = hc_worker /\ hc_worker \notin given_up]_vars
    BY FreshStep
  <1>. QED
    BY <1>1, Invariance, PTL DEF Spec, AnswersAreFresh
=============================================================================
