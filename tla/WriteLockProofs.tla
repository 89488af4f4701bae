-------------------------- MODULE WriteLockProofs --------------------------
(***************************************************************************)
(* Proofs about WriteLock, for any number of workers and results, any      *)
(* failed POSTs, and as long as no worker's PROGR_TIMEOUT passes: with it  *)
(* mutual exclusion does not hold.                                         *)
(*                                                                         *)
(* The argument has three parts.  The controller's mutex_store_result      *)
(* keeps the RPC threads apart from each other and, since main asks only   *)
(* when all is stored, from the main threads (Phases).  For each pair of   *)
(* workers a request is in one place at a time until its reply is counted, *)
(* and all replies are counted before sem_write_database is posted         *)
(* (Accounted).  So a thread in its critical section was answered by all   *)
(* others, and who answers while it has a request of its own comes later   *)
(* in the order of Lamport times and worker numbers (Ordered).             *)
(***************************************************************************)
EXTENDS WriteLockProperties, FiniteSetTheorems, TLAPS

-----------------------------------------------------------------------------
(***************************************************************************)
(* The inductive invariant                                                 *)
(***************************************************************************)

\* Nobody sends messages to itself.
NoSelf ==
  /\ \A m \in messages : m.from # m.to
  /\ \A p \in Workers : callback[p] # "idle" => received[p].from # p
  /\ \A p \in Workers : \A i \in DOMAIN req_worker_numbers[p] : req_worker_numbers[p][i] # p

Idle(p, r) == pc[<<p, r>>] = "idle"

\* While results are left, one RPC thread is at work; then the main threads.
Phases ==
  /\ \A p, q \in Workers : ~Idle(p, "rpc") /\ ~Idle(q, "rpc") => p = q
  /\ \A p \in Workers : ~Idle(p, "rpc") => stores_left > 0
  /\ \A p \in Workers : ~Idle(p, "main") => stores_left = 0

\* m is p's request to q, or q's reply.
Between(m, p, q) ==
  \/ m.type = "REQUEST" /\ m.from = p /\ m.to = q
  \/ m.type = "REPLY" /\ m.from = q /\ m.to = p
OnTheWay(p, q) == \E m \in messages : Between(m, p, q)
Queued(p, q) == \E i \in DOMAIN req_worker_numbers[q] : req_worker_numbers[q][i] = p
IsOwed(p, q) == OnTheWay(p, q) \/ Handling(p, q) \/ Queued(p, q)
Counted(p) == {q \in Workers \ {p} : ~IsOwed(p, q)}

\* p's request to q, or its reply, is in one place.
OncePerPair ==
  /\ \A p, q \in Workers : \A m, n \in messages : Between(m, p, q) /\ Between(n, p, q) => m = n
  /\ \A p, q \in Workers : OnTheWay(p, q) => ~Handling(p, q) /\ ~Queued(p, q)
  /\ \A p, q \in Workers : Handling(p, q) => ~Queued(p, q)
  /\ \A q \in Workers : \A i, j \in DOMAIN req_worker_numbers[q] :
       req_worker_numbers[q][i] = req_worker_numbers[q][j] => i = j

Asking(p) == Waiting(p) /\ sem_write_database[p] = 0

\* While a worker asks, received_replies is the number of those who owe it
\* nothing any more; otherwise nobody owes it anything.
Account(p) ==
  /\ sem_write_database[p] \in {0, 1}
  /\ sem_write_database[p] = 1 => Waiting(p)
  /\ Asking(p) => received_replies[p] = Cardinality(Counted(p))
  /\ ~Asking(p) => received_replies[p] = 0 /\ \A q \in Workers : ~IsOwed(p, q)
Accounted == \A p \in Workers : Account(p)

\* A request that is on its way or handled carries its worker's current time.
CurrentTimes ==
  /\ \A m \in messages : m.type = "REQUEST" => m.lamport = request_lamport_time[m.from]
  /\ \A q \in Workers :
       callback[q] # "idle" => received[q].lamport = request_lamport_time[received[q].from]

MainRequests(p) == pc[<<p, "main">>] \in {"waiting", "critical"}

Unheard(p, q) == \E m \in messages : m.type = "REQUEST" /\ m.from = p /\ m.to = q
Pending(p, q) ==
  \/ Unheard(p, q)
  \/ Handling(p, q) /\ callback[q] \in {"request", "compare", "queue"}
  \/ Queued(p, q)

\* Who has heard of a request, makes a later one; who has answered it while
\* asking, comes after it.
Ordered ==
  \A p, q \in Workers : p # q /\ MainRequests(p) =>
    /\ mqtt_request_open[p]
    /\ request_lamport_time[p] \in Nat
    /\ ~Unheard(p, q) => lamport_time[q] > request_lamport_time[p]
    /\ MainRequests(q) /\ ~Pending(p, q) => Before(p, q)

IInv == TypeOK /\ NoSelf /\ Phases /\ OncePerPair /\ Accounted /\ CurrentTimes /\ Ordered

\* If no POST fails, only main threads hold requests back, and only later ones.
Deferring(p, q) == Queued(p, q) \/ (Handling(p, q) /\ callback[q] = "queue")
Holding(p, q) == Deferring(p, q) \/ (Handling(p, q) /\ callback[q] = "compare")
MainsHold == \A p, q \in Workers : Holding(p, q) => ~Idle(q, "main")
LaterDeferred == \A p, q \in Workers : Deferring(p, q) /\ MainRequests(q) => Before(q, p)
DeferredLater == OpenMeansRequesting /\ MainsHold /\ LaterDeferred

-----------------------------------------------------------------------------
(***************************************************************************)
(* Facts about messages, queues and counting                               *)
(***************************************************************************)

\* What a callback that is busy handles is a request to its worker.
LEMMA HandledRequest ==
  ASSUME TypeOK, NEW p \in Workers, callback[p] # "idle"
  PROVE  /\ received[p] \in Messages
         /\ received[p].type = "REQUEST"
         /\ received[p].to = p
         /\ received[p].from \in Workers
         /\ received[p].lamport \in Nat
  <1>1. received[p] \in Messages \cup {NoMessage} /\ received[p].type = "REQUEST"
    BY DEF TypeOK
  <1>2. NoMessage.type # "REQUEST"  BY DEF NoMessage
  <1>3. received[p] \in Messages  BY <1>1, <1>2
  <1> QED  BY <1>1, <1>3 DEF TypeOK, Messages

\* What stands in a queue after a request was appended.
LEMMA AppendFacts ==
  ASSUME NEW S, NEW s \in Seq(S), NEW x \in S
  PROVE  /\ Append(s, x) \in Seq(S)
         /\ DOMAIN Append(s, x) = 1 .. Len(s) + 1
         /\ DOMAIN s = 1 .. Len(s)
         /\ Len(s) \in Nat
         /\ Append(s, x)[Len(s) + 1] = x
         /\ \A i \in 1 .. Len(s) : Append(s, x)[i] = s[i]
  OBVIOUS

\* What stands in a queue after its head was removed.
LEMMA TailFacts ==
  ASSUME NEW S, NEW s \in Seq(S), s # <<>>
  PROVE  /\ Head(s) \in S
         /\ Head(s) = s[1]
         /\ Tail(s) \in Seq(S)
         /\ Len(s) \in Nat \ {0}
         /\ DOMAIN s = 1 .. Len(s)
         /\ DOMAIN Tail(s) = 1 .. Len(s) - 1
         /\ \A i \in 1 .. Len(s) - 1 : Tail(s)[i] = s[i + 1]
  OBVIOUS

\* The workers are a finite set, N in number.
LEMMA WorkersFinite ==
  IsFiniteSet(Workers) /\ Cardinality(Workers) = NumberWorkers
  <1>1. 0 \in Int /\ NumberWorkers - 1 \in Int  BY WriteLockAssumption
  <1> QED  BY <1>1, FS_Interval, WriteLockAssumption DEF Workers

\* A worker that q still owes a reply has counted at most all others.
LEMMA CountedOthers ==
  ASSUME NEW p \in Workers, NEW q \in Workers, p # q,
         NEW C, C \subseteq Workers \ {p}, q \notin C
  PROVE  /\ IsFiniteSet(C)
         /\ Cardinality(C) \in Nat
         /\ Cardinality(C) < NumberWorkers - 1
         /\ Cardinality(C \cup {q}) = Cardinality(C) + 1
         /\ Cardinality(C) + 1 = NumberWorkers - 1 => C \cup {q} = Workers \ {p}
  <1> DEFINE Others == Workers \ {p}
             D == C \cup {q}
  <1>1. IsFiniteSet(Others) /\ Cardinality(Others) = NumberWorkers - 1
    BY WorkersFinite, FS_RemoveElement
  <1>2. IsFiniteSet(C) /\ Cardinality(C) \in Nat
    BY <1>1, FS_Subset, FS_CardinalityType
  <1>3. IsFiniteSet(D) /\ Cardinality(D) = Cardinality(C) + 1
    BY <1>2, FS_AddElement
  <1>4. D \subseteq Others  OBVIOUS
  <1>5. Cardinality(D) <= Cardinality(Others) /\ (Cardinality(D) = Cardinality(Others) => D = Others)
    <2> HIDE DEF D, Others
    <2> QED  BY <1>1, <1>4, FS_Subset
  <1> QED  BY <1>1, <1>2, <1>3, <1>5, WriteLockAssumption

\* A worker's account stays as it is when nothing in it changes.
LEMMA AccountUnchanged ==
  ASSUME NEW s \in Workers, Account(s),
         \A q \in Workers : IsOwed(s, q)' <=> IsOwed(s, q),
         sem_write_database'[s] = sem_write_database[s],
         received_replies'[s] = received_replies[s],
         Waiting(s)' <=> Waiting(s)
  PROVE  Account(s)'
  <1>1. Counted(s)' = Counted(s)  BY DEF Counted
  <1>2. Asking(s)' <=> Asking(s)  BY DEF Asking
  <1> QED  BY <1>1, <1>2 DEF Account

-----------------------------------------------------------------------------
(***************************************************************************)
(* The steps of the callback                                               *)
(***************************************************************************)

\* The callback of a worker whose main thread requests finds its request open.
LEMMA ReadRequestOpenStep ==
  ASSUME IInv, NEW p \in Workers, ReadRequestOpen(p)
  PROVE  IInv'
  <1> USE DEF IInv, ReadRequestOpen, lockVars, controllerVars
  <1>1. TypeOK'  BY DEF TypeOK, CallbackStates
  <1>2. \A s, t \in Workers :
          /\ OnTheWay(s, t)' <=> OnTheWay(s, t)
          /\ Handling(s, t)' <=> Handling(s, t)
          /\ Queued(s, t)' <=> Queued(s, t)
    BY DEF TypeOK, OnTheWay, Between, Handling, Queued
  <1>3. NoSelf'  BY DEF NoSelf, TypeOK
  <1>4. Phases'  BY DEF Phases, Idle
  <1>5. OncePerPair'  BY <1>2 DEF OncePerPair, Between
  <1>6. Accounted'
    BY <1>2, AccountUnchanged DEF Accounted, IsOwed, Waiting
  <1>7. CurrentTimes'  BY DEF CurrentTimes, TypeOK
  <1>8. Ordered'
    <2> SUFFICES ASSUME NEW s \in Workers, NEW t \in Workers, s # t, MainRequests(s)
                 PROVE  /\ mqtt_request_open[s]
                        /\ request_lamport_time[s] \in Nat
                        /\ ~Unheard(s, t) => lamport_time[t] > request_lamport_time[s]
                        /\ MainRequests(t) /\ ~Pending(s, t)' => Before(s, t)
      BY DEF Ordered, MainRequests, Unheard, Before
    <2>1. MainRequests(t) => mqtt_request_open[t]  BY DEF Ordered
    <2>2. MainRequests(t) /\ Pending(s, t) => Pending(s, t)'
      BY <2>1, <1>2 DEF Pending, Unheard, TypeOK
    <2> QED  BY <2>2 DEF Ordered
  <1> QED  BY <1>1, <1>3, <1>4, <1>5, <1>6, <1>7, <1>8

\* The comparison in the callback is the order of the requests.
LEMMA AnswerMeansLater ==
  ASSUME TypeOK, NEW s \in Workers, NEW t \in Workers,
         received[t].from = s, received[t].lamport = request_lamport_time[s]
  PROVE  /\ ReceivedGoesFirst(t) => Before(s, t)
         /\ ~ReceivedGoesFirst(t) /\ s # t => Before(t, s)
  <1>1. /\ s \in Int /\ t \in Int
        /\ request_lamport_time[s] \in Int /\ request_lamport_time[t] \in Int
    <2>1. s \in Int /\ t \in Int  BY DEF Workers
    <2>2. request_lamport_time \in [Workers -> Nat \cup {-1}]  BY DEF TypeOK
    <2>3. \A n \in Nat \cup {-1} : n \in Int  OBVIOUS
    <2> QED  BY <2>1, <2>2, <2>3
  <1>2. ASSUME NEW a \in Int, NEW b \in Int, NEW x \in Int, NEW y \in Int
        PROVE  (b > a \/ (b = a /\ y > x)) \/ x = y \/ (b < a \/ (b = a /\ y < x))
    OBVIOUS
  <1>3. ReceivedGoesFirst(t) => Before(s, t)
    BY <1>1 DEF ReceivedGoesFirst, Before
  <1>4. ~ReceivedGoesFirst(t) /\ s # t => Before(t, s)
    BY <1>1, <1>2 DEF ReceivedGoesFirst, Before
  <1> QED  BY <1>3, <1>4

\* A worker that answers while it asks has compared: it comes later.
LEMMA CompareRequestsStep ==
  ASSUME IInv, NEW p \in Workers, CompareRequests(p)
  PROVE  IInv'
  <1> USE DEF IInv, CompareRequests, lockVars, controllerVars
  <1>1. TypeOK'  BY DEF TypeOK, CallbackStates
  <1>2. \A s, t \in Workers :
          /\ OnTheWay(s, t)' <=> OnTheWay(s, t)
          /\ Handling(s, t)' <=> Handling(s, t)
          /\ Queued(s, t)' <=> Queued(s, t)
    BY DEF TypeOK, OnTheWay, Between, Handling, Queued
  <1>3. NoSelf'  BY DEF NoSelf, TypeOK
  <1>4. Phases'  BY DEF Phases, Idle
  <1>5. OncePerPair'  BY <1>2 DEF OncePerPair, Between
  <1>6. Accounted'
    BY <1>2, AccountUnchanged DEF Accounted, IsOwed, Waiting
  <1>7. CurrentTimes'  BY DEF CurrentTimes, TypeOK
  <1>8. Ordered'
    <2> SUFFICES ASSUME NEW s \in Workers, NEW t \in Workers, s # t, MainRequests(s)
                 PROVE  /\ mqtt_request_open[s]
                        /\ request_lamport_time[s] \in Nat
                        /\ ~Unheard(s, t) => lamport_time[t] > request_lamport_time[s]
                        /\ MainRequests(t) /\ ~Pending(s, t)' => Before(s, t)
      BY DEF Ordered, MainRequests, Unheard, Before
    <2>1. CASE t = p /\ Handling(s, t) /\ ReceivedGoesFirst(p)
      <3>1. received[t].from = s /\ received[t].lamport = request_lamport_time[s]
        BY <2>1 DEF CurrentTimes, Handling
      <3>2. Before(s, t)  BY <2>1, <3>1, AnswerMeansLater
      <3> QED  BY <3>2 DEF Ordered
    <2>2. CASE ~(t = p /\ Handling(s, t) /\ ReceivedGoesFirst(p))
      <3>1. Pending(s, t) => Pending(s, t)'
        BY <2>2, <1>2 DEF Pending, Unheard, TypeOK
      <3> QED  BY <3>1 DEF Ordered
    <2> QED  BY <2>1, <2>2
  <1> QED  BY <1>1, <1>3, <1>4, <1>5, <1>6, <1>7, <1>8

\* A request that is queued remains owed and pending.
LEMMA QueueRequestStep ==
  ASSUME IInv, NEW p \in Workers, QueueRequest(p)
  PROVE  IInv'
  <1> DEFINE f == received[p].from
             s0 == req_worker_numbers[p]
  <1> USE DEF IInv, QueueRequest, Return, controllerVars
  <1>f. f \in Workers /\ f # p /\ Handling(f, p) /\ s0 \in Seq(Workers)
    BY HandledRequest DEF NoSelf, Handling, TypeOK
  <1>a. /\ req_worker_numbers'[p] = Append(s0, f)
        /\ Append(s0, f) \in Seq(Workers)
        /\ DOMAIN Append(s0, f) = 1 .. Len(s0) + 1
        /\ DOMAIN s0 = 1 .. Len(s0)
        /\ Len(s0) \in Nat
        /\ Append(s0, f)[Len(s0) + 1] = f
        /\ \A i \in 1 .. Len(s0) : Append(s0, f)[i] = s0[i]
    <2>1. req_worker_numbers'[p] = Append(s0, f)  BY DEF TypeOK
    <2> QED  BY <1>f, <2>1, AppendFacts
  <1>b. \A q \in Workers \ {p} : req_worker_numbers'[q] = req_worker_numbers[q]
    BY DEF TypeOK
  <1>1. TypeOK'
    <2>1. req_worker_numbers' \in [Workers -> Seq(Workers)]  BY <1>a DEF TypeOK
    <2>2. /\ callback' \in [Workers -> CallbackStates]
          /\ received' \in [Workers -> Messages \cup {NoMessage}]
          /\ \A q \in Workers : IF callback'[q] = "idle"
                                THEN received'[q] = NoMessage
                                ELSE received'[q].type = "REQUEST" /\ received'[q].to = q
      BY DEF TypeOK, CallbackStates
    <2> QED  BY <2>1, <2>2 DEF TypeOK
  <1>2. \A s, t \in Workers : OnTheWay(s, t)' <=> OnTheWay(s, t)
    BY DEF OnTheWay, Between
  <1>3. \A s, t \in Workers : Handling(s, t)' <=> Handling(s, t) /\ t # p
    BY DEF Handling, TypeOK
  <1>4. \A s, t \in Workers : Queued(s, t)' <=> Queued(s, t) \/ (t = p /\ s = f)
    <2>1. \A s \in Workers : Queued(s, p)' <=> Queued(s, p) \/ s = f
      <3> SUFFICES ASSUME NEW s \in Workers
                   PROVE  (\E i \in 1 .. Len(s0) + 1 : Append(s0, f)[i] = s)
                            <=> (\E i \in 1 .. Len(s0) : s0[i] = s) \/ s = f
        BY <1>a DEF Queued
      <3> HIDE DEF f, s0
      <3>1. \A i \in 1 .. Len(s0) + 1 : i \in 1 .. Len(s0) \/ i = Len(s0) + 1
        BY <1>a
      <3>2. (\A i \in 1 .. Len(s0) : i \in 1 .. Len(s0) + 1) /\ Len(s0) + 1 \in 1 .. Len(s0) + 1
        BY <1>a
      <3> QED  BY <1>a, <3>1, <3>2
    <2> QED  BY <2>1, <1>b DEF Queued
  <1>5. \A s \in Workers : Handling(s, p) => s = f  BY DEF Handling
  <1>6. NoSelf'
    <2>1. \A i \in DOMAIN req_worker_numbers'[p] : req_worker_numbers'[p][i] # p
      BY <1>4, <1>f DEF NoSelf, Queued
    <2> QED  BY <2>1, <1>b DEF NoSelf, TypeOK
  <1>7. Phases'  BY DEF Phases, Idle
  <1>8. OncePerPair'
    <2>1. \A i, j \in DOMAIN req_worker_numbers'[p] :
            req_worker_numbers'[p][i] = req_worker_numbers'[p][j] => i = j
      <3>1. \A i \in 1 .. Len(s0) : s0[i] # f
        BY <1>a, <1>f DEF OncePerPair, Queued
      <3>2. \A i, j \in 1 .. Len(s0) : s0[i] = s0[j] => i = j
        BY <1>a DEF OncePerPair
      <3> HIDE DEF f, s0
      <3>3. \A i \in 1 .. Len(s0) + 1 : i \in 1 .. Len(s0) \/ i = Len(s0) + 1
        BY <1>a
      <3> QED  BY <1>a, <3>1, <3>2, <3>3
    <2>2. \A q \in Workers : \A i, j \in DOMAIN req_worker_numbers'[q] :
            req_worker_numbers'[q][i] = req_worker_numbers'[q][j] => i = j
      BY <2>1, <1>b DEF OncePerPair
    <2>3. \A s, t \in Workers : OnTheWay(s, t)' => ~Handling(s, t)' /\ ~Queued(s, t)'
      BY <1>2, <1>3, <1>4, <1>f DEF OncePerPair
    <2>4. \A s, t \in Workers : Handling(s, t)' => ~Queued(s, t)'
      BY <1>3, <1>4 DEF OncePerPair
    <2>5. \A s, t \in Workers : \A m, n \in messages' :
            Between(m, s, t) /\ Between(n, s, t) => m = n
      BY DEF OncePerPair
    <2> QED  BY <2>2, <2>3, <2>4, <2>5 DEF OncePerPair, Between
  <1>9. Accounted'
    <2>1. \A s, t \in Workers : IsOwed(s, t)' <=> IsOwed(s, t)
      BY <1>2, <1>3, <1>4, <1>5, <1>f DEF IsOwed
    <2> QED  BY <2>1, AccountUnchanged DEF Accounted, Waiting
  <1>10. CurrentTimes'  BY DEF CurrentTimes, TypeOK
  <1>11. Ordered'
    <2>1. \A s, t \in Workers : Pending(s, t) => Pending(s, t)'
      BY <1>3, <1>4, <1>5 DEF Pending, Unheard, TypeOK
    <2> QED  BY <2>1 DEF Ordered, MainRequests, Unheard, Before
  <1> QED  BY <1>1, <1>6, <1>7, <1>8, <1>9, <1>10, <1>11

\* A request that is answered is owed until the reply arrives.
LEMMA ReplyImmediatelyStep ==
  ASSUME IInv, NEW p \in Workers, ReplyImmediately(p)
  PROVE  IInv'
  <1> DEFINE f == received[p].from
             n == [type |-> "REPLY", from |-> p, to |-> f, lamport |-> lamport_time[p] + 1]
  <1> USE DEF IInv, ReplyImmediately, Return, controllerVars
  <1>f. f \in Workers /\ f # p /\ Handling(f, p) /\ callback[p] = "answer"
    BY HandledRequest DEF NoSelf, Handling
  <1>n. /\ messages' = messages \cup {n}
        /\ n \in Messages
        /\ n.type = "REPLY" /\ n.from = p /\ n.to = f
    BY <1>f DEF MqttReply, Messages, TypeOK
  <1>t. /\ lamport_time' \in [Workers -> Nat]
        /\ \A q \in Workers : lamport_time'[q] >= lamport_time[q]
    BY DEF MqttReply, TypeOK
  <1> HIDE DEF n
  <1>1. TypeOK'
    <2>1. /\ callback' \in [Workers -> CallbackStates]
          /\ received' \in [Workers -> Messages \cup {NoMessage}]
          /\ \A q \in Workers : IF callback'[q] = "idle"
                                THEN received'[q] = NoMessage
                                ELSE received'[q].type = "REQUEST" /\ received'[q].to = q
      BY DEF TypeOK, CallbackStates
    <2>2. messages' \subseteq Messages  BY <1>n DEF TypeOK
    <2> QED  BY <1>t, <2>1, <2>2 DEF TypeOK
  <1>2. \A s, t \in Workers : OnTheWay(s, t)' <=> OnTheWay(s, t) \/ (t = p /\ s = f)
    BY <1>n DEF OnTheWay, Between
  <1>3. \A s, t \in Workers : Handling(s, t)' <=> Handling(s, t) /\ t # p
    BY DEF Handling, TypeOK
  <1>4. \A s, t \in Workers : Queued(s, t)' <=> Queued(s, t)
    BY DEF Queued
  <1>5. \A s \in Workers : Handling(s, p) => s = f  BY DEF Handling
  <1>6. NoSelf'  BY <1>n, <1>f DEF NoSelf, TypeOK
  <1>7. Phases'  BY DEF Phases, Idle
  <1>8. OncePerPair'
    <2>1. ~OnTheWay(f, p) /\ ~Queued(f, p)  BY <1>f DEF OncePerPair
    <2>2. \A s, t \in Workers : Between(n, s, t) => s = f /\ t = p
      BY <1>n DEF Between
    <2>3. \A s, t \in Workers : \A k, m \in messages' : Between(k, s, t) /\ Between(m, s, t) => k = m
      BY <1>n, <2>1, <2>2 DEF OncePerPair, OnTheWay
    <2>4. \A s, t \in Workers : OnTheWay(s, t)' => ~Handling(s, t)' /\ ~Queued(s, t)'
      BY <1>2, <1>3, <1>4, <2>1 DEF OncePerPair
    <2>5. \A s, t \in Workers : Handling(s, t)' => ~Queued(s, t)'
      BY <1>3, <1>4 DEF OncePerPair
    <2> QED  BY <2>3, <2>4, <2>5 DEF OncePerPair, Between
  <1>9. Accounted'
    <2>1. \A s, t \in Workers : IsOwed(s, t)' <=> IsOwed(s, t)
      BY <1>2, <1>3, <1>4, <1>5, <1>f DEF IsOwed
    <2> QED  BY <2>1, AccountUnchanged DEF Accounted, Waiting
  <1>10. CurrentTimes'  BY <1>n DEF CurrentTimes, TypeOK
  <1>11. Ordered'
    <2>1. \A s, t \in Workers : Unheard(s, t)' <=> Unheard(s, t)
      BY <1>n DEF Unheard
    <2>2. \A s, t \in Workers : Pending(s, t) => Pending(s, t)'
      BY <1>3, <1>4, <1>5, <1>f, <2>1 DEF Pending, TypeOK
    <2>3. \A s, t \in Workers : lamport_time[t] > request_lamport_time[s] /\ request_lamport_time[s] \in Nat
                                  => lamport_time'[t] > request_lamport_time[s]
      <3> SUFFICES ASSUME NEW s \in Workers, NEW t \in Workers, request_lamport_time[s] \in Nat,
                          lamport_time[t] > request_lamport_time[s]
                   PROVE  lamport_time'[t] > request_lamport_time[s]
        OBVIOUS
      <3>1. lamport_time[t] \in Nat /\ lamport_time'[t] \in Nat /\ lamport_time'[t] >= lamport_time[t]
        BY <1>t DEF TypeOK
      <3> QED  BY <3>1
    <2> QED  BY <2>1, <2>2, <2>3 DEF Ordered, MainRequests, Before
  <1> QED  BY <1>1, <1>6, <1>7, <1>8, <1>9, <1>10, <1>11

\* What the arrival of a message does to a worker's clock.
LEMMA BumpFacts ==
  ASSUME TypeOK, NEW p \in Workers, NEW m \in messages, Bump(p, m)
  PROVE  /\ lamport_time' \in [Workers -> Nat]
         /\ \A q \in Workers : lamport_time'[q] >= lamport_time[q]
         /\ lamport_time'[p] > m.lamport
  <1>1. m.lamport \in Nat /\ lamport_time \in [Workers -> Nat]
    BY DEF TypeOK, Messages
  <1> QED  BY <1>1 DEF Bump

\* Who hears of a request moves its clock past the request's time.
LEMMA ReceiveRequestStep ==
  ASSUME IInv, NEW p \in Workers, ReceiveRequest(p)
  PROVE  IInv'
  <1> USE DEF IInv, ReceiveRequest, controllerVars
  <1>m. PICK m \in messages :
          /\ m.type = "REQUEST" /\ m.to = p
          /\ messages' = messages \ {m}
          /\ received' = [received EXCEPT ![p] = m]
          /\ Bump(p, m)
    OBVIOUS
  <1> DEFINE f == m.from
  <1>f. /\ m \in Messages /\ f \in Workers /\ f # p /\ callback[p] = "idle"
        /\ Between(m, f, p) /\ OnTheWay(f, p)
    BY <1>m DEF NoSelf, TypeOK, Messages, Between, OnTheWay
  <1>t. /\ lamport_time' \in [Workers -> Nat]
        /\ \A q \in Workers : lamport_time'[q] >= lamport_time[q]
        /\ lamport_time'[p] > m.lamport
    BY <1>m, BumpFacts
  <1>1. TypeOK'
    <2>1. /\ callback' \in [Workers -> CallbackStates]
          /\ received' \in [Workers -> Messages \cup {NoMessage}]
          /\ \A q \in Workers : IF callback'[q] = "idle"
                                THEN received'[q] = NoMessage
                                ELSE received'[q].type = "REQUEST" /\ received'[q].to = q
      BY <1>m, <1>f DEF TypeOK, CallbackStates
    <2>2. messages' \subseteq Messages  BY <1>m DEF TypeOK
    <2> QED  BY <1>t, <2>1, <2>2 DEF TypeOK
  <1>2. \A s, t \in Workers : OnTheWay(s, t)' <=> OnTheWay(s, t) /\ ~(t = p /\ s = f)
    <2>1. \A s, t \in Workers : Between(m, s, t) => s = f /\ t = p
      BY <1>m DEF Between
    <2>2. \A n \in messages : Between(n, f, p) => n = m
      BY <1>f DEF OncePerPair
    <2> QED  BY <1>m, <2>1, <2>2 DEF OnTheWay, Between
  <1>3. \A s, t \in Workers : Handling(s, t)' <=> Handling(s, t) \/ (t = p /\ s = f)
    BY <1>m, <1>f DEF Handling, TypeOK
  <1>4. \A s, t \in Workers : Queued(s, t)' <=> Queued(s, t)
    BY DEF Queued
  <1>6. NoSelf'  BY <1>m, <1>f DEF NoSelf, TypeOK
  <1>7. Phases'  BY DEF Phases, Idle
  <1>8. OncePerPair'
    <2>1. ~Handling(f, p) /\ ~Queued(f, p)  BY <1>f DEF OncePerPair
    <2>2. \A s, t \in Workers : \A k, n \in messages' : Between(k, s, t) /\ Between(n, s, t) => k = n
      BY <1>m DEF OncePerPair
    <2>3. \A s, t \in Workers : OnTheWay(s, t)' => ~Handling(s, t)' /\ ~Queued(s, t)'
      BY <1>2, <1>3, <1>4 DEF OncePerPair
    <2>4. \A s, t \in Workers : Handling(s, t)' => ~Queued(s, t)'
      BY <1>3, <1>4, <2>1 DEF OncePerPair
    <2> QED  BY <2>2, <2>3, <2>4 DEF OncePerPair, Between
  <1>9. Accounted'
    <2>1. \A s, t \in Workers : IsOwed(s, t)' <=> IsOwed(s, t)
      BY <1>2, <1>3, <1>4, <1>f DEF IsOwed
    <2> QED  BY <2>1, AccountUnchanged DEF Accounted, Waiting
  <1>10. CurrentTimes'  BY <1>m, <1>f DEF CurrentTimes, TypeOK
  <1>11. Ordered'
    <2> SUFFICES ASSUME NEW s \in Workers, NEW t \in Workers, s # t, MainRequests(s)
                 PROVE  /\ mqtt_request_open[s]
                        /\ request_lamport_time[s] \in Nat
                        /\ ~Unheard(s, t)' => lamport_time'[t] > request_lamport_time[s]
                        /\ MainRequests(t) /\ ~Pending(s, t)' => Before(s, t)
      BY DEF Ordered, MainRequests, Before
    <2>1. Unheard(s, t) => Unheard(s, t)' \/ (s = f /\ t = p)
      BY <1>m DEF Unheard
    <2>2. Pending(s, t) => Pending(s, t)'
      BY <1>3, <1>4, <1>f, <2>1 DEF Pending, Handling, TypeOK
    <2>3. m.lamport = request_lamport_time[f]  BY <1>m DEF CurrentTimes
    <2>4. request_lamport_time[s] \in Nat  BY DEF Ordered
    <2>5. ~Unheard(s, t)' => lamport_time'[t] > request_lamport_time[s]
      <3>1. CASE s = f /\ t = p  BY <3>1, <1>t, <2>3
      <3>2. CASE ~(s = f /\ t = p)
        <4>1. ~Unheard(s, t)' => lamport_time[t] > request_lamport_time[s]
          BY <3>2, <2>1 DEF Ordered
        <4>2. lamport_time[t] \in Nat /\ lamport_time'[t] \in Nat /\ lamport_time'[t] >= lamport_time[t]
          BY <1>t DEF TypeOK
        <4> QED  BY <4>1, <4>2, <2>4
      <3> QED  BY <3>1, <3>2
    <2> QED  BY <2>2, <2>4, <2>5 DEF Ordered
  <1> QED  BY <1>1, <1>6, <1>7, <1>8, <1>9, <1>10, <1>11

\* No worker owes itself a reply.
LEMMA NotOwedToItself ==
  ASSUME NoSelf, NEW p \in Workers
  PROVE  ~IsOwed(p, p)
  BY DEF NoSelf, IsOwed, OnTheWay, Between, Handling, Queued

\* Who owes p a reply is one more to be counted.
LEMMA OneMoreCounted ==
  ASSUME NEW p \in Workers, NEW q \in Workers, p # q, IsOwed(p, q)
  PROVE  /\ Cardinality(Counted(p)) \in Nat
         /\ Cardinality(Counted(p)) < NumberWorkers - 1
         /\ Cardinality(Counted(p) \cup {q}) = Cardinality(Counted(p)) + 1
         /\ Cardinality(Counted(p)) + 1 = NumberWorkers - 1 => Counted(p) \cup {q} = Workers \ {p}
  <1> DEFINE C == Counted(p)
  <1>1. C \subseteq Workers \ {p} /\ q \notin C  BY DEF Counted
  <1> HIDE DEF C
  <1>2. /\ Cardinality(C) \in Nat
        /\ Cardinality(C) < NumberWorkers - 1
        /\ Cardinality(C \cup {q}) = Cardinality(C) + 1
        /\ Cardinality(C) + 1 = NumberWorkers - 1 => C \cup {q} = Workers \ {p}
    BY <1>1, CountedOthers
  <1> QED  BY <1>2 DEF C

\* A reply that arrives is the only thing its sender owed, and it is owed to
\* a worker that asks; with the last one nothing is owed any more.
LEMMA ReceiveReplyStep ==
  ASSUME IInv, NEW p \in Workers, ReceiveReply(p)
  PROVE  IInv'
  <1> USE DEF IInv, ReceiveReply, callbackVars, controllerVars
  <1>m. PICK m \in messages :
          /\ m.type = "REPLY" /\ m.to = p
          /\ messages' = messages \ {m}
          /\ Bump(p, m)
    OBVIOUS
  <1> DEFINE q == m.from
  <1>q. /\ m \in Messages /\ q \in Workers /\ q # p
        /\ Between(m, p, q) /\ OnTheWay(p, q) /\ IsOwed(p, q)
    BY <1>m DEF NoSelf, TypeOK, Messages, Between, OnTheWay, IsOwed
  <1>t. /\ lamport_time' \in [Workers -> Nat]
        /\ \A w \in Workers : lamport_time'[w] >= lamport_time[w]
    BY <1>m, BumpFacts
  <1>2. \A s, t \in Workers : OnTheWay(s, t)' <=> OnTheWay(s, t) /\ ~(s = p /\ t = q)
    <2>1. \A s, t \in Workers : Between(m, s, t) => s = p /\ t = q
      BY <1>m DEF Between
    <2>2. \A n \in messages : Between(n, p, q) => n = m
      BY <1>q DEF OncePerPair
    <2> QED  BY <1>m, <2>1, <2>2 DEF OnTheWay, Between
  <1>3. \A s, t \in Workers : (Handling(s, t)' <=> Handling(s, t)) /\ (Queued(s, t)' <=> Queued(s, t))
    BY DEF Handling, Queued
  <1>4. \A s, t \in Workers : IsOwed(s, t)' <=> IsOwed(s, t) /\ ~(s = p /\ t = q)
    BY <1>2, <1>3, <1>q DEF IsOwed, OncePerPair
  <1>5. /\ Asking(p) /\ sem_write_database[p] = 0 /\ Waiting(p)
        /\ received_replies[p] = Cardinality(Counted(p))
    BY <1>q DEF Accounted, Account, Asking
  <1>6. Counted(p)' = Counted(p) \cup {q}  BY <1>4, <1>q DEF Counted
  <1>7. /\ Cardinality(Counted(p)) \in Nat
        /\ Cardinality(Counted(p)) < NumberWorkers - 1
        /\ Cardinality(Counted(p) \cup {q}) = Cardinality(Counted(p)) + 1
        /\ Cardinality(Counted(p)) + 1 = NumberWorkers - 1 => Counted(p) \cup {q} = Workers \ {p}
    BY <1>q, OneMoreCounted
  <1>8. \A s \in Workers : Waiting(s)' <=> Waiting(s)  BY DEF Waiting
  <1>9. \A s \in Workers \ {p} : /\ sem_write_database'[s] = sem_write_database[s]
                                 /\ received_replies'[s] = received_replies[s]
    BY DEF TypeOK
  <1>10. /\ received_replies[p] + 1 = NumberWorkers - 1 =>
              sem_write_database'[p] = 1 /\ received_replies'[p] = 0
         /\ received_replies[p] + 1 # NumberWorkers - 1 =>
              sem_write_database'[p] = 0 /\ received_replies'[p] = received_replies[p] + 1
    BY <1>5 DEF TypeOK
  <1>11. TypeOK'
    <2>1. received_replies' \in [Workers -> {n \in Nat : n = 0 \/ n < NumberWorkers - 1}]
      <3>1. received_replies'[p] \in {n \in Nat : n = 0 \/ n < NumberWorkers - 1}
        BY <1>5, <1>7, <1>10, WriteLockAssumption
      <3> QED  BY <3>1, <1>9 DEF TypeOK
    <2>2. sem_write_database' \in [Workers -> Nat]
      <3>1. sem_write_database'[p] \in Nat  BY <1>10
      <3> QED  BY <3>1, <1>9 DEF TypeOK
    <2>3. messages' \subseteq Messages  BY <1>m DEF TypeOK
    <2> QED  BY <1>t, <2>1, <2>2, <2>3 DEF TypeOK
  <1>12. NoSelf'  BY <1>m DEF NoSelf
  <1>13. Phases'  BY DEF Phases, Idle
  <1>14. OncePerPair'
    <2>1. \A s, t \in Workers : \A k, n \in messages' : Between(k, s, t) /\ Between(n, s, t) => k = n
      BY <1>m DEF OncePerPair
    <2> QED  BY <2>1, <1>2, <1>3 DEF OncePerPair, Between
  <1>15. Accounted'
    <2> SUFFICES ASSUME NEW s \in Workers PROVE Account(s)'  BY DEF Accounted
    <2>1. CASE s # p
      BY <2>1, <1>4, <1>8, <1>9, AccountUnchanged DEF Accounted
    <2>2. CASE s = p /\ received_replies[p] + 1 = NumberWorkers - 1
      <3>1. \A w \in Workers \ {p} : ~IsOwed(p, w)'
        BY <2>2, <1>5, <1>6, <1>7 DEF Counted
      <3>2. \A w \in Workers : ~IsOwed(p, w)'
        BY <3>1, <1>4, NotOwedToItself
      <3> QED  BY <2>2, <3>2, <1>5, <1>8, <1>10 DEF Account, Asking
    <2>3. CASE s = p /\ received_replies[p] + 1 # NumberWorkers - 1
      <3>1. received_replies'[p] = Cardinality(Counted(p)')
        BY <2>3, <1>5, <1>6, <1>7, <1>10
      <3> QED  BY <2>3, <3>1, <1>5, <1>8, <1>10 DEF Account, Asking
    <2> QED  BY <2>1, <2>2, <2>3
  <1>16. CurrentTimes'  BY <1>m DEF CurrentTimes
  <1>17. Ordered'
    <2>1. \A s, t \in Workers : Unheard(s, t)' <=> Unheard(s, t)
      BY <1>m DEF Unheard
    <2>2. \A s, t \in Workers : Pending(s, t)' <=> Pending(s, t)
      BY <1>3, <2>1 DEF Pending
    <2>3. \A s, t \in Workers : lamport_time[t] > request_lamport_time[s] /\ request_lamport_time[s] \in Nat
                                  => lamport_time'[t] > request_lamport_time[s]
      <3> SUFFICES ASSUME NEW s \in Workers, NEW t \in Workers, request_lamport_time[s] \in Nat,
                          lamport_time[t] > request_lamport_time[s]
                   PROVE  lamport_time'[t] > request_lamport_time[s]
        OBVIOUS
      <3>1. lamport_time[t] \in Nat /\ lamport_time'[t] \in Nat /\ lamport_time'[t] >= lamport_time[t]
        BY <1>t DEF TypeOK
      <3> QED  BY <3>1
    <2> QED  BY <2>1, <2>2, <2>3 DEF Ordered, MainRequests, Before
  <1> QED  BY <1>11, <1>12, <1>13, <1>14, <1>15, <1>16, <1>17

-----------------------------------------------------------------------------
(***************************************************************************)
(* The steps of the requesting threads                                     *)
(***************************************************************************)

\* A worker has one thread at work.
LEMMA OneThreadAtWork ==
  ASSUME Phases, TypeOK, NEW p \in Workers, NEW r \in Requesters, ~Idle(p, r)
  PROVE  /\ \A u \in Requesters : u # r => Idle(p, u)
         /\ pc[<<p, r>>] # "waiting" => ~Waiting(p)
         /\ pc[<<p, r>>] \notin {"waiting", "critical"} => ~MainRequests(p)
  <1>1. \A u \in Requesters : u # r => Idle(p, u)
    <2>1. stores_left > 0 => stores_left # 0  BY DEF TypeOK
    <2> QED  BY <2>1 DEF Phases, Requesters
  <1>2. pc[<<p, r>>] # "waiting" => ~Waiting(p)
    BY <1>1 DEF Waiting, Idle
  <1>3. pc[<<p, r>>] \notin {"waiting", "critical"} => ~MainRequests(p)
    BY <1>1 DEF MainRequests, Idle, Requesters
  <1> QED  BY <1>1, <1>2, <1>3

\* sem_wait returns: all replies were counted.
LEMMA AcquireStep ==
  ASSUME IInv, NEW p \in Workers, NEW r \in Requesters, Acquire(<<p, r>>)
  PROVE  IInv'
  <1> DEFINE th == <<p, r>>
  <1> USE DEF IInv, callbackVars, controllerVars
  <1>a. /\ pc[th] = "waiting"
        /\ sem_write_database[p] > 0
        /\ sem_write_database' = [sem_write_database EXCEPT ![p] = @ - 1]
        /\ pc' = [pc EXCEPT ![th] = "critical"]
        /\ UNCHANGED <<lamport_time, request_lamport_time, mqtt_request_open,
                       received_replies, req_worker_numbers>>
        /\ UNCHANGED <<callback, received, messages, stores_left, failures>>
        /\ th \in Threads
    BY DEF Acquire, Goto, Threads
  <1>b. sem_write_database[p] = 1 /\ sem_write_database'[p] = 0
    BY <1>a DEF Accounted, Account, TypeOK
  <1>c. \A w \in Workers, u \in Requesters :
          /\ <<w, u>> # th => pc'[<<w, u>>] = pc[<<w, u>>]
          /\ <<w, u>> = th => pc'[<<w, u>>] = "critical" /\ pc[<<w, u>>] = "waiting"
          /\ Idle(w, u)' <=> Idle(w, u)
    BY <1>a DEF TypeOK, Threads, Idle
  <1>d. \A u \in Requesters : u # r => Idle(p, u)
    BY <1>a, OneThreadAtWork DEF Idle
  <1>1. TypeOK'
    <2>1. sem_write_database' \in [Workers -> Nat]  BY <1>a, <1>b DEF TypeOK
    <2>2. pc' \in [Threads -> ThreadStates]  BY <1>a DEF TypeOK, ThreadStates
    <2> QED  BY <1>a, <2>1, <2>2 DEF TypeOK
  <1>2. \A s, t \in Workers : (IsOwed(s, t)' <=> IsOwed(s, t)) /\ (Pending(s, t)' <=> Pending(s, t))
    BY <1>a DEF IsOwed, OnTheWay, Handling, Queued, Pending, Unheard
  <1>3. NoSelf'  BY <1>a DEF NoSelf
  <1>4. Phases'  BY <1>a, <1>c DEF Phases, Requesters
  <1>5. OncePerPair'
    BY <1>a DEF OncePerPair, OnTheWay, Handling, Queued
  <1>6. Accounted'
    <2> SUFFICES ASSUME NEW s \in Workers PROVE Account(s)'  BY DEF Accounted
    <2>1. CASE s # p
      <3>1. Waiting(s)' <=> Waiting(s)  BY <2>1, <1>c DEF Waiting
      <3>2. sem_write_database'[s] = sem_write_database[s]  BY <2>1, <1>a DEF TypeOK
      <3> QED  BY <1>a, <1>2, <3>1, <3>2, AccountUnchanged DEF Accounted
    <2>2. CASE s = p
      <3>1. ~Waiting(p)'  BY <1>c, <1>d DEF Waiting, Idle
      <3>2. received_replies[p] = 0 /\ \A q \in Workers : ~IsOwed(p, q)
        BY <1>b DEF Accounted, Account, Asking
      <3> QED  BY <2>2, <1>a, <1>b, <1>2, <3>1, <3>2 DEF Account, Asking
    <2> QED  BY <2>1, <2>2
  <1>7. CurrentTimes'  BY <1>a DEF CurrentTimes
  <1>8. Ordered'
    <2>1. \A s \in Workers : MainRequests(s)' <=> MainRequests(s)
      BY <1>c DEF MainRequests, Requesters
    <2> QED  BY <2>1, <1>2, <1>a DEF Ordered, Unheard, Before
  <1> QED  BY <1>1, <1>3, <1>4, <1>5, <1>6, <1>7, <1>8

\* A step that moves one thread between states in which it does not wait, and
\* changes no queue, message or clock, disturbs neither the accounts nor the
\* order of the requests.
LEMMA MoveOnStep ==
  ASSUME IInv, NEW p \in Workers, NEW r \in Requesters, NEW label \in ThreadStates,
         ~Idle(p, r), pc[<<p, r>>] # "waiting", label # "waiting",
         label = "critical" => pc[<<p, r>>] = "critical",
         Goto(<<p, r>>, label),
         \/ UNCHANGED <<mqtt_request_open, stores_left>>
         \/ /\ pc[<<p, r>>] = "respond"
            /\ mqtt_request_open' = [mqtt_request_open EXCEPT ![p] = FALSE]
            /\ stores_left' = IF r = "rpc" THEN stores_left - 1 ELSE stores_left,
         label = "idle" => r = "rpc",
         stores_left' # stores_left => label = "idle",
         failures' \in 0 .. MaxFailures,
         UNCHANGED <<lamport_time, request_lamport_time, received_replies, sem_write_database,
                     req_worker_numbers, callback, received, messages>>
  PROVE  IInv'
  <1> DEFINE th == <<p, r>>
  <1> USE DEF IInv
  <1>a. th \in Threads /\ pc' = [pc EXCEPT ![th] = label]
    BY DEF Goto, Threads
  <1>b. \A w \in Workers, u \in Requesters :
          /\ <<w, u>> # th => pc'[<<w, u>>] = pc[<<w, u>>]
          /\ <<w, u>> = th => pc'[<<w, u>>] = label
          /\ ~Idle(w, u)' => ~Idle(w, u)
    BY <1>a DEF TypeOK, Threads, Idle
  <1>c. /\ \A u \in Requesters : u # r => Idle(p, u)
        /\ ~Waiting(p)
        /\ pc[th] \notin {"waiting", "critical"} => ~MainRequests(p)
    BY OneThreadAtWork
  <1>d. stores_left' \in 0 .. NumberStores /\ (stores_left = 0 => stores_left' = 0)
    <2>1. r = "rpc" => stores_left > 0  BY DEF Phases
    <2>2. stores_left \in 0 .. NumberStores  BY DEF TypeOK
    <2>3. stores_left' = stores_left \/ (r = "rpc" /\ stores_left' = stores_left - 1)
      OBVIOUS
    <2> QED
      <3> HIDE DEF IInv
      <3> QED  BY <2>1, <2>2, <2>3, WriteLockAssumption
  <1>e. stores_left' # stores_left => \A w \in Workers : Idle(w, "rpc")'
    <2> SUFFICES ASSUME stores_left' # stores_left, NEW w \in Workers PROVE Idle(w, "rpc")'
      OBVIOUS
    <2>1. r = "rpc" /\ label = "idle"  OBVIOUS
    <2>2. w # p => Idle(w, "rpc")  BY <2>1 DEF Phases
    <2> QED  BY <2>1, <2>2, <1>b DEF Idle, Requesters
  <1>1. TypeOK'
    <2>1. pc' \in [Threads -> ThreadStates]  BY <1>a DEF TypeOK
    <2>2. mqtt_request_open' \in [Workers -> BOOLEAN]  BY DEF TypeOK
    <2> QED  BY <1>d, <2>1, <2>2 DEF TypeOK
  <1>2. \A s, t \in Workers : (IsOwed(s, t)' <=> IsOwed(s, t)) /\ (Pending(s, t)' <=> Pending(s, t))
    BY DEF IsOwed, OnTheWay, Handling, Queued, Pending, Unheard
  <1>3. NoSelf'  BY DEF NoSelf
  <1>4. Phases'
    <2>1. \A w, v \in Workers : ~Idle(w, "rpc")' /\ ~Idle(v, "rpc")' => w = v
      BY <1>b DEF Phases, Requesters
    <2>2. \A w \in Workers : ~Idle(w, "rpc")' => stores_left' > 0
      BY <1>b, <1>e DEF Phases, Requesters
    <2>3. \A w \in Workers : ~Idle(w, "main")' => stores_left' = 0
      BY <1>b, <1>d DEF Phases, Requesters
    <2> QED  BY <2>1, <2>2, <2>3 DEF Phases
  <1>5. OncePerPair'
    BY DEF OncePerPair, OnTheWay, Handling, Queued
  <1>6. Accounted'
    <2>1. \A s \in Workers : Waiting(s)' <=> Waiting(s)
      BY <1>b, <1>c DEF Waiting, Idle
    <2> QED  BY <1>2, <2>1, AccountUnchanged DEF Accounted
  <1>7. CurrentTimes'  BY DEF CurrentTimes
  <1>8. Ordered'
    <2>1. \A s \in Workers : MainRequests(s)' => MainRequests(s)
      BY <1>b DEF MainRequests, Requesters
    <2>2. \A s \in Workers : MainRequests(s)' => mqtt_request_open'[s] = mqtt_request_open[s]
      BY <2>1, <1>c DEF TypeOK
    <2> QED  BY <2>1, <2>2, <1>2 DEF Ordered, Unheard, Before
  <1> QED  BY <1>1, <1>3, <1>4, <1>5, <1>6, <1>7, <1>8

\* A queue without duplicates loses one request with its head.
LEMMA TailOfDistinct ==
  ASSUME NEW S, NEW s \in Seq(S), s # <<>>,
         \A i, j \in DOMAIN s : s[i] = s[j] => i = j
  PROVE  /\ \A x : (\E i \in DOMAIN Tail(s) : Tail(s)[i] = x)
                     <=> (\E i \in DOMAIN s : s[i] = x) /\ x # Head(s)
         /\ \A i, j \in DOMAIN Tail(s) : Tail(s)[i] = Tail(s)[j] => i = j
  <1> DEFINE k == Len(s)
  <1>1. /\ k \in Nat \ {0}
        /\ DOMAIN s = 1 .. k /\ Head(s) = s[1]
        /\ DOMAIN Tail(s) = 1 .. k - 1
        /\ \A i \in 1 .. k - 1 : Tail(s)[i] = s[i + 1]
    BY TailFacts
  <1> HIDE DEF k
  <1>2. \A i \in 1 .. k : i = 1 \/ (i - 1 \in 1 .. k - 1 /\ (i - 1) + 1 = i)
    BY <1>1
  <1>3. 1 \in 1 .. k /\ \A i \in 1 .. k - 1 : i + 1 \in 1 .. k /\ i + 1 # 1
    BY <1>1
  <1>4. ASSUME NEW i \in 1 .. k - 1
        PROVE  (\E j \in 1 .. k : s[j] = Tail(s)[i]) /\ Tail(s)[i] # s[1]
    BY <1>1, <1>3
  <1>5. ASSUME NEW i \in 1 .. k, s[i] # s[1]
        PROVE  \E j \in 1 .. k - 1 : Tail(s)[j] = s[i]
    BY <1>1, <1>2, <1>5
  <1>6. ASSUME NEW i \in 1 .. k - 1, NEW j \in 1 .. k - 1, Tail(s)[i] = Tail(s)[j]
        PROVE  i = j
    <2>1. s[i + 1] = s[j + 1]  BY <1>1, <1>6
    <2>2. i + 1 = j + 1  BY <2>1, <1>1, <1>3
    <2> QED  BY <2>2
  <1>7. \A x : (\E i \in 1 .. k - 1 : Tail(s)[i] = x) <=> (\E i \in 1 .. k : s[i] = x) /\ x # s[1]
    BY <1>4, <1>5
  <1> QED  BY <1>1, <1>6, <1>7

\* What a message sent does to a worker's clock.
LEMMA ClockTicks ==
  ASSUME TypeOK, NEW p \in Workers, lamport_time' = [lamport_time EXCEPT ![p] = @ + 1]
  PROVE  /\ lamport_time' \in [Workers -> Nat]
         /\ \A q \in Workers : lamport_time'[q] >= lamport_time[q]
  <1>1. lamport_time \in [Workers -> Nat]  BY DEF TypeOK
  <1> QED  BY <1>1

\* The queued request at the head becomes a reply; who gives back the access
\* does not request.
LEMMA RespondToOpenRequestStep ==
  ASSUME IInv, NEW p \in Workers, NEW r \in Requesters, RespondToOpenRequest(<<p, r>>)
  PROVE  IInv'
  <1> DEFINE s0 == req_worker_numbers[p]
             f == Head(s0)
             n == [type |-> "REPLY", from |-> p, to |-> f, lamport |-> lamport_time[p] + 1]
  <1> USE DEF IInv, callbackVars, controllerVars
  <1>a. /\ pc[<<p, r>>] = "respond"
        /\ s0 # <<>>
        /\ lamport_time' = [lamport_time EXCEPT ![p] = @ + 1]
        /\ messages' = messages \cup {n}
        /\ req_worker_numbers' = [req_worker_numbers EXCEPT ![p] = Tail(s0)]
        /\ UNCHANGED <<request_lamport_time, mqtt_request_open, received_replies,
                       sem_write_database, callback, received, pc, stores_left, failures>>
    BY DEF RespondToOpenRequest, MqttReply
  <1>s. /\ s0 \in Seq(Workers)
        /\ f \in Workers
        /\ f = s0[1]
        /\ Tail(s0) \in Seq(Workers)
        /\ Len(s0) \in Nat \ {0}
        /\ DOMAIN s0 = 1 .. Len(s0)
        /\ DOMAIN Tail(s0) = 1 .. Len(s0) - 1
        /\ \A i \in 1 .. Len(s0) - 1 : Tail(s0)[i] = s0[i + 1]
    <2>1. s0 \in Seq(Workers)  BY DEF TypeOK
    <2> HIDE DEF s0, IInv
    <2> QED  BY <2>1, <1>a, TailFacts
  <1>b. /\ req_worker_numbers'[p] = Tail(s0)
        /\ \A w \in Workers \ {p} : req_worker_numbers'[w] = req_worker_numbers[w]
    BY <1>a DEF TypeOK
  <1>f. f # p /\ Queued(f, p)
    <2>1. 1 \in DOMAIN s0  BY <1>s
    <2> QED  BY <2>1, <1>s DEF NoSelf, Queued
  <1>v. /\ \A x : (\E i \in DOMAIN Tail(s0) : Tail(s0)[i] = x)
                    <=> (\E i \in DOMAIN s0 : s0[i] = x) /\ x # f
        /\ \A i, j \in DOMAIN Tail(s0) : Tail(s0)[i] = Tail(s0)[j] => i = j
    <2>1. \A i, j \in DOMAIN s0 : s0[i] = s0[j] => i = j  BY DEF OncePerPair
    <2> HIDE DEF s0, IInv
    <2> QED  BY <2>1, <1>s, <1>a, TailOfDistinct DEF f
  <1>n. n \in Messages /\ n.type = "REPLY" /\ n.from = p /\ n.to = f
    BY <1>s DEF Messages, TypeOK
  <1>t. /\ lamport_time' \in [Workers -> Nat]
        /\ \A w \in Workers : lamport_time'[w] >= lamport_time[w]
    BY <1>a, ClockTicks
  <1>r. ~MainRequests(p)  BY <1>a, OneThreadAtWork DEF Idle
  <1> HIDE DEF n
  <1>1. TypeOK'
    <2>1. req_worker_numbers' \in [Workers -> Seq(Workers)]  BY <1>a, <1>s DEF TypeOK
    <2>2. messages' \subseteq Messages  BY <1>a, <1>n DEF TypeOK
    <2> QED  BY <1>a, <1>t, <2>1, <2>2 DEF TypeOK
  <1>2. \A s, t \in Workers : OnTheWay(s, t)' <=> OnTheWay(s, t) \/ (t = p /\ s = f)
    BY <1>a, <1>n, <1>s DEF OnTheWay, Between
  <1>3. \A s, t \in Workers : Handling(s, t)' <=> Handling(s, t)
    BY <1>a DEF Handling
  <1>4. \A s, t \in Workers : Queued(s, t)' <=> Queued(s, t) /\ ~(t = p /\ s = f)
    <2>1. \A s \in Workers : Queued(s, p)' <=> Queued(s, p) /\ s # f
      <3>1. \A s \in Workers : Queued(s, p)' <=> \E i \in DOMAIN Tail(s0) : Tail(s0)[i] = s
        BY <1>b DEF Queued
      <3>2. \A s \in Workers : Queued(s, p) <=> \E i \in DOMAIN s0 : s0[i] = s
        BY DEF Queued
      <3> QED  BY <3>1, <3>2, <1>v
    <2> QED  BY <2>1, <1>b DEF Queued
  <1>6. NoSelf'
    <2>1. \A i \in DOMAIN req_worker_numbers'[p] : req_worker_numbers'[p][i] # p
      BY <1>b, <1>s DEF NoSelf
    <2> QED  BY <2>1, <1>a, <1>b, <1>n, <1>f DEF NoSelf
  <1>7. Phases'  BY <1>a DEF Phases, Idle
  <1>8. OncePerPair'
    <2>1. ~OnTheWay(f, p) /\ ~Handling(f, p)  BY <1>f, <1>s DEF OncePerPair
    <2>2. \A s, t \in Workers : Between(n, s, t) => s = f /\ t = p
      BY <1>n DEF Between
    <2>3. \A s, t \in Workers : \A k, m \in messages' : Between(k, s, t) /\ Between(m, s, t) => k = m
      BY <1>a, <2>1, <2>2 DEF OncePerPair, OnTheWay
    <2>4. \A s, t \in Workers : OnTheWay(s, t)' => ~Handling(s, t)' /\ ~Queued(s, t)'
      BY <1>2, <1>3, <1>4, <2>1 DEF OncePerPair
    <2>5. \A s, t \in Workers : Handling(s, t)' => ~Queued(s, t)'
      BY <1>3, <1>4 DEF OncePerPair
    <2>6. \A i, j \in DOMAIN req_worker_numbers'[p] :
            req_worker_numbers'[p][i] = req_worker_numbers'[p][j] => i = j
      BY <1>b, <1>v
    <2>7. \A w \in Workers : \A i, j \in DOMAIN req_worker_numbers'[w] :
            req_worker_numbers'[w][i] = req_worker_numbers'[w][j] => i = j
      BY <2>6, <1>b DEF OncePerPair
    <2> QED  BY <2>3, <2>4, <2>5, <2>7 DEF OncePerPair, Between
  <1>9. Accounted'
    <2>1. \A s, t \in Workers : IsOwed(s, t)' <=> IsOwed(s, t)
      BY <1>2, <1>3, <1>4, <1>f DEF IsOwed
    <2>2. \A s \in Workers : Waiting(s)' <=> Waiting(s)  BY <1>a DEF Waiting
    <2> QED  BY <1>a, <2>1, <2>2, AccountUnchanged DEF Accounted
  <1>10. CurrentTimes'  BY <1>a, <1>n DEF CurrentTimes
  <1>11. Ordered'
    <2>1. \A s, t \in Workers : Unheard(s, t)' <=> Unheard(s, t)
      BY <1>a, <1>n DEF Unheard
    <2>2. \A s, t \in Workers : t # p /\ Pending(s, t) => Pending(s, t)'
      BY <1>a, <1>3, <1>4, <2>1 DEF Pending
    <2>3. \A s, t \in Workers : lamport_time[t] > request_lamport_time[s] /\ request_lamport_time[s] \in Nat
                                  => lamport_time'[t] > request_lamport_time[s]
      <3> SUFFICES ASSUME NEW s \in Workers, NEW t \in Workers, request_lamport_time[s] \in Nat,
                          lamport_time[t] > request_lamport_time[s]
                   PROVE  lamport_time'[t] > request_lamport_time[s]
        OBVIOUS
      <3>1. lamport_time[t] \in Nat /\ lamport_time'[t] \in Nat /\ lamport_time'[t] >= lamport_time[t]
        BY <1>t DEF TypeOK
      <3> QED  BY <3>1
    <2>4. \A s \in Workers : MainRequests(s)' <=> MainRequests(s)
      BY <1>a DEF MainRequests
    <2> QED  BY <1>a, <1>r, <2>1, <2>2, <2>3, <2>4 DEF Ordered, Before
  <1> QED  BY <1>1, <1>6, <1>7, <1>8, <1>9, <1>10, <1>11

\* When the RPC thread may ask, by the controller, and main, by its loop.
MayAsk(p, r) ==
  \/ r = "rpc" /\ StoreMutexFree /\ stores_left > 0
  \/ r = "main" /\ Idle(p, "main") /\ stores_left = 0

\* Who asks has nothing owed from an earlier request, and its new request is
\* later than all it has heard of.
LEMMA MqttRequestStep ==
  ASSUME IInv, NEW p \in Workers, NEW r \in Requesters, MayAsk(p, r), NumberWorkers > 1,
         MqttRequest(<<p, r>>), UNCHANGED callbackVars, UNCHANGED controllerVars
  PROVE  IInv'
  <1> DEFINE th == <<p, r>>
             now == lamport_time[p] + 1
             request(q) == [type |-> "REQUEST", from |-> p, to |-> q, lamport |-> now]
             new == {request(q) : q \in Workers \ {p}}
  <1> USE DEF IInv, callbackVars, controllerVars
  <1>a. /\ lamport_time' = [lamport_time EXCEPT ![p] = @ + 1]
        /\ request_lamport_time' = [request_lamport_time EXCEPT ![p] = now]
        /\ mqtt_request_open' = [mqtt_request_open EXCEPT ![p] = TRUE]
        /\ messages' = messages \cup new
        /\ pc' = [pc EXCEPT ![th] = "waiting"]
        /\ UNCHANGED <<received_replies, sem_write_database, req_worker_numbers,
                       callback, received, stores_left, failures>>
        /\ th \in Threads
    BY DEF MqttRequest, Goto, Threads
  <1>i. \A u \in Requesters : Idle(p, u)
    <2>1. stores_left > 0 => stores_left # 0  BY DEF TypeOK
    <2> QED  BY <2>1 DEF MayAsk, Phases, StoreMutexFree, Idle, Requesters
  <1>o. /\ sem_write_database[p] = 0
        /\ received_replies[p] = 0
        /\ \A q \in Workers : ~IsOwed(p, q)
    <2>1. ~Waiting(p)  BY <1>i DEF Waiting, Idle
    <2> QED  BY <2>1 DEF Accounted, Account, Asking
  <1>n. /\ now \in Nat
        /\ \A m \in new : /\ m \in Messages /\ m.type = "REQUEST"
                          /\ m.from = p /\ m.to # p /\ m.lamport = now
        /\ \A q \in Workers \ {p} : \E m \in new : m.to = q
        /\ \A m, k \in new : m.to = k.to => m = k
    <2>1. now \in Nat  BY DEF TypeOK
    <2> HIDE DEF now, IInv
    <2>2. \A q \in Workers \ {p} : /\ request(q) \in Messages /\ request(q).type = "REQUEST"
                                     /\ request(q).from = p /\ request(q).to = q
                                     /\ request(q).lamport = now
      BY <2>1 DEF Messages
    <2> HIDE DEF request
    <2> QED  BY <2>1, <2>2
  <1>t. /\ lamport_time' \in [Workers -> Nat]
        /\ \A w \in Workers : lamport_time'[w] >= lamport_time[w]
    BY <1>a, ClockTicks
  <1>l. /\ request_lamport_time'[p] = now
        /\ lamport_time'[p] = now
        /\ mqtt_request_open'[p]
        /\ \A w \in Workers \ {p} : /\ request_lamport_time'[w] = request_lamport_time[w]
                                    /\ mqtt_request_open'[w] = mqtt_request_open[w]
                                    /\ lamport_time'[w] = lamport_time[w]
    BY <1>a DEF TypeOK
  <1>c. \A w \in Workers, u \in Requesters :
          /\ <<w, u>> # th => pc'[<<w, u>>] = pc[<<w, u>>]
          /\ <<w, u>> = th => pc'[<<w, u>>] = "waiting"
    BY <1>a DEF TypeOK, Threads
  <1> HIDE DEF new
  <1>1. TypeOK'
    <2>1. request_lamport_time' \in [Workers -> Nat \cup {-1}]  BY <1>a, <1>n DEF TypeOK
    <2>2. mqtt_request_open' \in [Workers -> BOOLEAN]  BY <1>a DEF TypeOK
    <2>3. messages' \subseteq Messages  BY <1>a, <1>n DEF TypeOK
    <2>4. pc' \in [Threads -> ThreadStates]  BY <1>a DEF TypeOK, ThreadStates
    <2> QED  BY <1>a, <1>t, <2>1, <2>2, <2>3, <2>4 DEF TypeOK
  <1>2. \A s, t \in Workers : OnTheWay(s, t)' <=> OnTheWay(s, t) \/ (s = p /\ t # p)
    <2>1. \A m \in new : \A s, t \in Workers : Between(m, s, t) <=> s = p /\ m.to = t
      BY <1>n DEF Between
    <2> QED  BY <1>a, <1>n, <2>1 DEF OnTheWay, Between
  <1>3. \A s, t \in Workers : (Handling(s, t)' <=> Handling(s, t)) /\ (Queued(s, t)' <=> Queued(s, t))
    BY <1>a DEF Handling, Queued
  <1>4. \A s, t \in Workers : IsOwed(s, t)' <=> IsOwed(s, t) \/ (s = p /\ t # p)
    BY <1>2, <1>3 DEF IsOwed
  <1>5. \A t \in Workers : ~OnTheWay(p, t) /\ ~Handling(p, t) /\ ~Queued(p, t)
    BY <1>o DEF IsOwed
  <1>6. NoSelf'  BY <1>a, <1>n DEF NoSelf
  <1>7. Phases'
    <2>1. \A w \in Workers, u \in Requesters : ~Idle(w, u)' => ~Idle(w, u) \/ (w = p /\ u = r)
      BY <1>c DEF Idle
    <2> QED  BY <1>a, <2>1 DEF Phases, MayAsk, StoreMutexFree, Idle, Requesters
  <1>8. OncePerPair'
    <2>1. \A s, t \in Workers : \A k, m \in messages' : Between(k, s, t) /\ Between(m, s, t) => k = m
      <3> SUFFICES ASSUME NEW s \in Workers, NEW t \in Workers, NEW k \in messages', NEW m \in messages',
                          Between(k, s, t), Between(m, s, t)
                   PROVE  k = m
        OBVIOUS
      <3>1. ASSUME NEW x \in new, Between(x, s, t)
            PROVE  s = p /\ x.to = t
        BY <1>n, <3>1 DEF Between
      <3>2. CASE k \in new \/ m \in new
        <4>1. s = p  BY <3>1, <3>2
        <4>2. k \in new /\ m \in new  BY <4>1, <1>a, <1>5 DEF OnTheWay
        <4> QED  BY <4>2, <3>1, <1>n
      <3>3. CASE k \in messages /\ m \in messages  BY <3>3 DEF OncePerPair
      <3> QED  BY <3>2, <3>3, <1>a
    <2>2. \A s, t \in Workers : OnTheWay(s, t)' => ~Handling(s, t)' /\ ~Queued(s, t)'
      BY <1>2, <1>3, <1>5 DEF OncePerPair
    <2>3. \A s, t \in Workers : Handling(s, t)' => ~Queued(s, t)'
      BY <1>3 DEF OncePerPair
    <2> QED  BY <1>a, <2>1, <2>2, <2>3 DEF OncePerPair, Between
  <1>9. Accounted'
    <2> SUFFICES ASSUME NEW s \in Workers PROVE Account(s)'  BY DEF Accounted
    <2>1. CASE s # p
      <3>1. Waiting(s)' <=> Waiting(s)  BY <2>1, <1>c DEF Waiting
      <3> QED  BY <1>a, <1>4, <2>1, <3>1, AccountUnchanged DEF Accounted
    <2>2. CASE s = p
      <3>1. Asking(p)'  BY <1>a, <1>c, <1>o DEF Asking, Waiting
      <3>2. Counted(p)' = {}  BY <1>4 DEF Counted
      <3>3. received_replies'[p] = Cardinality(Counted(p)')
        BY <1>a, <1>o, <3>2, FS_EmptySet
      <3> QED  BY <2>2, <1>a, <1>o, <3>1, <3>3 DEF Account, Asking
    <2> QED  BY <2>1, <2>2
  <1>10. CurrentTimes'
    <2>1. \A m \in messages : m.type = "REQUEST" => m.from \in Workers \ {p}
      BY <1>5 DEF OnTheWay, Between, TypeOK, Messages
    <2>2. \A q \in Workers : callback[q] # "idle" => received[q].from \in Workers \ {p}
      BY <1>5, HandledRequest DEF Handling
    <2>3. \A m \in messages' : m.type = "REQUEST" => m.lamport = request_lamport_time'[m.from]
      BY <1>a, <1>l, <1>n, <2>1 DEF CurrentTimes
    <2>4. \A q \in Workers :
            callback[q] # "idle" => received[q].lamport = request_lamport_time'[received[q].from]
      BY <1>l, <2>2 DEF CurrentTimes
    <2> QED  BY <1>a, <2>3, <2>4 DEF CurrentTimes
  <1>11. Ordered'
    <2> SUFFICES ASSUME NEW s \in Workers, NEW t \in Workers, s # t, MainRequests(s)'
                 PROVE  /\ mqtt_request_open'[s]
                        /\ request_lamport_time'[s] \in Nat
                        /\ ~Unheard(s, t)' => lamport_time'[t] > request_lamport_time'[s]
                        /\ MainRequests(t)' /\ ~Pending(s, t)' => Before(s, t)'
      BY DEF Ordered
    <2>1. Unheard(s, t)' <=> Unheard(s, t) \/ s = p
      BY <1>a, <1>n DEF Unheard
    <2>2. Pending(s, t)' <=> Pending(s, t) \/ s = p
      BY <1>a, <1>3, <2>1 DEF Pending
    <2>3. CASE s = p  BY <2>1, <2>2, <2>3, <1>l, <1>n
    <2>4. CASE s # p
      <3>1. MainRequests(s)  BY <2>4, <1>c DEF MainRequests, Requesters
      <3>2. /\ mqtt_request_open[s] /\ request_lamport_time[s] \in Nat
            /\ ~Unheard(s, t) => lamport_time[t] > request_lamport_time[s]
            /\ MainRequests(t) /\ ~Pending(s, t) => Before(s, t)
        BY <3>1 DEF Ordered
      <3>3. ~Unheard(s, t) => lamport_time'[t] > request_lamport_time[s]
        <4>1. lamport_time[t] \in Nat /\ lamport_time'[t] \in Nat /\ lamport_time'[t] >= lamport_time[t]
          BY <1>t DEF TypeOK
        <4> QED  BY <3>2, <4>1
      <3>4. CASE t # p
        <4>1. MainRequests(t)' => MainRequests(t)  BY <3>4, <1>c DEF MainRequests, Requesters
        <4> QED  BY <2>1, <2>2, <2>4, <3>2, <3>3, <3>4, <4>1, <1>l DEF Before
      <3>5. CASE t = p
        <4>1. ~Pending(s, t)' => lamport_time'[p] > request_lamport_time[s]
          BY <2>2, <3>3, <3>5 DEF Pending
        <4> QED  BY <2>1, <2>4, <3>2, <3>3, <3>5, <4>1, <1>l DEF Before
      <3> QED  BY <3>4, <3>5
    <2> QED  BY <2>3, <2>4
  <1> QED  BY <1>1, <1>6, <1>7, <1>8, <1>9, <1>10, <1>11

\* A single worker needs no reply.
LEMMA SingleWorkerStep ==
  ASSUME IInv, NEW p \in Workers, NEW r \in Requesters, MayAsk(p, r), ~(NumberWorkers > 1),
         MqttRequest(<<p, r>>), UNCHANGED callbackVars, UNCHANGED controllerVars
  PROVE  IInv'
  <1> DEFINE th == <<p, r>>
  <1> USE DEF IInv, callbackVars, controllerVars, lockVars
  <1>a. /\ pc' = [pc EXCEPT ![th] = "critical"] /\ th \in Threads
        /\ UNCHANGED <<lamport_time, request_lamport_time, mqtt_request_open, received_replies,
                       sem_write_database, req_worker_numbers, callback, received, messages,
                       stores_left, failures>>
    BY DEF MqttRequest, Goto, Threads
  <1>b. \A s, t \in Workers : s = t
    <2> HIDE DEF IInv
    <2>1. NumberWorkers = 1  BY WriteLockAssumption
    <2>2. \A s \in Workers : s = 0  BY <2>1 DEF Workers
    <2> QED  BY <2>2
  <1>c. \A w \in Workers, u \in Requesters :
          /\ <<w, u>> # th => pc'[<<w, u>>] = pc[<<w, u>>]
          /\ <<w, u>> = th => pc'[<<w, u>>] = "critical" /\ pc[<<w, u>>] = "idle"
    BY <1>a DEF TypeOK, Threads, MayAsk, StoreMutexFree, Idle
  <1>1. TypeOK'
    <2>1. pc' \in [Threads -> ThreadStates]  BY <1>a DEF TypeOK, ThreadStates
    <2> QED  BY <1>a, <2>1 DEF TypeOK
  <1>2. \A s, t \in Workers : IsOwed(s, t)' <=> IsOwed(s, t)
    BY <1>a DEF IsOwed, OnTheWay, Handling, Queued
  <1>3. NoSelf'  BY <1>a DEF NoSelf
  <1>4. Phases'
    <2>1. \A w \in Workers, u \in Requesters : ~Idle(w, u)' => ~Idle(w, u) \/ (w = p /\ u = r)
      BY <1>c DEF Idle
    <2> QED  BY <1>a, <1>b, <2>1 DEF Phases, MayAsk, Requesters
  <1>5. OncePerPair'  BY <1>a DEF OncePerPair, OnTheWay, Handling, Queued
  <1>6. Accounted'
    <2>1. \A s \in Workers : Waiting(s)' <=> Waiting(s)
      BY <1>c DEF Waiting
    <2> QED  BY <1>a, <1>2, <2>1, AccountUnchanged DEF Accounted
  <1>7. CurrentTimes'  BY <1>a DEF CurrentTimes
  <1>8. Ordered'  BY <1>b DEF Ordered
  <1> QED  BY <1>1, <1>3, <1>4, <1>5, <1>6, <1>7, <1>8

\* A thread gives the access back, reply by reply, or loses it with a POST.
LEMMA LeaveStep ==
  ASSUME IInv, NEW p \in Workers, NEW r \in Requesters,
         \/ StartResponding(<<p, r>>) \/ CloseRequest(<<p, r>>)
         \/ r = "rpc" /\ DatabaseFailed(p)
  PROVE  IInv'
  <1> USE DEF callbackVars, controllerVars, lockVars
  <1>0. failures \in 0 .. MaxFailures  BY DEF IInv, TypeOK
  <1>1. CASE StartResponding(<<p, r>>)
    <2>1. /\ pc[<<p, r>>] = "critical" /\ Goto(<<p, r>>, "respond")
          /\ UNCHANGED <<mqtt_request_open, stores_left, failures>>
          /\ UNCHANGED <<lamport_time, request_lamport_time, received_replies, sem_write_database,
                         req_worker_numbers, callback, received, messages>>
      BY <1>1 DEF StartResponding
    <2>2. "respond" \in ThreadStates /\ ~Idle(p, r)  BY <2>1 DEF ThreadStates, Idle
    <2> QED  BY <1>0, <2>1, <2>2, MoveOnStep
  <1>2. CASE CloseRequest(<<p, r>>)
    <2> DEFINE label == IF r = "rpc" THEN "idle" ELSE "printed"
    <2>1. /\ pc[<<p, r>>] = "respond" /\ Goto(<<p, r>>, label)
          /\ mqtt_request_open' = [mqtt_request_open EXCEPT ![p] = FALSE]
          /\ stores_left' = IF r = "rpc" THEN stores_left - 1 ELSE stores_left
          /\ UNCHANGED failures
          /\ UNCHANGED <<lamport_time, request_lamport_time, received_replies, sem_write_database,
                         req_worker_numbers, callback, received, messages>>
      BY <1>2 DEF CloseRequest, LeaveRequest
    <2>2. /\ label \in ThreadStates /\ ~Idle(p, r) /\ label # "waiting" /\ label # "critical"
          /\ label = "idle" <=> r = "rpc"
      BY <2>1 DEF ThreadStates, Idle
    <2>3. stores_left' # stores_left => label = "idle"  BY <2>1
    <2> HIDE DEF label
    <2> QED  BY <1>0, <2>1, <2>2, <2>3, MoveOnStep
  <1>3. CASE r = "rpc" /\ DatabaseFailed(p)
    <2>1. /\ pc[<<p, r>>] = "critical" /\ Goto(<<p, r>>, "idle")
          /\ UNCHANGED <<mqtt_request_open, stores_left>>
          /\ failures < MaxFailures /\ failures' = failures + 1
          /\ UNCHANGED <<lamport_time, request_lamport_time, received_replies, sem_write_database,
                         req_worker_numbers, callback, received, messages>>
      BY <1>3 DEF DatabaseFailed
    <2>2. "idle" \in ThreadStates /\ ~Idle(p, r)  BY <2>1 DEF ThreadStates, Idle
    <2>3. failures' \in 0 .. MaxFailures  BY <1>0, <2>1, WriteLockAssumption
    <2> QED  BY <1>3, <2>1, <2>2, <2>3, MoveOnStep
  <1> QED  BY <1>1, <1>2, <1>3

\* The controller's calls and main's loop ask only when they may; main only
\* after the controller's calculationIsFinished, as no time is over.
LEMMA AskStep ==
  ASSUME IInv, TimeoutWorkers = {}, NEW p \in Workers, SendTaskResult(p) \/ LeaveLoop(p)
  PROVE  IInv'
  <1>1. \E r \in Requesters :
          /\ MayAsk(p, r) /\ MqttRequest(<<p, r>>)
          /\ UNCHANGED callbackVars /\ UNCHANGED controllerVars
    BY DEF SendTaskResult, LeaveLoop, MayAsk, Requesters, Idle
  <1> QED  BY <1>1, MqttRequestStep, SingleWorkerStep

-----------------------------------------------------------------------------
(***************************************************************************)
(* The theorems                                                            *)
(***************************************************************************)

\* Nothing is asked for and nothing is owed at first.
LEMMA InitHolds == Init => IInv
  <1> SUFFICES ASSUME Init PROVE IInv  OBVIOUS
  <1> USE DEF Init
  <1>1. \A p \in Workers, r \in Requesters : Idle(p, r)  BY DEF Idle, Threads
  <1>2. \A s, t \in Workers : ~OnTheWay(s, t) /\ ~Handling(s, t) /\ ~Queued(s, t)
    BY DEF OnTheWay, Handling, Queued
  <1>3. TypeOK
    <2>1. NumberWorkers \in Nat \ {0} /\ NumberStores \in Nat /\ MaxFailures \in Nat
      BY WriteLockAssumption
    <2>2. <<>> \in Seq(Workers)  OBVIOUS
    <2>3. -1 \in Nat \cup {-1} /\ 0 \in Nat  OBVIOUS
    <2>4. pc \in [Threads -> ThreadStates]  BY DEF ThreadStates
    <2>5. callback \in [Workers -> CallbackStates]  BY DEF CallbackStates
    <2>6. NumberStores \in 0 .. NumberStores /\ 0 \in 0 .. MaxFailures  BY <2>1
    <2> QED  BY <2>2, <2>3, <2>4, <2>5, <2>6 DEF TypeOK
  <1>4. NoSelf  BY DEF NoSelf
  <1>5. Phases  BY <1>1 DEF Phases, Requesters
  <1>6. OncePerPair  BY <1>2 DEF OncePerPair
  <1>7. Accounted
    <2>1. \A p \in Workers : ~Waiting(p)  BY <1>1 DEF Waiting, Idle
    <2>2. \A s, t \in Workers : ~IsOwed(s, t)  BY <1>2 DEF IsOwed
    <2>3. \A p \in Workers : sem_write_database[p] = 0 /\ received_replies[p] = 0
      OBVIOUS
    <2> QED  BY <2>1, <2>2, <2>3 DEF Accounted, Account, Asking
  <1>8. CurrentTimes  BY DEF CurrentTimes
  <1>9. Ordered  BY <1>1 DEF Ordered, MainRequests, Idle, Requesters
  <1> QED  BY <1>3, <1>4, <1>5, <1>6, <1>7, <1>8, <1>9 DEF IInv

\* Every step keeps the invariant.
LEMMA StepHolds ==
  ASSUME IInv, TimeoutWorkers = {}, [Next]_vars
  PROVE  IInv'
  <1>1. ASSUME NEW p \in Workers, CallbackStep(p) PROVE IInv'
    BY <1>1, ReceiveReplyStep, ReceiveRequestStep, ReadRequestOpenStep, CompareRequestsStep,
       QueueRequestStep, ReplyImmediatelyStep DEF CallbackStep
  <1>2. ASSUME NEW p \in Workers, NEW r \in Requesters, RequesterStep(<<p, r>>) PROVE IInv'
    BY <1>2, AcquireStep, RespondToOpenRequestStep, LeaveStep DEF RequesterStep
  <1>3. ASSUME NEW p \in Workers, RpcStep(p) \/ MainStep(p) PROVE IInv'
    BY <1>2, <1>3 DEF RpcStep, MainStep, Requesters
  <1>4. ASSUME NEW p \in Workers, DatabaseFailed(p) PROVE IInv'
    BY <1>4, LeaveStep DEF Requesters
  <1>5. ASSUME NEW p \in Workers, SendTaskResult(p) \/ LeaveLoop(p) PROVE IInv'
    BY <1>5, AskStep
  <1>6. CASE UNCHANGED vars
    <2> USE DEF vars, lockVars, callbackVars, controllerVars
    <2>1. TypeOK'  BY <1>6 DEF IInv, TypeOK
    <2>2. NoSelf' /\ Phases'  BY <1>6 DEF IInv, NoSelf, Phases, Idle
    <2>3. OncePerPair'  BY <1>6 DEF IInv, OncePerPair, OnTheWay, Handling, Queued
    <2>4. \A s, t \in Workers : IsOwed(s, t)' <=> IsOwed(s, t)
      BY <1>6 DEF IsOwed, OnTheWay, Handling, Queued
    <2>5. \A s \in Workers : Waiting(s)' <=> Waiting(s)  BY <1>6 DEF Waiting
    <2>6. Accounted'  BY <1>6, <2>4, <2>5, AccountUnchanged DEF IInv, Accounted
    <2>7. CurrentTimes'  BY <1>6 DEF IInv, CurrentTimes
    <2>8. Ordered'
      BY <1>6 DEF IInv, Ordered, MainRequests, Unheard, Pending, Handling, Queued, Before
    <2> QED  BY <2>1, <2>2, <2>3, <2>6, <2>7, <2>8 DEF IInv
  <1> QED  BY <1>1, <1>3, <1>4, <1>5, <1>6 DEF Next

\* The inductive invariant holds.
THEOREM Invariance ==
  ASSUME TimeoutWorkers = {}
  PROVE  Spec => []IInv
  <1> QED  BY InitHolds, StepHolds, PTL DEF Spec

\* Every variable keeps its type; received_replies stays below the number of
\* the other workers.
THEOREM TypeCorrect ==
  ASSUME TimeoutWorkers = {}
  PROVE  Spec => []TypeOK
  <1>1. IInv => TypeOK  BY DEF IInv
  <1> QED  BY <1>1, Invariance, PTL

\* No two threads, of one worker or of two, are in the critical section: the
\* main threads of two workers would each come before the other.
THEOREM Exclusion ==
  ASSUME TimeoutWorkers = {}
  PROVE  Spec => []MutualExclusion
  <1>1. ASSUME IInv PROVE MutualExclusion
    <2> USE DEF IInv
    <2>1. ASSUME NEW p \in Workers, NEW r \in Requesters, pc[<<p, r>>] = "critical",
                 NEW q \in Workers, NEW u \in Requesters, pc[<<q, u>>] = "critical"
          PROVE  p = q /\ r = u
      <3>1. ~Idle(p, r) /\ ~Idle(q, u)  BY <2>1 DEF Idle
      <3>2. CASE p = q
        <4>1. \A v \in Requesters : v # r => Idle(p, v)  BY <1>1, <3>1, OneThreadAtWork
        <4> QED  BY <3>1, <3>2, <4>1
      <3>3. CASE p # q
        <4>1. r = "main" /\ u = "main"
          <5>1. ~(stores_left > 0 /\ stores_left = 0)  OBVIOUS
          <5>2. r # "rpc" \/ u # "rpc"  BY <1>1, <3>1, <3>3 DEF Phases
          <5>3. ~(r = "rpc" /\ u = "main") /\ ~(r = "main" /\ u = "rpc")
            BY <1>1, <3>1, <5>1 DEF Phases
          <5> QED  BY <5>2, <5>3 DEF Requesters
        <4>2. MainRequests(p) /\ MainRequests(q)  BY <2>1, <4>1 DEF MainRequests
        <4>3. ~Waiting(p) /\ ~Waiting(q)
          BY <1>1, <2>1, <3>1, OneThreadAtWork
        <4>4. ~IsOwed(p, q) /\ ~IsOwed(q, p)
          BY <1>1, <4>3 DEF Accounted, Account, Asking
        <4>5. ~Pending(p, q) /\ ~Pending(q, p)
          BY <4>4 DEF Pending, IsOwed, Unheard, OnTheWay, Between
        <4>6. /\ request_lamport_time[p] \in Nat /\ request_lamport_time[q] \in Nat
              /\ Before(p, q) /\ Before(q, p)
          BY <1>1, <3>3, <4>2, <4>5 DEF Ordered
        <4>7. p \in Int /\ q \in Int  BY DEF Workers
        <4>8. FALSE
          <5> HIDE DEF IInv
          <5> QED  BY <4>6, <4>7 DEF Before
        <4> QED  BY <4>8
      <3> QED  BY <3>2, <3>3
    <2>2. SUFFICES ASSUME NEW s \in Critical, NEW t \in Critical PROVE s = t
      BY DEF MutualExclusion
    <2>3. /\ \E p \in Workers, r \in Requesters : s = <<p, r>>
          /\ \E q \in Workers, u \in Requesters : t = <<q, u>>
          /\ pc[s] = "critical" /\ pc[t] = "critical"
      BY DEF Critical, Threads
    <2> QED  BY <2>1, <2>3
  <1> QED  BY <1>1, Invariance, PTL

\* What is owed is one request, or one reply, in one place.
LEMMA OwedOnce ==
  ASSUME IInv, NEW p \in Workers, NEW q \in Workers
  PROVE  Owed(p, q) = IF IsOwed(p, q) THEN 1 ELSE 0
  <1> USE DEF IInv
  <1>1. Cardinality(Travelling(p, q)) = IF OnTheWay(p, q) THEN 1 ELSE 0
    <2>1. Travelling(p, q) = {m \in messages : Between(m, p, q)}
      BY DEF Travelling, Between
    <2>2. CASE OnTheWay(p, q)
      <3>1. PICK m \in messages : Between(m, p, q)  BY <2>2 DEF OnTheWay
      <3>2. Travelling(p, q) = {m}  BY <2>1, <3>1 DEF OncePerPair
      <3> QED  BY <2>2, <3>2, FS_Singleton
    <2>3. CASE ~OnTheWay(p, q)
      <3>1. Travelling(p, q) = {}  BY <2>1, <2>3 DEF OnTheWay
      <3> QED  BY <2>3, <3>1, FS_EmptySet
    <2> QED  BY <2>2, <2>3
  <1>2. Cardinality(Deferred(p, q)) = IF Queued(p, q) THEN 1 ELSE 0
    <2>1. CASE Queued(p, q)
      <3>1. PICK i \in DOMAIN req_worker_numbers[q] : req_worker_numbers[q][i] = p
        BY <2>1 DEF Queued
      <3>2. Deferred(p, q) = {i}  BY <3>1 DEF Deferred, OncePerPair
      <3> QED  BY <2>1, <3>2, FS_Singleton
    <2>2. CASE ~Queued(p, q)
      <3>1. Deferred(p, q) = {}  BY <2>2 DEF Deferred, Queued
      <3> QED  BY <2>2, <3>1, FS_EmptySet
    <2> QED  BY <2>1, <2>2
  <1>3. /\ OnTheWay(p, q) => ~Handling(p, q) /\ ~Queued(p, q)
        /\ Handling(p, q) => ~Queued(p, q)
    BY DEF OncePerPair
  <1> HIDE DEF IInv
  <1>4. CASE OnTheWay(p, q)  BY <1>1, <1>2, <1>3, <1>4 DEF Owed, One, IsOwed
  <1>5. CASE Handling(p, q)  BY <1>1, <1>2, <1>3, <1>5 DEF Owed, One, IsOwed
  <1>6. CASE Queued(p, q)  BY <1>1, <1>2, <1>3, <1>6 DEF Owed, One, IsOwed
  <1>7. CASE ~IsOwed(p, q)  BY <1>1, <1>2, <1>7 DEF Owed, One, IsOwed
  <1> QED  BY <1>4, <1>5, <1>6, <1>7 DEF IsOwed

\* No reply is lost, counted twice or left over for a later request.
THEOREM ReplyAccounting ==
  ASSUME TimeoutWorkers = {}
  PROVE  Spec => []RepliesAccounted
  <1>1. ASSUME IInv PROVE RepliesAccounted
    <2> SUFFICES ASSUME NEW p \in Workers
                 PROVE  IF Waiting(p) /\ sem_write_database[p] = 0
                        THEN LET owed == [q \in Workers \ {p} |-> Owed(p, q)] IN
                             /\ \A q \in Workers \ {p} : owed[q] \in {0, 1}
                             /\ received_replies[p] = Cardinality({q \in Workers \ {p} : owed[q] = 0})
                        ELSE /\ received_replies[p] = 0
                             /\ \A q \in Workers \ {p} : Owed(p, q) = 0
      BY DEF RepliesAccounted
    <2> DEFINE owed == [q \in Workers \ {p} |-> Owed(p, q)]
    <2>1. \A q \in Workers : Owed(p, q) = IF IsOwed(p, q) THEN 1 ELSE 0
      BY <1>1, OwedOnce
    <2>2. Account(p)  BY <1>1 DEF IInv, Accounted
    <2>3. CASE Asking(p)
      <3>1. \A q \in Workers \ {p} : owed[q] = IF IsOwed(p, q) THEN 1 ELSE 0
        BY <2>1
      <3>2. {q \in Workers \ {p} : owed[q] = 0} = Counted(p)
        BY <3>1 DEF Counted
      <3>3. received_replies[p] = Cardinality({q \in Workers \ {p} : owed[q] = 0})
        BY <2>2, <2>3, <3>2 DEF Account
      <3> QED  BY <2>3, <3>1, <3>3 DEF Asking
    <2>4. CASE ~Asking(p)
      BY <2>1, <2>2, <2>4 DEF Account, Asking
    <2> QED  BY <2>3, <2>4
  <1> QED  BY <1>1, Invariance, PTL

-----------------------------------------------------------------------------
(***************************************************************************)
(* No POST fails: who is left waiting                                      *)
(***************************************************************************)

\* A worker that asks has one thread that waits; it is a main thread if
\* another worker's is at work too.
LEMMA AskersAreMains ==
  ASSUME IInv, NEW p \in Workers, NEW q \in Workers, p # q, IsOwed(p, q),
         NEW r \in Requesters, ~Idle(q, r)
  PROVE  r = "main"
  <1> USE DEF IInv
  <1>1. Waiting(p)  BY DEF Accounted, Account, Asking
  <1>2. PICK u \in Requesters : ~Idle(p, u)  BY <1>1 DEF Waiting, Idle
  <1>3. ~(stores_left > 0 /\ stores_left = 0)  OBVIOUS
  <1>4. u = "rpc" => r = "main"  BY <1>2 DEF Phases, Requesters
  <1>5. u = "main" => r = "main"  BY <1>2, <1>3 DEF Phases, Requesters
  <1> QED  BY <1>2, <1>4, <1>5 DEF Requesters

\* A request is closed by the thread that made it.
LEMMA OpenStep ==
  ASSUME IInv, failures' = 0, OpenMeansRequesting, [Next]_vars
  PROVE  OpenMeansRequesting'
  <1> USE DEF lockVars, callbackVars, controllerVars
  <1>t. TypeOK  BY DEF IInv
  <1> DEFINE Busy(p) == \E r \in Requesters : pc[<<p, r>>] \in {"waiting", "critical", "respond"}
  <1>0. \A p \in Workers : mqtt_request_open[p] => Busy(p)
    BY DEF OpenMeansRequesting
  <1>m. ASSUME NEW p \in Workers, NEW r \in Requesters, NEW label,
               pc' = [pc EXCEPT ![<<p, r>>] = label],
               label \in {"waiting", "critical", "respond"}
        PROVE  \A q \in Workers : Busy(q) => Busy(q)'
    BY <1>m, <1>t DEF TypeOK, Threads
  <1>1. ASSUME NEW p \in Workers, CallbackStep(p) PROVE OpenMeansRequesting'
    <2>1. UNCHANGED <<mqtt_request_open, pc>>
      BY <1>1 DEF CallbackStep, ReceiveReply, ReceiveRequest, ReadRequestOpen, CompareRequests,
                  QueueRequest, ReplyImmediately
    <2> QED  BY <1>0, <2>1 DEF OpenMeansRequesting
  <1>2. ASSUME NEW p \in Workers, NEW r \in Requesters, RequesterStep(<<p, r>>)
        PROVE  OpenMeansRequesting'
    <2>1. CASE RespondToOpenRequest(<<p, r>>)
      <3>1. UNCHANGED <<mqtt_request_open, pc>>  BY <2>1 DEF RespondToOpenRequest
      <3> QED  BY <1>0, <3>1 DEF OpenMeansRequesting
    <2>2. CASE Acquire(<<p, r>>) \/ StartResponding(<<p, r>>)
      <3>1. PICK label \in {"critical", "respond"} : pc' = [pc EXCEPT ![<<p, r>>] = label]
        BY <2>2 DEF Acquire, StartResponding, Goto
      <3>2. mqtt_request_open' = mqtt_request_open
        BY <2>2 DEF Acquire, StartResponding
      <3> QED  BY <1>0, <1>m, <3>1, <3>2 DEF OpenMeansRequesting
    <2>3. CASE CloseRequest(<<p, r>>)
      <3>1. /\ mqtt_request_open' = [mqtt_request_open EXCEPT ![p] = FALSE]
            /\ \E label : pc' = [pc EXCEPT ![<<p, r>>] = label]
        BY <2>3 DEF CloseRequest, LeaveRequest, Goto
      <3>2. \A q \in Workers \ {p}, u \in Requesters : pc'[<<q, u>>] = pc[<<q, u>>]
        BY <1>t, <3>1 DEF TypeOK, Threads
      <3>3. \A q \in Workers \ {p} : mqtt_request_open'[q] = mqtt_request_open[q]
        BY <1>t, <3>1 DEF TypeOK
      <3>4. ~mqtt_request_open'[p]  BY <1>t, <3>1 DEF TypeOK
      <3> QED  BY <1>0, <3>2, <3>3, <3>4 DEF OpenMeansRequesting
    <2> QED  BY <1>2, <2>1, <2>2, <2>3 DEF RequesterStep
  <1>3. ASSUME NEW p \in Workers, SendTaskResult(p) \/ LeaveLoop(p) PROVE OpenMeansRequesting'
    <2>1. PICK r \in Requesters : MqttRequest(<<p, r>>)
      BY <1>3 DEF SendTaskResult, LeaveLoop, Requesters
    <2>2. PICK label \in {"waiting", "critical"} : pc' = [pc EXCEPT ![<<p, r>>] = label]
      BY <2>1 DEF MqttRequest, Goto
    <2>3. \A q \in Workers \ {p} : mqtt_request_open'[q] = mqtt_request_open[q]
      BY <1>t, <2>1 DEF MqttRequest, TypeOK
    <2>4. Busy(p)'  BY <1>t, <2>2 DEF TypeOK, Threads
    <2>5. \A q \in Workers : Busy(q) => Busy(q)'  BY <1>m, <2>2
    <2> QED  BY <1>0, <2>3, <2>4, <2>5 DEF OpenMeansRequesting
  <1>4. \A p \in Workers : ~DatabaseFailed(p)
    <2>1. failures \in Nat  BY <1>t, WriteLockAssumption DEF TypeOK
    <2>2. failures + 1 # failures'  BY <2>1
    <2> QED  BY <2>2 DEF DatabaseFailed
  <1>5. CASE UNCHANGED vars  BY <1>0, <1>5 DEF vars, OpenMeansRequesting
  <1> QED  BY <1>1, <1>2, <1>3, <1>4, <1>5 DEF Next, RpcStep, MainStep, Requesters

\* A request comes to be held back by the callback's read of an open request
\* only, and to be deferred by its comparison only.
LEMMA HoldingStep ==
  ASSUME IInv, [Next]_vars, NEW s \in Workers, NEW t \in Workers
  PROVE  /\ Holding(s, t)' =>
              Holding(s, t) \/ (Handling(s, t) /\ ReadRequestOpen(t) /\ mqtt_request_open[t])
         /\ Deferring(s, t)' =>
              Deferring(s, t) \/ (Handling(s, t) /\ CompareRequests(t) /\ ~ReceivedGoesFirst(t))
  <1> USE DEF lockVars, callbackVars, controllerVars, Holding, Deferring
  <1>t. TypeOK  BY DEF IInv
  <1>s. ASSUME Handling(s, t)' => Handling(s, t) /\ callback'[t] = callback[t],
               Queued(s, t)' => Queued(s, t)
        PROVE  (Holding(s, t)' => Holding(s, t)) /\ (Deferring(s, t)' => Deferring(s, t))
    BY <1>s
  <1>1. ASSUME NEW p \in Workers, QueueRequest(p)
        PROVE  (Holding(s, t)' => Holding(s, t)) /\ (Deferring(s, t)' => Deferring(s, t))
    <2> DEFINE f == received[p].from
               s0 == req_worker_numbers[p]
    <2>1. /\ callback[p] = "queue" /\ Handling(f, p)
          /\ callback' = [callback EXCEPT ![p] = "idle"]
          /\ received' = [received EXCEPT ![p] = NoMessage]
          /\ req_worker_numbers' = [req_worker_numbers EXCEPT ![p] = Append(s0, f)]
      BY <1>1 DEF QueueRequest, Return, Handling
    <2>2. Handling(s, t)' => Handling(s, t) /\ callback'[t] = callback[t]
      BY <1>t, <2>1 DEF Handling, TypeOK
    <2>3. CASE t # p
      <3>1. req_worker_numbers'[t] = req_worker_numbers[t]  BY <1>t, <2>1, <2>3 DEF TypeOK
      <3> QED  BY <1>s, <2>2, <3>1 DEF Queued
    <2>4. CASE t = p
      <3>1. f \in Workers /\ s0 \in Seq(Workers)
        BY <1>t, <2>1, HandledRequest DEF TypeOK
      <3>2. req_worker_numbers'[p] = Append(s0, f)  BY <1>t, <2>1 DEF TypeOK
      <3>3. Queued(s, p)' => Queued(s, p) \/ s = f
        <4>1. \A i \in 1 .. Len(s0) + 1 : i \in 1 .. Len(s0) \/ i = Len(s0) + 1
          BY <3>1, AppendFacts
        <4> QED  BY <3>1, <3>2, <4>1, AppendFacts DEF Queued
      <3>4. s = f => Handling(s, p)  BY <2>1
      <3> QED  BY <2>1, <2>2, <2>4, <3>3, <3>4
    <2> QED  BY <2>3, <2>4
  <1>2. ASSUME NEW p \in Workers, ReceiveReply(p)
        PROVE  (Holding(s, t)' => Holding(s, t)) /\ (Deferring(s, t)' => Deferring(s, t))
    BY <1>2 DEF ReceiveReply, Handling, Queued
  <1>3. ASSUME NEW p \in Workers, ReceiveRequest(p)
        PROVE  (Holding(s, t)' => Holding(s, t)) /\ (Deferring(s, t)' => Deferring(s, t))
    BY <1>t, <1>3 DEF ReceiveRequest, Handling, Queued, TypeOK
  <1>4. ASSUME NEW p \in Workers, ReplyImmediately(p)
        PROVE  (Holding(s, t)' => Holding(s, t)) /\ (Deferring(s, t)' => Deferring(s, t))
    BY <1>t, <1>4 DEF ReplyImmediately, Return, Handling, Queued, TypeOK
  <1>5. ASSUME NEW p \in Workers, ReadRequestOpen(p)
        PROVE  /\ Holding(s, t)' => Holding(s, t) \/ (Handling(s, t) /\ t = p /\ mqtt_request_open[p])
               /\ Deferring(s, t)' => Deferring(s, t)
    BY <1>t, <1>5 DEF ReadRequestOpen, Handling, Queued, TypeOK
  <1>6. ASSUME NEW p \in Workers, CompareRequests(p)
        PROVE  /\ Holding(s, t)' => Holding(s, t)
               /\ Deferring(s, t)' =>
                    Deferring(s, t) \/ (Handling(s, t) /\ t = p /\ ~ReceivedGoesFirst(p))
    BY <1>t, <1>6 DEF CompareRequests, Handling, Queued, TypeOK
  <1>7. ASSUME NEW p \in Workers, NEW r \in Requesters, RespondToOpenRequest(<<p, r>>)
        PROVE  (Holding(s, t)' => Holding(s, t)) /\ (Deferring(s, t)' => Deferring(s, t))
    <2> DEFINE s0 == req_worker_numbers[p]
    <2>1. /\ s0 # <<>> /\ UNCHANGED <<callback, received>>
          /\ req_worker_numbers' = [req_worker_numbers EXCEPT ![p] = Tail(s0)]
      BY <1>7 DEF RespondToOpenRequest
    <2>2. Handling(s, t)' => Handling(s, t) /\ callback'[t] = callback[t]
      BY <2>1 DEF Handling
    <2>3. CASE t # p
      <3>1. req_worker_numbers'[t] = req_worker_numbers[t]  BY <1>t, <2>1, <2>3 DEF TypeOK
      <3> QED  BY <1>s, <2>2, <3>1 DEF Queued
    <2>4. CASE t = p
      <3>1. s0 \in Seq(Workers) /\ req_worker_numbers'[p] = Tail(s0)
        BY <1>t, <2>1 DEF TypeOK
      <3>2. \A i, j \in DOMAIN s0 : s0[i] = s0[j] => i = j  BY DEF IInv, OncePerPair
      <3>3. \A x : (\E i \in DOMAIN Tail(s0) : Tail(s0)[i] = x) => \E i \in DOMAIN s0 : s0[i] = x
        <4> HIDE DEF s0
        <4> QED  BY <2>1, <3>1, <3>2, TailOfDistinct
      <3>4. Queued(s, p)' => Queued(s, p)  BY <3>1, <3>3 DEF Queued
      <3> QED  BY <1>s, <2>2, <2>4, <3>4
    <2> QED  BY <2>3, <2>4
  <1>8. ASSUME UNCHANGED <<callback, received, req_worker_numbers>>
        PROVE  (Holding(s, t)' => Holding(s, t)) /\ (Deferring(s, t)' => Deferring(s, t))
    BY <1>8 DEF Handling, Queued
  <1>9. ASSUME NEW p \in Workers, NEW r \in Requesters,
               Acquire(<<p, r>>) \/ StartResponding(<<p, r>>) \/ CloseRequest(<<p, r>>)
        PROVE  UNCHANGED <<callback, received, req_worker_numbers>>
    BY <1>9 DEF Acquire, StartResponding, CloseRequest
  <1>10. ASSUME NEW p \in Workers, SendTaskResult(p) \/ LeaveLoop(p) \/ DatabaseFailed(p)
         PROVE  UNCHANGED <<callback, received, req_worker_numbers>>
    BY <1>10 DEF SendTaskResult, LeaveLoop, DatabaseFailed, MqttRequest
  <1>11. CASE \E p \in Workers : CallbackStep(p)
    BY <1>1, <1>2, <1>3, <1>4, <1>5, <1>6, <1>11 DEF CallbackStep
  <1>12. CASE \E p \in Workers, r \in Requesters : RequesterStep(<<p, r>>)
    BY <1>7, <1>8, <1>9, <1>12 DEF RequesterStep
  <1>13. CASE \E p \in Workers : SendTaskResult(p) \/ LeaveLoop(p) \/ DatabaseFailed(p)
    BY <1>8, <1>10, <1>13
  <1>14. CASE UNCHANGED vars  BY <1>8, <1>14 DEF vars
  <1> QED  BY <1>11, <1>12, <1>13, <1>14 DEF Next, RpcStep, MainStep, Requesters

\* A request's time changes, and a main thread starts to request, only when
\* its worker asks; a main thread that left its loop does not return to it.
LEMMA MainStates ==
  ASSUME IInv, TimeoutWorkers = {}, [Next]_vars
  PROVE  /\ \A q \in Workers : ~Idle(q, "main") => ~Idle(q, "main")'
         /\ \/ /\ request_lamport_time' = request_lamport_time
               /\ \A q \in Workers : MainRequests(q)' => MainRequests(q)
            \/ \E s \in Workers, r \in Requesters : MayAsk(s, r) /\ MqttRequest(<<s, r>>)
  <1> USE DEF lockVars, callbackVars, controllerVars, Idle, MainRequests
  <1>t. TypeOK  BY DEF IInv
  <1>1. ASSUME pc' = pc, request_lamport_time' = request_lamport_time
        PROVE  /\ \A q \in Workers : ~Idle(q, "main") => ~Idle(q, "main")'
               /\ \A q \in Workers : MainRequests(q)' => MainRequests(q)
    BY <1>1
  <1>2. ASSUME NEW p \in Workers, NEW r \in Requesters, NEW label,
               Goto(<<p, r>>, label), pc[<<p, r>>] # "idle", label # "waiting",
               label = "idle" => r = "rpc",
               label = "critical" => pc[<<p, r>>] = "waiting"
        PROVE  /\ \A q \in Workers : ~Idle(q, "main") => ~Idle(q, "main")'
               /\ \A q \in Workers : MainRequests(q)' => MainRequests(q)
    <2>1. \A q \in Workers :
            IF <<q, "main">> = <<p, r>>
            THEN pc'[<<q, "main">>] = label
            ELSE pc'[<<q, "main">>] = pc[<<q, "main">>]
      BY <1>t, <1>2 DEF Goto, TypeOK, Threads, Requesters
    <2> QED  BY <1>2, <2>1
  <1>3. ASSUME NEW p \in Workers, CallbackStep(p)
        PROVE  UNCHANGED <<pc, request_lamport_time>>
    BY <1>3 DEF CallbackStep, ReceiveReply, ReceiveRequest, ReadRequestOpen, CompareRequests,
                QueueRequest, ReplyImmediately
  <1>4. ASSUME NEW p \in Workers, NEW r \in Requesters, RequesterStep(<<p, r>>)
        PROVE  /\ \A q \in Workers : ~Idle(q, "main") => ~Idle(q, "main")'
               /\ request_lamport_time' = request_lamport_time
               /\ \A q \in Workers : MainRequests(q)' => MainRequests(q)
    <2>1. CASE RespondToOpenRequest(<<p, r>>)
      BY <2>1, <1>1 DEF RespondToOpenRequest
    <2>2. CASE Acquire(<<p, r>>)
      BY <2>2, <1>2 DEF Acquire
    <2>3. CASE StartResponding(<<p, r>>)
      BY <2>3, <1>2 DEF StartResponding
    <2>4. CASE CloseRequest(<<p, r>>)
      <3> DEFINE label == IF r = "rpc" THEN "idle" ELSE "printed"
      <3>1. /\ pc[<<p, r>>] = "respond" /\ Goto(<<p, r>>, label)
            /\ request_lamport_time' = request_lamport_time
        BY <2>4 DEF CloseRequest, LeaveRequest
      <3>2. label # "waiting" /\ label # "critical" /\ (label = "idle" => r = "rpc")
        OBVIOUS
      <3> HIDE DEF label
      <3> QED  BY <1>2, <3>1, <3>2
    <2> QED  BY <1>4, <2>1, <2>2, <2>3, <2>4 DEF RequesterStep
  <1>5. ASSUME NEW p \in Workers, SendTaskResult(p) \/ LeaveLoop(p)
        PROVE  /\ \A q \in Workers : ~Idle(q, "main") => ~Idle(q, "main")'
               /\ \E s \in Workers, r \in Requesters : MayAsk(s, r) /\ MqttRequest(<<s, r>>)
    <2>1. PICK r \in Requesters : MayAsk(p, r) /\ MqttRequest(<<p, r>>)
      BY <1>5 DEF SendTaskResult, LeaveLoop, MayAsk, Requesters
    <2>2. PICK label \in {"waiting", "critical"} : pc' = [pc EXCEPT ![<<p, r>>] = label]
      BY <2>1 DEF MqttRequest, Goto
    <2>3. \A q \in Workers : ~Idle(q, "main") => ~Idle(q, "main")'
      BY <1>t, <2>2 DEF TypeOK, Threads
    <2> QED  BY <2>1, <2>3
  <1>6. ASSUME NEW p \in Workers, DatabaseFailed(p)
        PROVE  /\ \A q \in Workers : ~Idle(q, "main") => ~Idle(q, "main")'
               /\ request_lamport_time' = request_lamport_time
               /\ \A q \in Workers : MainRequests(q)' => MainRequests(q)
    BY <1>6, <1>2 DEF DatabaseFailed, Requesters
  <1>7. CASE UNCHANGED vars  BY <1>1, <1>7 DEF vars
  <1> QED  BY <1>1, <1>3, <1>4, <1>5, <1>6, <1>7 DEF Next, RpcStep, MainStep, Requesters

\* Who holds a request back while another worker asks has a main thread at
\* work, for an RPC thread at work is the only one.
LEMMA MainsHoldStep ==
  ASSUME IInv, TimeoutWorkers = {}, OpenMeansRequesting, MainsHold, [Next]_vars
  PROVE  MainsHold'
  <1> SUFFICES ASSUME NEW s \in Workers, NEW t \in Workers, Holding(s, t)'
               PROVE  ~Idle(t, "main")'
    BY DEF MainsHold
  <1>1. ~Idle(t, "main") => ~Idle(t, "main")'  BY MainStates
  <1>2. CASE Holding(s, t)  BY <1>1, <1>2 DEF MainsHold
  <1>3. CASE Handling(s, t) /\ mqtt_request_open[t]
    <2>1. PICK r \in Requesters : ~Idle(t, r)
      BY <1>3 DEF OpenMeansRequesting, Idle
    <2>2. s # t  BY <1>3 DEF IInv, NoSelf, Handling
    <2>3. r = "main"  BY <1>3, <2>1, <2>2, AskersAreMains DEF IsOwed
    <2> QED  BY <1>1, <2>1, <2>3
  <1> QED  BY <1>2, <1>3, HoldingStep

\* A request comes before those it defers, and neither changes its time while
\* one is deferred.
LEMMA LaterDeferredStep ==
  ASSUME IInv, TimeoutWorkers = {}, MainsHold, LaterDeferred, [Next]_vars
  PROVE  LaterDeferred'
  <1> SUFFICES ASSUME NEW s \in Workers, NEW t \in Workers, Deferring(s, t)', MainRequests(t)'
               PROVE  Before(t, s)'
    BY DEF LaterDeferred
  <1>t. TypeOK  BY DEF IInv
  <1>1. \/ Deferring(s, t)
        \/ Handling(s, t) /\ callback[t] = "compare" /\ ~ReceivedGoesFirst(t)
    BY HoldingStep DEF CompareRequests
  <1>2. Holding(s, t) /\ IsOwed(s, t)  BY <1>1 DEF Holding, Deferring, IsOwed
  <1>3. s # t  BY <1>2, NotOwedToItself DEF IInv
  <1>4. ~Idle(t, "main")  BY <1>2 DEF MainsHold
  <1>5. Waiting(s)  BY <1>2 DEF IInv, Accounted, Account, Asking
  <1>6. MainRequests(t) => Before(t, s)
    <2>1. CASE Deferring(s, t)  BY <2>1 DEF LaterDeferred
    <2>2. CASE Handling(s, t) /\ callback[t] = "compare" /\ ~ReceivedGoesFirst(t)
      <3>1. received[t].from = s /\ received[t].lamport = request_lamport_time[s]
        BY <2>2 DEF IInv, CurrentTimes, Handling
      <3> QED  BY <1>t, <1>3, <2>2, <3>1, AnswerMeansLater
    <2> QED  BY <1>1, <2>1, <2>2
  <1>7. CASE /\ request_lamport_time' = request_lamport_time
             /\ \A q \in Workers : MainRequests(q)' => MainRequests(q)
    BY <1>6, <1>7 DEF Before
  <1>8. ASSUME NEW p \in Workers, NEW r \in Requesters, MayAsk(p, r), MqttRequest(<<p, r>>)
        PROVE  Before(t, s)'
    <2>1. ~(stores_left > 0 /\ stores_left = 0)  OBVIOUS
    <2>2. r = "main"  BY <1>4, <1>8, <2>1 DEF MayAsk, IInv, Phases
    <2>3. p # t  BY <1>4, <1>8, <2>2 DEF MayAsk
    <2>4. p # s
      <3>1. PICK u \in Requesters : pc[<<s, u>>] = "waiting"  BY <1>5 DEF Waiting
      <3>2. ~Idle(s, u)  BY <3>1 DEF Idle
      <3>3. u = "main"  BY <1>8, <2>1, <2>2, <3>2 DEF MayAsk, IInv, Phases, Requesters
      <3> QED  BY <1>8, <2>2, <3>2, <3>3 DEF MayAsk
    <2>5. /\ request_lamport_time'[s] = request_lamport_time[s]
          /\ request_lamport_time'[t] = request_lamport_time[t]
      BY <1>t, <1>8, <2>3, <2>4 DEF MqttRequest, lockVars, TypeOK
    <2>6. pc'[<<t, "main">>] = pc[<<t, "main">>]
      BY <1>t, <1>8, <2>3 DEF MqttRequest, Goto, TypeOK, Threads, Requesters
    <2>7. MainRequests(t)  BY <2>6 DEF MainRequests
    <2> QED  BY <1>6, <2>5, <2>7 DEF Before
  <1> QED  BY <1>7, <1>8, MainStates

\* A failed POST stays counted.
LEMMA FailuresStay ==
  ASSUME TypeOK, failures' = 0, [Next]_vars
  PROVE  failures = 0
  <1> USE DEF controllerVars
  <1>1. failures \in Nat  BY WriteLockAssumption DEF TypeOK
  <1>2. ASSUME NEW p \in Workers, CallbackStep(p) PROVE failures' = failures
    BY <1>2 DEF CallbackStep, ReceiveReply, ReceiveRequest, ReadRequestOpen, CompareRequests,
                QueueRequest, ReplyImmediately
  <1>3. ASSUME NEW p \in Workers, NEW r \in Requesters, RequesterStep(<<p, r>>)
        PROVE  failures' = failures
    BY <1>3 DEF RequesterStep, Acquire, StartResponding, RespondToOpenRequest, CloseRequest
  <1>4. ASSUME NEW p \in Workers, SendTaskResult(p) \/ LeaveLoop(p) PROVE failures' = failures
    BY <1>4 DEF SendTaskResult, LeaveLoop
  <1>5. ASSUME NEW p \in Workers, DatabaseFailed(p) PROVE FALSE
    <2>1. failures' = failures + 1  BY <1>5 DEF DatabaseFailed
    <2> QED  BY <1>1, <2>1
  <1>6. CASE UNCHANGED vars  BY <1>6 DEF vars
  <1> QED  BY <1>2, <1>3, <1>4, <1>5, <1>6 DEF Next, RpcStep, MainStep, Requesters

\* The invariants together are inductive while no POST fails.
LaterInv == IInv /\ (failures = 0 => DeferredLater)

LEMMA LaterInvariance ==
  ASSUME TimeoutWorkers = {}
  PROVE  Spec => []LaterInv
  <1>1. Init => DeferredLater
    <2> SUFFICES ASSUME Init PROVE DeferredLater  OBVIOUS
    <2>1. \A s, t \in Workers : ~Holding(s, t) /\ ~Deferring(s, t) /\ ~mqtt_request_open[s]
      BY DEF Init, Holding, Deferring, Handling, Queued
    <2> QED  BY <2>1 DEF DeferredLater, OpenMeansRequesting, MainsHold, LaterDeferred
  <1>2. Init => LaterInv  BY <1>1, InitHolds DEF LaterInv
  <1>3. LaterInv /\ [Next]_vars => LaterInv'
    <2> SUFFICES ASSUME LaterInv, [Next]_vars PROVE LaterInv'  OBVIOUS
    <2>1. IInv'  BY StepHolds DEF LaterInv
    <2>2. ASSUME failures' = 0 PROVE DeferredLater'
      <3>1. IInv /\ DeferredLater  BY <2>2, FailuresStay DEF LaterInv, IInv
      <3> QED
        BY <2>2, <3>1, OpenStep, MainsHoldStep, LaterDeferredStep DEF DeferredLater
    <2> QED  BY <2>1, <2>2 DEF LaterInv
  <1> QED  BY <1>2, <1>3, PTL DEF Spec

\* While no POST fails, a request is open only while a thread of its worker
\* asks for, has or gives back the access.
THEOREM OpenRequests ==
  ASSUME TimeoutWorkers = {}
  PROVE  Spec => []OpenUntilFailure
  <1>1. LaterInv => OpenUntilFailure  BY DEF LaterInv, DeferredLater, OpenUntilFailure
  <1> QED  BY <1>1, LaterInvariance, PTL

\* Two workers never wait for each other: while no POST fails, who asks for or
\* has the access defers only requests that come after its own.
THEOREM DeferralOrder ==
  ASSUME TimeoutWorkers = {}
  PROVE  Spec => []DeferredComeLater
  <1>1. ASSUME LaterInv PROVE DeferredComeLater
    <2> SUFFICES ASSUME failures = 0, NEW p \in Workers, NEW q \in Workers,
                        Deferred(p, q) # {}, Waiting(p),
                        NEW r \in Requesters, pc[<<q, r>>] \in {"waiting", "critical"}
                 PROVE  Before(q, p)
      BY DEF DeferredComeLater
    <2>0. IInv /\ DeferredLater  BY <1>1 DEF LaterInv
    <2>1. Queued(p, q)  BY DEF Deferred, Queued
    <2>2. p # q  BY <2>0, <2>1, NotOwedToItself DEF IInv, IsOwed
    <2>3. ~Idle(q, r)  BY DEF Idle
    <2>4. r = "main"  BY <2>0, <2>1, <2>2, <2>3, AskersAreMains DEF IsOwed
    <2>5. MainRequests(q)  BY <2>4 DEF MainRequests
    <2> QED  BY <2>0, <2>1, <2>5 DEF DeferredLater, LaterDeferred, Deferring
  <1> QED  BY <1>1, LaterInvariance, PTL
=============================================================================
