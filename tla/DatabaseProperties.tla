------------------------- MODULE DatabaseProperties -------------------------
(***************************************************************************)
(* What the database and the worker that posts to it guarantee.            *)
(***************************************************************************)
EXTENDS Database

ServerStates == {"accept", "recv", "request", "fields", "valid", "close", "ended", "terminated"}

TypeOK ==
  /\ worker \in {"idle", "waiting", "lost"}
  /\ task \in Tasks \cup {NoTask} /\ (task = NoTask <=> worker = "idle")
  /\ acknowledged \subseteq Tasks
  /\ backlog \in Seq(Clients)
  /\ server \in ServerStates
  /\ newsock_TCP \in Clients \cup {"none"}
  /\ (newsock_TCP = "none") <=> server \in {"accept", "ended"}
  /\ http.command \in {"NONE", "GET", "POST"}
  /\ message \in 1 .. Len(buf_TCP) + 1
  /\ stored \subseteq Tasks /\ counted \in BOOLEAN
  /\ failures \in 0 .. MaxFailures /\ gets \in 0 .. MaxGets

-----------------------------------------------------------------------------
(***************************************************************************)
(* Safety                                                                  *)
(***************************************************************************)

\* A cut message never passes for another one: when httpParse accepts a POST
\* (database.cpp:262), it found exactly the worker's matrix, row, column and
\* flag, and the value as far as an int holds it, wherever TCP cut the message.
ValidPostIsWhole ==
  server = "valid" /\ http.command = "POST" =>
    /\ newsock_TCP = "worker" /\ worker = "waiting"
    /\ <<http.target, http.row, http.col>> = task.field
    /\ http.content = Wrap(task.value)
    /\ http.last_chunk <=> LastChunk(task)

\* The page shows a value only for a field of which a chunk was added; the
\* cells that addResult creates to reach a row or column are shown as "X"
\* (ResultMatrix.h:51-59).
ShownWasStored == \A c \in page : \E t \in stored : t.field = c.field

\* A POST with Last-Chunk: TRUE completes its field: when it is found valid, all
\* other chunks of the field are in the database, although answers got lost and
\* posts were repeated.  So the flag, which main drops (database.cpp:544), would
\* tell addResult the truth.
LastChunkCompletes ==
  server = "valid" /\ http.command = "POST" /\ http.last_chunk =>
    \A t \in Tasks \ {task} : t.field = task.field => t \in stored

\* A value that is not shown as "X" is final (ResultMatrix.h:56): all chunks
\* of its field were added.
ShownIsFinal == \A c \in page : \A t \in Tasks : t.field = c.field => t \in stored

-----------------------------------------------------------------------------
(***************************************************************************)
(* Refinement                                                              *)
(***************************************************************************)

\* The stored sum of a field, 0 if there is no such cell.
StoredSum(f) ==
  IF f[2] < Len(Rows(f[1])) /\ f[3] < Len(Rows(f[1])[f[2] + 1])
  THEN Rows(f[1])[f[2] + 1][f[3] + 1].value
  ELSE 0

Store == INSTANCE ChunkStore WITH
  Modulus <- IntValues,
  total <- [f \in {t.field : t \in Tasks} |-> StoredSum(f)],
  posting <- task

\* Every POST adds its value to its own field at most once and to no other,
\* and writeToDatabase returns true only for a value that was added: every
\* step of the database and its clients is one of ChunkStore, or a stutter.
StoreImplemented == Store!Spec

-----------------------------------------------------------------------------
(***************************************************************************)
(* Liveness                                                                *)
(***************************************************************************)

\* The database and the worker's thread are scheduled, and what was sent or
\* the time limit of recv arrives; the browser and the workers' calls have no
\* fairness.
Fairness == WF_vars(ServerStep) /\ WF_vars(WorkerStep)

FairSpec == Spec /\ Fairness

\* writeToDatabase, which reads until the connection is closed and has no time
\* limit of its own, returns once it has connected: after an answer, after an
\* invalid message, and when the database ends with the connection waiting.
PostReturns == worker = "waiting" ~> worker = "idle"
=============================================================================
