----------------------------- MODULE MatrixJob ------------------------------
(***************************************************************************)
(* What the controller promises, without threads, workers or queues: every *)
(* chunk of every field is added to the database exactly once, the         *)
(* database is told that a field is complete together with the field's     *)
(* last chunk and never earlier, and the job is declared finished only     *)
(* when nothing is missing.                                                *)
(***************************************************************************)
EXTENDS Naturals

CONSTANTS NumberFields, ChunksPerRow

Fields == 1 .. NumberFields
Tasks == [field : Fields, chunk : 1 .. ChunksPerRow]

VARIABLES
  added,       \* how often each chunk's result was added
  announced,   \* the fields announced as complete
  finished     \* the controller says that all results are stored

jobVars == <<added, announced, finished>>

JobInit ==
  /\ added = [t \in Tasks |-> 0]
  /\ announced = {}
  /\ finished = FALSE

AddChunk(t) ==
  LET others == {u \in Tasks : u.field = t.field /\ u # t} IN
  /\ added[t] = 0
  /\ added' = [added EXCEPT ![t] = 1]
  /\ announced' = IF \A u \in others : added[u] = 1
                  THEN announced \cup {t.field}
                  ELSE announced
  /\ UNCHANGED finished

Finish ==
  /\ \A t \in Tasks : added[t] = 1
  /\ finished' = TRUE
  /\ UNCHANGED <<added, announced>>

JobNext == (\E t \in Tasks : AddChunk(t)) \/ Finish

JobSpec == JobInit /\ [][JobNext]_jobVars
=============================================================================
