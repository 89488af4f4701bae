------------------------------ MODULE TaskPool ------------------------------
(***************************************************************************)
(* The run-time half of class MatrixData (Controller/MatrixData.h): the    *)
(* pool of multiplication tasks shared by the controller's threads, and    *)
(* the count of chunks already stored in the database.                     *)
(*                                                                         *)
(* The fields of all result matrices are numbered 1..NumberFields in the   *)
(* order in which initialize() pushes them (matrix, row, column).  A task  *)
(* is one chunk of the scalar product of a field; its two vectors of       *)
(* numbers are irrelevant here and are represented by the chunk's number.  *)
(*                                                                         *)
(* Every operation below runs under one of MatrixData's two mutexes and is *)
(* therefore one atomic step; the module only says what the step does to   *)
(* the pool, and Controller says who takes it and when.                    *)
(***************************************************************************)
EXTENDS Naturals, Sequences

CONSTANTS
  NumberFields,   \* RESULT_ROWS * RESULT_COLS * NUMBER_MATRICES
  ChunksPerRow    \* chunks_per_row, computed by prepareTasks()

ASSUME TaskPoolAssumption ==
  /\ NumberFields \in Nat
  /\ ChunksPerRow \in Nat \ {0}

Fields == 1 .. NumberFields
Chunks == 1 .. ChunksPerRow

\* RPCMatrixTask without the numbers to multiply.
Tasks == [field : Fields, chunk : Chunks]

VARIABLES
  matrix_tasks,          \* field -> queue of the tasks not handed out
  next_task_field,       \* queue of the fields that have tasks left
  matrix_stored_chunks,  \* field -> number of chunks reported as stored
  finished_fields,       \* number of fields with all chunks stored
  mutex_tasks_leaked     \* TRUE once getNextTask() returned with mutex_tasks locked

poolVars == <<matrix_tasks, next_task_field, matrix_stored_chunks,
              finished_fields, mutex_tasks_leaked>>

PoolTypeOK ==
  /\ matrix_tasks \in [Fields -> Seq(Tasks)]
  /\ next_task_field \in Seq(Fields)
  /\ matrix_stored_chunks \in [Fields -> 0 .. ChunksPerRow]
  /\ finished_fields \in 0 .. NumberFields
  /\ mutex_tasks_leaked \in BOOLEAN

\* createTasks() queues one task per chunk at every field, after initialize()
\* queued every field.
PoolInit ==
  /\ matrix_tasks = [f \in Fields |->
                       [c \in Chunks |-> [field |-> f, chunk |-> c]]]
  /\ next_task_field = [f \in Fields |-> f]
  /\ matrix_stored_chunks = [f \in Fields |-> 0]
  /\ finished_fields = 0
  /\ mutex_tasks_leaked = FALSE

-----------------------------------------------------------------------------
(***************************************************************************)
(* getNextTask                                                             *)
(***************************************************************************)

NextField == Head(next_task_field)
NextTask == Head(matrix_tasks[NextField])

\* Mutant: the fetched task is copied but not popped from its field's queue.
TakeTask_NoPop ==
  /\ UNCHANGED <<matrix_tasks, next_task_field>>
  /\ UNCHANGED <<matrix_stored_chunks, finished_fields, mutex_tasks_leaked>>

\* The successful branch: NextTask leaves its field's queue, and the field
\* leaves next_task_field with its last task.
TakeTask ==
  /\ matrix_tasks' = [matrix_tasks EXCEPT ![NextField] = Tail(@)]
  /\ next_task_field' = IF Len(matrix_tasks[NextField]) = 1
                        THEN Tail(next_task_field)
                        ELSE next_task_field
  /\ UNCHANGED <<matrix_stored_chunks, finished_fields, mutex_tasks_leaked>>

\* The error branch returns without unlocking mutex_tasks: every later
\* getNextTask() and reassignTask() waits for ever.
LeakMutexTasks ==
  /\ mutex_tasks_leaked' = TRUE
  /\ UNCHANGED <<matrix_tasks, next_task_field, matrix_stored_chunks,
                 finished_fields>>

-----------------------------------------------------------------------------
(***************************************************************************)
(* reassignTask                                                            *)
(***************************************************************************)

\* Mutant: the field is queued again even when it is queued already.
ReassignTask_AlwaysQueueField(t) ==
  /\ matrix_tasks' = [matrix_tasks EXCEPT ![t.field] = Append(@, t)]
  /\ next_task_field' = Append(next_task_field, t.field)
  /\ UNCHANGED <<matrix_stored_chunks, finished_fields, mutex_tasks_leaked>>

\* Mutant: the task is dropped.
ReassignTask_Drop(t) == UNCHANGED poolVars

\* The task goes back to its field's queue; a field whose queue was empty is
\* queued again as well.
ReassignTask(t) ==
  /\ matrix_tasks' = [matrix_tasks EXCEPT ![t.field] = Append(@, t)]
  /\ next_task_field' = IF matrix_tasks[t.field] = <<>>
                        THEN Append(next_task_field, t.field)
                        ELSE next_task_field
  /\ UNCHANGED <<matrix_stored_chunks, finished_fields, mutex_tasks_leaked>>

-----------------------------------------------------------------------------
(***************************************************************************)
(* Progress accounting                                                     *)
(***************************************************************************)

\* Mutant: off by one.
LastChunk_Early(t) == matrix_stored_chunks[t.field] >= ChunksPerRow - 2

LastChunk(t) == matrix_stored_chunks[t.field] = ChunksPerRow - 1

\* Mutant: a field counts as finished one chunk early.
InformAboutStoredResult_Early(t) ==
  LET stored_chunks == matrix_stored_chunks[t.field] + 1 IN
  /\ matrix_stored_chunks' = [matrix_stored_chunks EXCEPT ![t.field] = stored_chunks]
  /\ finished_fields' = IF stored_chunks = ChunksPerRow - 1
                        THEN finished_fields + 1
                        ELSE finished_fields
  /\ UNCHANGED <<matrix_tasks, next_task_field, mutex_tasks_leaked>>

InformAboutStoredResult(t) ==
  LET stored_chunks == matrix_stored_chunks[t.field] + 1 IN
  /\ matrix_stored_chunks' = [matrix_stored_chunks EXCEPT ![t.field] = stored_chunks]
  /\ finished_fields' = IF stored_chunks = ChunksPerRow
                        THEN finished_fields + 1
                        ELSE finished_fields
  /\ UNCHANGED <<matrix_tasks, next_task_field, mutex_tasks_leaked>>

AllTasksFinished == finished_fields = NumberFields

-----------------------------------------------------------------------------
(***************************************************************************)
(* The pool's consistency                                                  *)
(***************************************************************************)

Queued(t) == \E i \in DOMAIN matrix_tasks[t.field] : matrix_tasks[t.field][i] = t

\* A field's queue holds only tasks of the field, each at most once.
QueuedOnce ==
  \A f \in Fields : \A i, j \in DOMAIN matrix_tasks[f] :
    /\ matrix_tasks[f][i].field = f
    /\ matrix_tasks[f][i] = matrix_tasks[f][j] => i = j

\* next_task_field holds exactly the fields that have tasks, each once.
NextFieldsExact ==
  /\ \A i, j \in DOMAIN next_task_field :
       next_task_field[i] = next_task_field[j] => i = j
  /\ \A f \in Fields :
       matrix_tasks[f] # <<>> <=> \E i \in DOMAIN next_task_field : next_task_field[i] = f

=============================================================================
