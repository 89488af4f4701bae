------------------------------ MODULE ChunkPlan ------------------------------
(***************************************************************************)
(* The start-up half of class MatrixData (Controller/MatrixData.h): how    *)
(* prepareTasks() divides the rows of matrix A (and the columns of matrix  *)
(* B) into chunks, and how createTasks() cuts a row into them.  The result *)
(* is what TaskPool starts from: chunks_per_row tasks for every field.     *)
(*                                                                         *)
(* Every field gets the same chunks, for nothing in the loop depends on    *)
(* the field, so the tasks of one field are modelled.  A task is the range *)
(* of its values in the row.  Integers are unbounded here: the products    *)
(* of the code are far from the bounds of long long.                       *)
(***************************************************************************)
EXTENDS Integers, Sequences

CONSTANTS
  NumberWorkers,   \* the values of NUMBERWORKERS
  ResultFields,    \* of RESULT_ROWS * RESULT_COLS * NUMBER_MATRICES
  MatrixACols,     \* of MATRIX_A_COLS
  MaxChunkSizes    \* of MAX_CHUNK_SIZE

ASSUME ChunkPlanAssumption ==
  /\ NumberWorkers \subseteq Nat
  /\ ResultFields \subseteq Nat \ {0}
  /\ MatrixACols \subseteq Nat \ {0}
  /\ MaxChunkSizes \subseteq Nat \ {0}

VARIABLES
  number_workers, result_fields, a_cols, max_chunk_size,   \* the settings
  chunk_size, chunks_per_row, remaining_chunk_size,        \* the plan
  remainder_chunk,
  tasks,                \* task_queue of a field: the ranges [start, size]
  current_value_index,
  remaining_values,
  pc

\* A task: where its values begin in the row, and how many they are.
Ranges == [start : Nat, size : Nat]

settings == <<number_workers, result_fields, a_cols, max_chunk_size>>
plan == <<chunk_size, chunks_per_row, remaining_chunk_size, remainder_chunk>>
queue == <<tasks, current_value_index, remaining_values>>
vars == <<settings, plan, queue, pc>>

TypeOK ==
  /\ number_workers \in NumberWorkers
  /\ result_fields \in ResultFields
  /\ a_cols \in MatrixACols
  /\ max_chunk_size \in MaxChunkSizes
  /\ chunk_size \in Nat
  /\ chunks_per_row \in Nat
  /\ remaining_chunk_size \in Nat
  /\ remainder_chunk \in BOOLEAN
  /\ tasks \in Seq(Ranges)
  /\ current_value_index \in Nat
  /\ remaining_values \in Nat
  /\ pc \in {"prepare", "spread", "start", "create", "done"}

Init ==
  /\ number_workers \in NumberWorkers
  /\ result_fields \in ResultFields
  /\ a_cols \in MatrixACols
  /\ max_chunk_size \in MaxChunkSizes
  /\ chunk_size = 0
  /\ chunks_per_row = 0
  /\ remaining_chunk_size = 0
  /\ remainder_chunk = FALSE
  /\ tasks = <<>>
  /\ current_value_index = 0
  /\ remaining_values = 0
  /\ pc = "prepare"

-----------------------------------------------------------------------------
(***************************************************************************)
(* prepareTasks                                                            *)
(***************************************************************************)

AtLeastOne(n) == IF n = 0 THEN 1 ELSE n
Smaller(m, n) == IF m > n THEN n ELSE m

calculations_per_worker ==
  AtLeastOne((result_fields * a_cols) \div AtLeastOne(number_workers))

\* The condition under which a row is split at all.
SplitRows == calculations_per_worker < a_cols \/ max_chunk_size < a_cols

\* The initial chunk size: no more than a row, MAX_CHUNK_SIZE or a worker's
\* share of the multiplications.
InitialChunkSize ==
  Smaller(Smaller(max_chunk_size, a_cols), calculations_per_worker)

\* Mutant: a remainder of up to a whole chunk is spread.
SpreadRemainder_Always(size, remainder) == remainder > 0

\* remainder / size < MAX_REMAINDER_FRACTION, computed in floats by the code;
\* for chunks of less than 2^20 values the two comparisons agree.
SpreadRemainder(size, remainder) == 7 * remainder < size

PackFullRows ==
  /\ pc = "prepare"
  /\ ~SplitRows
  /\ chunk_size' = a_cols
  /\ chunks_per_row' = 1
  /\ remaining_chunk_size' = 0
  /\ remainder_chunk' = FALSE
  /\ pc' = "start"
  /\ UNCHANGED <<settings, queue>>

\* The values left over by equal chunks become an additional smaller chunk or,
\* when they are few, are spread among the other chunks.
SplitIntoChunks ==
  LET size == InitialChunkSize
      remainder == a_cols % size
      additional == remainder > 0 /\ ~SpreadRemainder(size, remainder)
  IN
  /\ pc = "prepare"
  /\ SplitRows
  /\ chunk_size' = size
  /\ chunks_per_row' = IF additional THEN a_cols \div size + 1 ELSE a_cols \div size
  /\ remaining_chunk_size' = remainder
  /\ remainder_chunk' = additional
  /\ pc' = IF remainder > 0 /\ ~additional THEN "spread" ELSE "start"
  /\ UNCHANGED <<settings, queue>>

\* Mutant: a round is made in any case.
ResizeChunks_NoGuard ==
  /\ pc = "spread"
  /\ chunk_size' = chunk_size + 1
  /\ remaining_chunk_size' = remaining_chunk_size - chunks_per_row
  /\ UNCHANGED <<settings, chunks_per_row, remainder_chunk, queue, pc>>

\* One round of the loop that makes each chunk bigger by one value.
ResizeChunks ==
  /\ pc = "spread"
  /\ remaining_chunk_size > chunks_per_row
  /\ chunk_size' = chunk_size + 1
  /\ remaining_chunk_size' = remaining_chunk_size - chunks_per_row
  /\ UNCHANGED <<settings, chunks_per_row, remainder_chunk, queue, pc>>

ResizeFinished ==
  /\ pc = "spread"
  /\ remaining_chunk_size <= chunks_per_row
  /\ pc' = "start"
  /\ UNCHANGED <<settings, plan, queue>>

-----------------------------------------------------------------------------
(***************************************************************************)
(* createTasks, for one field                                              *)
(***************************************************************************)

StartField ==
  /\ pc = "start"
  /\ tasks' = <<>>
  /\ current_value_index' = 0
  /\ remaining_values' = remaining_chunk_size
  /\ pc' = "create"
  /\ UNCHANGED <<settings, plan>>

\* Mutant: the remainder chunk is as large as the others.
CurrentChunkSize_NoRemainderChunk ==
  IF remaining_values > 0 /\ ~remainder_chunk THEN chunk_size + 1 ELSE chunk_size

\* The first chunks take one of the remaining values each; a remainder chunk
\* takes all of them, at the end.
CurrentChunkSize ==
  CASE remaining_values = 0 -> chunk_size
    [] remaining_values > 0 /\ ~remainder_chunk -> chunk_size + 1
    [] remaining_values > 0 /\ remainder_chunk ->
         IF Len(tasks) = chunks_per_row - 1 THEN remaining_values ELSE chunk_size

\* Mutant: every chunk takes a remaining value.
CreateTask_KeepRemaining ==
  /\ pc = "create"
  /\ Len(tasks) < chunks_per_row
  /\ tasks' = Append(tasks, [start |-> current_value_index, size |-> CurrentChunkSize])
  /\ current_value_index' = current_value_index + CurrentChunkSize
  /\ UNCHANGED <<settings, plan, pc, remaining_values>>

CreateTask ==
  /\ pc = "create"
  /\ Len(tasks) < chunks_per_row
  /\ tasks' = Append(tasks, [start |-> current_value_index, size |-> CurrentChunkSize])
  /\ current_value_index' = current_value_index + CurrentChunkSize
  /\ remaining_values' = IF remaining_values > 0 /\ ~remainder_chunk
                         THEN remaining_values - 1
                         ELSE remaining_values
  /\ UNCHANGED <<settings, plan, pc>>

FieldFinished ==
  /\ pc = "create"
  /\ Len(tasks) = chunks_per_row
  /\ pc' = "done"
  /\ UNCHANGED <<settings, plan, queue>>

Next ==
  \/ PackFullRows \/ SplitIntoChunks \/ ResizeChunks \/ ResizeFinished
  \/ StartField \/ CreateTask \/ FieldFinished

Spec == Init /\ [][Next]_vars

-----------------------------------------------------------------------------
(***************************************************************************)
(* Properties                                                              *)
(***************************************************************************)

\* No task reads beyond the row: getRowArray() and getColArray() never return
\* nullptr ("MatrixData: Segmentation fault", MatrixData.h:351).
TasksInRow == \A i \in DOMAIN tasks : tasks[i].start + tasks[i].size <= a_cols

\* The tasks of a field multiply every value of its row exactly once: they are
\* not empty, follow each other without gaps, and end with the row.
RowCovered ==
  /\ \A i \in DOMAIN tasks :
       /\ tasks[i].size > 0
       /\ tasks[i].start = IF i = 1 THEN 0 ELSE tasks[i - 1].start + tasks[i - 1].size
  /\ pc = "done" => /\ tasks # <<>>
                    /\ tasks[Len(tasks)].start + tasks[Len(tasks)].size = a_cols

\* "MAX_CHUNK_SIZE can get slightly exceeded" (MatrixData.h:276): by less than
\* a seventh, however many values are spread.
ChunksSlightlyExceed ==
  \A i \in DOMAIN tasks : 7 * (tasks[i].size - max_chunk_size) < max_chunk_size

\* Resizing chunks leaves almost all workers something to do: with a
\* multiplication for each worker, there are tasks for more than 7/8 of them.
EnoughTasks ==
  pc = "done" /\ result_fields * a_cols >= number_workers
    => 8 * result_fields * Len(tasks) > 7 * number_workers
=============================================================================
