--------------------------- MODULE ChunkPlanProofs ---------------------------
(***************************************************************************)
(* For all settings: the tasks of a field cover its row exactly once and   *)
(* without reading beyond it, exceed MAX_CHUNK_SIZE by less than a         *)
(* seventh, and are enough for seven eighths of the workers.               *)
(*                                                                         *)
(* IInv says of the plan that the chunks and what remains make up a row    *)
(* (PlanInv), and of the loop that the values not yet cut are just enough  *)
(* for the chunks that are still to be created (LoopInv).                  *)
(***************************************************************************)
EXTENDS ChunkPlan, TLAPS

PlanInv ==
  pc # "prepare" =>
    /\ chunk_size > 0
    /\ chunks_per_row > 0
    /\ IF remainder_chunk
       THEN /\ pc # "spread"
            /\ remaining_chunk_size > 0
            /\ chunk_size <= max_chunk_size
            /\ remaining_chunk_size < chunk_size
            /\ (chunks_per_row - 1) * chunk_size + remaining_chunk_size = a_cols
       ELSE /\ 7 * (chunk_size + remaining_chunk_size - max_chunk_size) < max_chunk_size
            /\ chunks_per_row * chunk_size + remaining_chunk_size = a_cols
            /\ pc # "spread" => remaining_chunk_size <= chunks_per_row

\* The values of the chunks that are still to be created.
ValuesLeft ==
  IF remainder_chunk
  THEN IF Len(tasks) = chunks_per_row
       THEN 0
       ELSE (chunks_per_row - 1 - Len(tasks)) * chunk_size + remaining_chunk_size
  ELSE (chunks_per_row - Len(tasks)) * chunk_size + remaining_values

LoopInv ==
  pc \in {"create", "done"} =>
    /\ Len(tasks) <= chunks_per_row
    /\ current_value_index + ValuesLeft = a_cols
    /\ IF remainder_chunk
       THEN remaining_values = remaining_chunk_size
       ELSE /\ remaining_values <= chunks_per_row - Len(tasks)
            /\ remaining_values <= remaining_chunk_size
    /\ current_value_index =
         IF tasks = <<>> THEN 0 ELSE tasks[Len(tasks)].start + tasks[Len(tasks)].size
    /\ pc = "done" => Len(tasks) = chunks_per_row

\* The tasks created so far: each begins where the one before it ends.
Chained ==
  \A i \in 1 .. Len(tasks) :
    /\ tasks[i].size > 0
    /\ tasks[i].start = IF i = 1 THEN 0 ELSE tasks[i - 1].start + tasks[i - 1].size
    /\ tasks[i].start + tasks[i].size <= a_cols
    /\ 7 * (tasks[i].size - max_chunk_size) < max_chunk_size

IInv == TypeOK /\ PlanInv /\ LoopInv /\ Chained

-----------------------------------------------------------------------------
(***************************************************************************)
(* Arithmetic                                                              *)
(***************************************************************************)

LEMMA ProductInNat ==
  ASSUME NEW m \in Nat, NEW n \in Nat
  PROVE  m * n \in Nat
  OBVIOUS

LEMMA Division ==
  ASSUME NEW n \in Nat, NEW d \in Nat \ {0}
  PROVE  /\ n \div d \in Nat
         /\ n % d \in 0 .. d - 1
         /\ (n \div d) * d + (n % d) = n
         /\ d <= n => n \div d > 0
  OBVIOUS

\* The share of a worker, and so the initial chunk size, is never zero
\* ("chunk_size can't be zero here").
LEMMA InitialChunkSizePositive ==
  ASSUME TypeOK
  PROVE  /\ calculations_per_worker \in Nat \ {0}
         /\ InitialChunkSize \in Nat \ {0}
         /\ InitialChunkSize <= a_cols
         /\ InitialChunkSize <= max_chunk_size
  <1>1. /\ number_workers \in Nat /\ result_fields \in Nat
        /\ a_cols \in Nat \ {0} /\ max_chunk_size \in Nat \ {0}
    BY ChunkPlanAssumption DEF TypeOK
  <1>2. AtLeastOne(number_workers) \in Nat \ {0}
    BY <1>1 DEF AtLeastOne
  <1>3. (result_fields * a_cols) \div AtLeastOne(number_workers) \in Nat
    BY <1>1, <1>2, ProductInNat, Division
  <1>4. calculations_per_worker \in Nat \ {0}
    BY <1>3 DEF calculations_per_worker, AtLeastOne
  <1> QED BY <1>1, <1>4 DEF InitialChunkSize, Smaller

-----------------------------------------------------------------------------
(***************************************************************************)
(* The invariant                                                           *)
(***************************************************************************)

LEMMA InitIInv == Init => IInv
  <1> SUFFICES ASSUME Init PROVE IInv
    OBVIOUS
  <1>1. TypeOK
    <2>1. tasks \in Seq(Ranges)
      BY DEF Init
    <2> QED BY <2>1 DEF Init, TypeOK
  <1>2. Chained
    BY DEF Init, Chained
  <1> QED BY <1>1, <1>2 DEF IInv, PlanInv, LoopInv, Init

LEMMA PackFullRowsKeeps ==
  ASSUME IInv, PackFullRows
  PROVE  IInv'
  <1>1. a_cols \in Nat \ {0} /\ max_chunk_size \in Nat \ {0}
    BY ChunkPlanAssumption DEF IInv, TypeOK
  <1>2. TypeOK'
    BY <1>1 DEF IInv, TypeOK, PackFullRows, settings, queue
  <1>3. a_cols <= max_chunk_size
    BY <1>1, InitialChunkSizePositive DEF IInv, PackFullRows, SplitRows
  <1>4. PlanInv'
    BY <1>1, <1>3 DEF PlanInv, PackFullRows, settings
  <1>5. LoopInv' /\ Chained'
    BY DEF IInv, LoopInv, Chained, PackFullRows, settings, queue
  <1> QED BY <1>2, <1>4, <1>5 DEF IInv

LEMMA SplitIntoChunksKeeps ==
  ASSUME IInv, SplitIntoChunks
  PROVE  IInv'
  <1> DEFINE size == InitialChunkSize
             remainder == a_cols % size
             additional == remainder > 0 /\ ~SpreadRemainder(size, remainder)
  <1>1. a_cols \in Nat \ {0} /\ max_chunk_size \in Nat \ {0}
    BY ChunkPlanAssumption DEF IInv, TypeOK
  <1>2. size \in Nat \ {0} /\ size <= a_cols /\ size <= max_chunk_size
    BY InitialChunkSizePositive DEF IInv
  <1>3. /\ a_cols \div size \in Nat \ {0}
        /\ remainder \in 0 .. size - 1
        /\ (a_cols \div size) * size + remainder = a_cols
    <2>1. PICK n \in Nat, d \in Nat \ {0} : n = a_cols /\ d = size
      BY <1>1, <1>2
    <2>2. /\ n \div d \in Nat /\ n % d \in 0 .. d - 1
          /\ (n \div d) * d + (n % d) = n /\ n \div d > 0
      BY <1>2, <2>1, Division
    <2> QED BY <2>1, <2>2
  <1>4. /\ chunk_size' = size /\ remaining_chunk_size' = remainder
        /\ chunks_per_row' = IF additional THEN a_cols \div size + 1 ELSE a_cols \div size
        /\ remainder_chunk' = additional
        /\ pc' = IF remainder > 0 /\ ~additional THEN "spread" ELSE "start"
        /\ UNCHANGED settings /\ UNCHANGED queue
    BY DEF SplitIntoChunks
  <1>4a. /\ additional \in BOOLEAN
         /\ additional => remainder > 0
         /\ ~additional => remainder = 0 \/ 7 * remainder < size
    BY <1>3 DEF SpreadRemainder
  <1> HIDE DEF size, remainder, additional
  <1>5. TypeOK'
    BY <1>2, <1>3, <1>4, <1>4a DEF IInv, TypeOK, settings, queue
  <1>6. PlanInv'
    <2>1. CASE additional
      <3>1. (a_cols \div size + 1) - 1 = a_cols \div size
        BY <1>3
      <3> QED BY <2>1, <3>1, <1>1, <1>2, <1>3, <1>4, <1>4a DEF PlanInv, settings
    <2>2. CASE ~additional
      <3>1. 7 * (size + remainder - max_chunk_size) < max_chunk_size
        BY <2>2, <1>1, <1>2, <1>3, <1>4a
      <3>2. pc' # "spread" => remainder <= a_cols \div size
        BY <2>2, <1>3, <1>4, <1>4a
      <3> QED BY <2>2, <3>1, <3>2, <1>1, <1>2, <1>3, <1>4 DEF PlanInv, settings
    <2> QED BY <2>1, <2>2
  <1>7. LoopInv' /\ Chained'
    BY <1>4 DEF IInv, LoopInv, Chained, settings, queue
  <1> QED BY <1>5, <1>6, <1>7 DEF IInv

LEMMA ResizeKeeps ==
  ASSUME IInv, ResizeChunks \/ ResizeFinished
  PROVE  IInv'
  <1> USE DEF IInv
  <1>1. /\ a_cols \in Nat /\ max_chunk_size \in Nat /\ chunk_size \in Nat
        /\ chunks_per_row \in Nat /\ remaining_chunk_size \in Nat
    BY ChunkPlanAssumption DEF TypeOK
  <1>2. LoopInv' /\ Chained'
    BY DEF LoopInv, Chained, ResizeChunks, ResizeFinished, settings, plan, queue
  <1>3. CASE ResizeChunks
    <2>1. TypeOK'
      BY <1>1, <1>3 DEF TypeOK, ResizeChunks, settings, queue
    <2>2. chunks_per_row * (chunk_size + 1) + (remaining_chunk_size - chunks_per_row)
            = chunks_per_row * chunk_size + remaining_chunk_size
      BY <1>1
    <2>3. PlanInv'
      BY <1>1, <1>3, <2>2 DEF PlanInv, ResizeChunks, settings
    <2> QED BY <1>2, <2>1, <2>3
  <1>4. CASE ResizeFinished
    <2>1. TypeOK'
      BY <1>4 DEF TypeOK, ResizeFinished, settings, plan, queue
    <2>2. PlanInv'
      BY <1>4 DEF PlanInv, ResizeFinished, settings, plan
    <2> QED BY <1>2, <2>1, <2>2
  <1> QED BY <1>3, <1>4

LEMMA StartFieldKeeps ==
  ASSUME IInv, StartField
  PROVE  IInv'
  <1> USE DEF IInv
  <1>1. /\ a_cols \in Nat /\ chunk_size \in Nat
        /\ chunks_per_row \in Nat /\ remaining_chunk_size \in Nat
    BY ChunkPlanAssumption DEF TypeOK
  <1>2. tasks' = <<>> /\ tasks' \in Seq(Ranges) /\ Len(tasks') = 0
    BY DEF StartField
  <1>3. TypeOK'
    BY <1>1, <1>2 DEF TypeOK, StartField, settings, plan
  <1>4. PlanInv'
    BY DEF PlanInv, StartField, settings, plan
  <1>5. ValuesLeft' = a_cols
    BY <1>1, <1>2 DEF ValuesLeft, PlanInv, StartField, plan
  <1>6. LoopInv'
    BY <1>1, <1>2, <1>5 DEF LoopInv, PlanInv, StartField, settings, plan
  <1>7. Chained'
    BY <1>2 DEF Chained
  <1> QED BY <1>3, <1>4, <1>6, <1>7

LEMMA CreateTaskKeeps ==
  ASSUME IInv, CreateTask
  PROVE  IInv'
  <1> USE DEF IInv
  <1> DEFINE size == CurrentChunkSize
             new == [start |-> current_value_index, size |-> size]
             n == Len(tasks)
             k == chunks_per_row
  <1>1. /\ a_cols \in Nat /\ max_chunk_size \in Nat \ {0} /\ chunk_size \in Nat \ {0}
        /\ k \in Nat \ {0} /\ remaining_chunk_size \in Nat
        /\ tasks \in Seq(Ranges) /\ n \in Nat /\ n < k
        /\ current_value_index \in Nat /\ remaining_values \in Nat
        /\ remainder_chunk \in BOOLEAN
    BY ChunkPlanAssumption DEF TypeOK, PlanInv, CreateTask
  <1>2. /\ tasks' = Append(tasks, new)
        /\ current_value_index' = current_value_index + size
        /\ remaining_values' = IF remaining_values > 0 /\ ~remainder_chunk
                               THEN remaining_values - 1 ELSE remaining_values
        /\ pc = "create" /\ UNCHANGED settings /\ UNCHANGED plan /\ UNCHANGED pc
    BY DEF CreateTask
  <1>2a. /\ remaining_values = 0 => size = chunk_size
         /\ remaining_values > 0 /\ ~remainder_chunk => size = chunk_size + 1
         /\ remaining_values > 0 /\ remainder_chunk /\ n = k - 1 => size = remaining_values
         /\ remaining_values > 0 /\ remainder_chunk /\ n # k - 1 => size = chunk_size
    BY <1>1 DEF CurrentChunkSize
  <1>3. size \in Nat \ {0} /\ 7 * (size - max_chunk_size) < max_chunk_size
    <2>1. CASE remainder_chunk
      <3>1. /\ chunk_size <= max_chunk_size /\ remaining_chunk_size < chunk_size
            /\ remaining_chunk_size > 0
        BY <1>2, <2>1 DEF PlanInv
      <3>2. remaining_values = remaining_chunk_size
        BY <1>2, <2>1 DEF LoopInv
      <3>3. size = chunk_size \/ size = remaining_chunk_size
        BY <1>1, <1>2a, <2>1, <3>1, <3>2
      <3> HIDE DEF size
      <3> QED BY <1>1, <3>1, <3>3
    <2>2. CASE ~remainder_chunk
      <3>1. 7 * (chunk_size + remaining_chunk_size - max_chunk_size) < max_chunk_size
        BY <1>2, <2>2 DEF PlanInv
      <3>2. remaining_values <= remaining_chunk_size
        BY <1>2, <2>2 DEF LoopInv
      <3>3. size = chunk_size \/ (remaining_values > 0 /\ size = chunk_size + 1)
        BY <1>1, <1>2a, <2>2
      <3> HIDE DEF size
      <3> QED BY <1>1, <3>1, <3>2, <3>3
    <2> QED BY <2>1, <2>2
  <1>4. /\ tasks' \in Seq(Ranges) /\ Len(tasks') = n + 1
        /\ \A i \in 1 .. n : tasks'[i] = tasks[i]
        /\ tasks'[n + 1] = new
        /\ tasks' # <<>>
    <2>1. new \in Ranges
      BY <1>1, <1>3 DEF Ranges
    <2> HIDE DEF new
    <2> QED BY <1>1, <1>2, <2>1
  <1>5. ValuesLeft' \in Nat /\ ValuesLeft = size + ValuesLeft'
    <2>1. CASE remainder_chunk /\ n = k - 1
      <3>1. size = remaining_chunk_size
        BY <1>1, <1>2, <2>1 DEF CurrentChunkSize, LoopInv, PlanInv
      <3>2. ValuesLeft = (k - 1 - n) * chunk_size + remaining_chunk_size
        BY <1>1, <2>1 DEF ValuesLeft
      <3>3. (k - 1 - n) * chunk_size = 0
        BY <1>1, <2>1
      <3>4. ValuesLeft' = 0
        BY <1>1, <1>2, <1>4, <2>1 DEF ValuesLeft, plan
      <3> QED BY <1>1, <3>1, <3>2, <3>3, <3>4
    <2>2. CASE remainder_chunk /\ n < k - 1
      <3>1. size = chunk_size
        BY <1>1, <1>2, <2>2 DEF CurrentChunkSize, LoopInv, PlanInv
      <3>2. ValuesLeft = (k - 1 - n) * chunk_size + remaining_chunk_size
        BY <1>1, <2>2 DEF ValuesLeft
      <3>3. ValuesLeft' = (k - 1 - (n + 1)) * chunk_size + remaining_chunk_size
        BY <1>1, <1>2, <1>4, <2>2 DEF ValuesLeft, plan
      <3>4. (k - 1 - (n + 1)) * chunk_size \in Nat
        BY <1>1, <2>2, ProductInNat
      <3>5. (k - 1 - n) * chunk_size = chunk_size + (k - 1 - (n + 1)) * chunk_size
        BY <1>1
      <3> HIDE DEF n, k
      <3> QED BY <1>1, <3>1, <3>2, <3>3, <3>4, <3>5
    <2>3. CASE ~remainder_chunk
      <3>1. ValuesLeft = (k - n) * chunk_size + remaining_values
        BY <2>3 DEF ValuesLeft
      <3>2. ValuesLeft' = (k - (n + 1)) * chunk_size + remaining_values'
        BY <1>2, <1>4, <2>3 DEF ValuesLeft, plan
      <3>3. (k - (n + 1)) * chunk_size \in Nat
        BY <1>1, ProductInNat
      <3>4. (k - n) * chunk_size = chunk_size + (k - (n + 1)) * chunk_size
        BY <1>1
      <3>5. remaining_values' \in Nat /\ chunk_size + remaining_values = size + remaining_values'
        BY <1>1, <1>2, <1>2a, <2>3
      <3> HIDE DEF n, k, size
      <3>6. ValuesLeft' \in Nat
        BY <3>2, <3>3, <3>5
      <3>7. PICK left \in Nat : left = (k - (n + 1)) * chunk_size
        BY <3>3
      <3>8. ValuesLeft = (chunk_size + left) + remaining_values
        BY <3>1, <3>4, <3>7
      <3>9. ValuesLeft' = left + remaining_values'
        BY <3>2, <3>7
      <3>10. PICK s \in Nat, r \in Nat : s = size /\ r = remaining_values'
        BY <1>3, <3>5
      <3>11. /\ chunk_size \in Nat /\ remaining_values \in Nat
              /\ chunk_size + remaining_values = s + r
        BY <1>1, <3>5, <3>10
      <3>12. ValuesLeft = s + (left + r)
        BY <3>8, <3>11
      <3> QED BY <3>6, <3>9, <3>10, <3>12
    <2> QED BY <1>1, <2>1, <2>2, <2>3
  <1>6. current_value_index' + ValuesLeft' = a_cols /\ current_value_index' <= a_cols
    <2>1. current_value_index + ValuesLeft = a_cols
      BY <1>2 DEF LoopInv
    <2>2. current_value_index' = current_value_index + size
      BY <1>2
    <2> HIDE DEF size
    <2>3. PICK left \in Nat : left = ValuesLeft' /\ ValuesLeft = size + left
      BY <1>5
    <2>4. a_cols = current_value_index + (size + left)
      BY <2>1, <2>3
    <2>5. a_cols = current_value_index' + left /\ current_value_index' <= a_cols
      BY <1>1, <1>3, <2>2, <2>4
    <2> QED BY <2>3, <2>5, <1>1, <1>2
  <1>7. TypeOK'
    BY <1>1, <1>2, <1>3, <1>4 DEF TypeOK, settings, plan
  <1>8. PlanInv'
    BY <1>2 DEF PlanInv, settings, plan
  <1>9. LoopInv'
    BY <1>1, <1>2, <1>4, <1>6 DEF LoopInv, settings, plan
  <1>10. Chained'
    <2> SUFFICES ASSUME NEW i \in 1 .. n + 1
                 PROVE  /\ tasks'[i].size > 0
                        /\ tasks'[i].start = IF i = 1 THEN 0
                                             ELSE tasks'[i - 1].start + tasks'[i - 1].size
                        /\ tasks'[i].start + tasks'[i].size <= a_cols
                        /\ 7 * (tasks'[i].size - max_chunk_size) < max_chunk_size
      BY <1>2, <1>4 DEF Chained, settings
    <2>1. CASE i \in 1 .. n
      <3>1. i = 1 \/ i - 1 \in 1 .. n
        BY <1>1, <2>1
      <3> QED BY <2>1, <3>1, <1>4 DEF Chained
    <2>2. CASE i = n + 1
      <3>1. tasks'[i].size = size /\ tasks'[i].start = current_value_index
        BY <2>2, <1>4
      <3>2. current_value_index = IF tasks = <<>> THEN 0 ELSE tasks[n].start + tasks[n].size
        BY <1>2 DEF LoopInv
      <3>3. tasks = <<>> <=> n = 0
        BY <1>1
      <3>4. n # 0 => i - 1 = n /\ n \in 1 .. n
        BY <1>1, <2>2
      <3>5. current_value_index + size <= a_cols
        BY <1>2, <1>6
      <3> QED BY <1>1, <1>3, <1>4, <2>2, <3>1, <3>2, <3>3, <3>4, <3>5
    <2> QED BY <1>1, <2>1, <2>2
  <1> QED BY <1>7, <1>8, <1>9, <1>10

LEMMA FieldFinishedKeeps ==
  ASSUME IInv, FieldFinished
  PROVE  IInv'
  <1> USE DEF IInv
  <1>1. TypeOK'
    BY DEF TypeOK, FieldFinished, settings, plan, queue
  <1>2. PlanInv'
    BY DEF PlanInv, FieldFinished, settings, plan
  <1>3. ValuesLeft' = ValuesLeft
    BY DEF ValuesLeft, FieldFinished, plan, queue
  <1>4. LoopInv'
    BY <1>3 DEF LoopInv, FieldFinished, settings, plan, queue
  <1>5. Chained'
    BY DEF Chained, FieldFinished, settings, queue
  <1> QED BY <1>1, <1>2, <1>4, <1>5

LEMMA NextIInv ==
  ASSUME IInv, [Next]_vars
  PROVE  IInv'
  <1>1. CASE UNCHANGED vars
    <2> USE <1>1 DEF vars, settings, plan, queue
    <2>1. TypeOK' /\ PlanInv'
      BY DEF IInv, TypeOK, PlanInv
    <2>2. ValuesLeft' = ValuesLeft
      BY DEF ValuesLeft
    <2>3. LoopInv' /\ Chained'
      BY <2>2 DEF IInv, LoopInv, Chained
    <2> QED BY <2>1, <2>3 DEF IInv
  <1> QED BY <1>1, PackFullRowsKeeps, SplitIntoChunksKeeps, ResizeKeeps,
             StartFieldKeeps, CreateTaskKeeps, FieldFinishedKeeps DEF Next

LEMMA Inductive == Spec => []IInv
  <1>1. Init => IInv
    BY InitIInv
  <1>2. IInv /\ [Next]_vars => IInv'
    BY NextIInv
  <1> QED BY <1>1, <1>2, PTL DEF Spec

-----------------------------------------------------------------------------
(***************************************************************************)
(* The theorems                                                            *)
(***************************************************************************)

\* prepareTasks() and createTasks() keep chunk sizes, counts and indices
\* natural numbers: no round of the resize loop takes more than is left.
THEOREM PlanTypeCorrect == Spec => []TypeOK
  <1>1. IInv => TypeOK
    BY DEF IInv
  <1> QED BY <1>1, Inductive, PTL

\* getRowArray() and getColArray() are never asked for values beyond the row,
\* whatever the size of the matrices, MAX_CHUNK_SIZE and the workers.
THEOREM NoTaskBeyondRow == Spec => []TasksInRow
  <1>1. IInv => TasksInRow
    <2> SUFFICES ASSUME IInv PROVE TasksInRow
      OBVIOUS
    <2>1. DOMAIN tasks = 1 .. Len(tasks)
      BY DEF IInv, TypeOK
    <2> QED BY <2>1 DEF IInv, Chained, TasksInRow
  <1> QED BY <1>1, Inductive, PTL

\* The chunks createTasks() cuts a row into cover it without gap or overlap.
THEOREM RowsCovered == Spec => []RowCovered
  <1>1. IInv => RowCovered
    <2> SUFFICES ASSUME IInv PROVE RowCovered
      OBVIOUS
    <2>1. DOMAIN tasks = 1 .. Len(tasks) /\ Len(tasks) \in Nat /\ (tasks = <<>> <=> Len(tasks) = 0)
      BY DEF IInv, TypeOK
    <2>2. \A i \in DOMAIN tasks :
            /\ tasks[i].size > 0
            /\ tasks[i].start = IF i = 1 THEN 0 ELSE tasks[i - 1].start + tasks[i - 1].size
      BY <2>1 DEF IInv, Chained
    <2>3. ASSUME pc = "done"
          PROVE  /\ tasks # <<>>
                 /\ tasks[Len(tasks)].start + tasks[Len(tasks)].size = a_cols
      <3>1. /\ Len(tasks) = chunks_per_row /\ chunks_per_row > 0
            /\ current_value_index + ValuesLeft = a_cols
            /\ current_value_index =
                 IF tasks = <<>> THEN 0 ELSE tasks[Len(tasks)].start + tasks[Len(tasks)].size
        BY <2>3 DEF IInv, LoopInv, PlanInv
      <3>2. ValuesLeft = 0
        <4>1. CASE remainder_chunk
          BY <3>1, <4>1 DEF ValuesLeft
        <4>2. CASE ~remainder_chunk
          <5>1. remaining_values <= chunks_per_row - Len(tasks)
            BY <2>3, <4>2 DEF IInv, LoopInv
          <5>2. /\ remaining_values \in Nat /\ chunk_size \in Nat /\ chunks_per_row \in Nat
            BY DEF IInv, TypeOK
          <5>3. remaining_values = 0 /\ (chunks_per_row - Len(tasks)) * chunk_size = 0
            BY <3>1, <5>1, <5>2
          <5> QED BY <4>2, <5>3 DEF ValuesLeft
        <4> QED BY <4>1, <4>2
      <3>3. a_cols \in Nat /\ current_value_index \in Nat
        BY ChunkPlanAssumption DEF IInv, TypeOK
      <3> QED BY <2>1, <3>1, <3>2, <3>3
    <2> QED BY <2>2, <2>3 DEF RowCovered
  <1> QED BY <1>1, Inductive, PTL

\* Spreading a remainder makes no chunk larger than MAX_CHUNK_SIZE by a seventh.
THEOREM ChunkSizesBounded == Spec => []ChunksSlightlyExceed
  <1>1. IInv => ChunksSlightlyExceed
    <2> SUFFICES ASSUME IInv PROVE ChunksSlightlyExceed
      OBVIOUS
    <2>1. DOMAIN tasks = 1 .. Len(tasks)
      BY DEF IInv, TypeOK
    <2> QED BY <2>1 DEF IInv, Chained, ChunksSlightlyExceed
  <1> QED BY <1>1, Inductive, PTL

-----------------------------------------------------------------------------
(***************************************************************************)
(* Tasks for the workers                                                   *)
(***************************************************************************)

\* The plan has enough chunks for the workers, before a task is created.
EnoughChunks ==
  pc # "prepare" /\ result_fields * a_cols >= number_workers
    => 8 * result_fields * chunks_per_row > 7 * number_workers

\* A common factor does not matter.
LEMMA Cancel ==
  ASSUME NEW a \in Nat, NEW b \in Nat, NEW s \in Nat \ {0}, a * s < b * s
  PROVE  a < b
  <1> SUFFICES ASSUME b <= a PROVE FALSE
    OBVIOUS
  <1>1. PICK d \in Nat : a = b + d
    <2>1. a - b \in Nat /\ a = b + (a - b)
      OBVIOUS
    <2> QED BY <2>1
  <1>2. a * s = b * s + d * s
    BY <1>1
  <1>3. d * s \in Nat /\ a * s \in Nat /\ b * s \in Nat
    BY ProductInNat
  <1> QED BY <1>2, <1>3

\* Products grow with their factors.
LEMMA Monotone ==
  ASSUME NEW a \in Nat, NEW b \in Nat, NEW n \in Nat
  PROVE  /\ a <= b => n * a <= n * b
         /\ a < b /\ n > 0 => n * a < n * b
  <1>1. ASSUME a <= b
        PROVE  n * b = n * a + n * (b - a) /\ n * (b - a) \in Nat
    <2>1. b - a \in Nat
      BY <1>1
    <2> QED BY <2>1, ProductInNat
  <1>2. ASSUME a < b, n > 0
        PROVE  n * (b - a) > 0
    <2>1. b - a \in Nat \ {0} /\ n \in Nat \ {0}
      BY <1>2
    <2> QED BY <2>1
  <1>3. n * a \in Nat /\ n * b \in Nat
    BY ProductInNat
  <1> QED BY <1>1, <1>2, <1>3

\* c chunks of about s values make up a row of A, and a worker's share of the
\* F fields is at least s.
LEMMA ChunksForWorkers ==
  ASSUME NEW F \in Nat \ {0}, NEW A \in Nat, NEW W \in Nat, NEW s \in Nat \ {0}, NEW c \in Nat,
         s * W <= F * A, 7 * A < 8 * (c * s)
  PROVE  8 * F * c > 7 * W
  <1>1. /\ s * W \in Nat /\ F * A \in Nat /\ c * s \in Nat /\ F * c \in Nat
        /\ F * (c * s) \in Nat /\ (F * c) * s \in Nat
    BY ProductInNat
  <1>2. F * (7 * A) < F * (8 * (c * s))
    BY <1>1, Monotone
  <1>3. F * (7 * A) = 7 * (F * A) /\ F * (8 * (c * s)) = 8 * ((F * c) * s)
    <2>1. F * (c * s) = (F * c) * s
      OBVIOUS
    <2>2. F * (8 * (c * s)) = 8 * (F * (c * s))
      BY <1>1
    <2> QED BY <2>1, <2>2
  <1>4. (7 * W) * s = 7 * (s * W) /\ (8 * (F * c)) * s = 8 * ((F * c) * s)
    BY <1>1
  <1>5. (7 * W) * s < (8 * (F * c)) * s
    BY <1>1, <1>2, <1>3, <1>4
  <1>6. 7 * W < 8 * (F * c)
    BY <1>1, <1>5, Cancel
  <1> QED BY <1>1, <1>6

\* A worker's share fits the multiplications there are.
LEMMA ShareFits ==
  ASSUME TypeOK, result_fields * a_cols >= number_workers
  PROVE  calculations_per_worker * number_workers <= result_fields * a_cols
  <1> DEFINE n == result_fields * a_cols
             W == number_workers
  <1>1. /\ W \in Nat /\ result_fields \in Nat /\ a_cols \in Nat
        /\ n \in Nat /\ n >= W
    BY ChunkPlanAssumption, ProductInNat DEF TypeOK
  <1>2. calculations_per_worker = AtLeastOne(n \div AtLeastOne(W))
    BY DEF calculations_per_worker
  <1> HIDE DEF n, W
  <1>3. CASE W = 0
    <2>1. AtLeastOne(W) = 1
      BY <1>3 DEF AtLeastOne
    <2>2. n \div 1 \in Nat
      BY <1>1, Division
    <2>3. calculations_per_worker \in Nat
      BY <1>2, <2>1, <2>2 DEF AtLeastOne
    <2>4. calculations_per_worker * W = 0
      BY <1>3, <2>3
    <2> QED BY <1>1, <2>4 DEF n, W
  <1>4. CASE W # 0
    <2>1. AtLeastOne(W) = W /\ W \in Nat \ {0}
      BY <1>1, <1>4 DEF AtLeastOne
    <2>2. /\ n \div W \in Nat \ {0}
          /\ n % W \in 0 .. W - 1
          /\ (n \div W) * W + (n % W) = n
      <3>1. PICK a \in Nat, d \in Nat \ {0} : a = n /\ d = W
        BY <1>1, <2>1
      <3>2. /\ a \div d \in Nat /\ a % d \in 0 .. d - 1
            /\ (a \div d) * d + (a % d) = a /\ a \div d > 0
        BY <1>1, <3>1, Division
      <3> QED BY <3>1, <3>2
    <2>3. calculations_per_worker = n \div W
      BY <1>2, <2>1, <2>2 DEF AtLeastOne
    <2>4. (n \div W) * W \in Nat /\ n % W \in Nat
      BY <1>1, <2>2, ProductInNat
    <2>5. (n \div W) * W <= n
      BY <1>1, <2>2, <2>4
    <2> QED BY <2>3, <2>5 DEF n, W
  <1> QED BY <1>3, <1>4

\* A plan whose chunks are no larger than a worker's share, and make up seven
\* eighths of a row, has enough of them.
LEMMA PlanIsEnough ==
  ASSUME TypeOK, NEW s \in Nat \ {0}, NEW c \in Nat, s <= calculations_per_worker,
         7 * a_cols < 8 * (c * s), result_fields * a_cols >= number_workers
  PROVE  8 * result_fields * c > 7 * number_workers
  <1>1. /\ result_fields \in Nat \ {0} /\ a_cols \in Nat /\ number_workers \in Nat
        /\ calculations_per_worker \in Nat
    <2>1. calculations_per_worker \in Nat
      BY InitialChunkSizePositive
    <2> QED BY <2>1, ChunkPlanAssumption DEF TypeOK
  <1>2. s * number_workers <= calculations_per_worker * number_workers
    <2>1. number_workers * s <= number_workers * calculations_per_worker
      BY <1>1, Monotone
    <2> QED BY <1>1, <2>1
  <1>3. /\ s * number_workers \in Nat /\ result_fields * a_cols \in Nat
        /\ calculations_per_worker * number_workers \in Nat
    BY <1>1, ProductInNat
  <1>4. s * number_workers <= result_fields * a_cols
    BY <1>2, <1>3, ShareFits
  <1> QED BY <1>1, <1>4, ChunksForWorkers

\* Whether a row is split or not, the plan has enough chunks.
LEMMA SplitIsEnough ==
  ASSUME IInv, PackFullRows \/ SplitIntoChunks
  PROVE  EnoughChunks'
  <1> DEFINE size == InitialChunkSize
             remainder == a_cols % size
             additional == remainder > 0 /\ ~SpreadRemainder(size, remainder)
  <1>1. /\ a_cols \in Nat \ {0} /\ calculations_per_worker \in Nat \ {0}
        /\ size \in Nat \ {0} /\ size <= a_cols
    <2>1. a_cols \in Nat \ {0} /\ TypeOK
      BY ChunkPlanAssumption DEF IInv, TypeOK
    <2> QED BY <2>1, InitialChunkSizePositive
  <1>2. SUFFICES ASSUME result_fields * a_cols >= number_workers
                 PROVE  8 * result_fields * chunks_per_row' > 7 * number_workers
    BY DEF EnoughChunks, PackFullRows, SplitIntoChunks, settings
  <1>3. CASE PackFullRows
    <2>1. chunks_per_row' = 1 /\ a_cols <= calculations_per_worker
      BY <1>1, <1>3 DEF PackFullRows, SplitRows
    <2>2. 7 * a_cols < 8 * (1 * a_cols)
      BY <1>1
    <2> QED BY <1>1, <1>2, <2>1, <2>2, PlanIsEnough DEF IInv
  <1>4. CASE SplitIntoChunks
    <2>1. size <= calculations_per_worker
      <3>1. max_chunk_size \in Nat
        BY ChunkPlanAssumption DEF IInv, TypeOK
      <3> QED BY <1>1, <3>1 DEF InitialChunkSize, Smaller
    <2>2. chunks_per_row' = IF additional THEN a_cols \div size + 1 ELSE a_cols \div size
      BY <1>4 DEF SplitIntoChunks
    <2>3. /\ a_cols \div size \in Nat \ {0}
          /\ remainder \in 0 .. size - 1
          /\ (a_cols \div size) * size + remainder = a_cols
      <3>1. PICK n \in Nat, d \in Nat \ {0} : n = a_cols /\ d = size
        BY <1>1
      <3>2. /\ n \div d \in Nat /\ n % d \in 0 .. d - 1
            /\ (n \div d) * d + (n % d) = n /\ n \div d > 0
        BY <1>1, <3>1, Division
      <3> QED BY <3>1, <3>2
    <2>4. ~additional => remainder = 0 \/ 7 * remainder < size
      BY <2>3 DEF SpreadRemainder
    <2> DEFINE q == a_cols \div size
    <2> HIDE DEF size, remainder, additional, q
    <2>5. q \in Nat \ {0} /\ q * size \in Nat /\ q * size >= size /\ q * size + remainder = a_cols
      <3>1. q \in Nat \ {0} /\ q * size + remainder = a_cols
        BY <2>3 DEF q
      <3>2. q - 1 \in Nat /\ q * size = (q - 1) * size + size
        BY <1>1, <3>1
      <3>3. (q - 1) * size \in Nat /\ q * size \in Nat
        BY <1>1, <3>1, <3>2, ProductInNat
      <3> QED BY <1>1, <3>1, <3>2, <3>3
    <2>6. CASE additional
      <3>1. chunks_per_row' = q + 1 /\ q + 1 \in Nat
        BY <2>2, <2>5, <2>6 DEF q
      <3>2. (q + 1) * size = q * size + size
        BY <1>1, <2>5
      <3>3. 7 * a_cols < 8 * ((q + 1) * size)
        BY <1>1, <2>3, <2>5, <3>2
      <3> QED BY <1>1, <1>2, <2>1, <3>1, <3>3, PlanIsEnough DEF IInv
    <2>7. CASE ~additional
      <3>1. chunks_per_row' = q
        BY <2>2, <2>7 DEF q
      <3>2. 7 * a_cols < 8 * (q * size)
        BY <1>1, <2>3, <2>4, <2>5, <2>7
      <3> QED BY <1>1, <1>2, <2>1, <2>5, <3>1, <3>2, PlanIsEnough DEF IInv
    <2> QED BY <2>6, <2>7
  <1> QED BY <1>3, <1>4

\* However a remainder is spread, there are tasks for more than seven eighths
\* of the workers when there is a multiplication for each of them.
THEOREM TasksForWorkers == Spec => []EnoughTasks
  <1>1. Init => EnoughChunks
    BY DEF Init, EnoughChunks
  <1>2. ASSUME IInv, EnoughChunks, [Next]_vars
        PROVE  EnoughChunks'
    <2>1. CASE PackFullRows \/ SplitIntoChunks
      BY <1>2, <2>1, SplitIsEnough
    <2>2. CASE ~(PackFullRows \/ SplitIntoChunks)
      <3>1. /\ UNCHANGED <<settings, chunks_per_row>>
            /\ pc' # "prepare" => pc # "prepare"
        BY <1>2, <2>2 DEF Next, ResizeChunks, ResizeFinished, StartField, CreateTask, FieldFinished,
                          vars, plan
      <3> QED BY <1>2, <3>1 DEF EnoughChunks, settings
    <2> QED BY <2>1, <2>2
  <1>3. IInv /\ EnoughChunks => EnoughTasks
    BY DEF IInv, LoopInv, EnoughChunks, EnoughTasks
  <1> QED BY <1>1, <1>2, <1>3, Inductive, PTL DEF Spec
=============================================================================
