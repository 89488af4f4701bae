----------------------------- MODULE MCDatabase -----------------------------
(***************************************************************************)
(* The instances of Database that TLC checks.                              *)
(***************************************************************************)
EXTENDS DatabaseProperties

Task(row, col, chunk, value) ==
  [field |-> <<0, row, col>>, chunk |-> chunk, value |-> value]

\* Two chunks whose sum exceeds the int, and a field with a negative value.
MCTasks == {Task(0, 1, 1, 12), Task(0, 1, 2, 3), Task(1, 0, 1, -7)}

Query(row, col) == [result_matrix |-> 0, row |-> row, col |-> col]
MCQueries == {Query(-1, -1), Query(0, -1), Query(-1, 1), Query(0, 1)}
=============================================================================
