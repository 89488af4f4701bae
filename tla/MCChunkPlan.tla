----------------------------- MODULE MCChunkPlan -----------------------------
(***************************************************************************)
(* All small settings, among them no worker, rows shorter than a chunk,    *)
(* more workers than multiplications, and rows long enough for a remainder *)
(* that is spread in several rounds.                                       *)
(***************************************************************************)
EXTENDS ChunkPlan

SomeWorkers == {0, 1, 3, 7, 30}
SomeFields == {1, 4}
SomeCols == 1 .. 50
SomeChunkSizes == 1 .. 52
=============================================================================
