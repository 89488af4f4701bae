---------------------------- MODULE MCController ----------------------------
(***************************************************************************)
(* The instances of Controller that TLC checks: two workers, so that every *)
(* pair of threads and main interleave, and fields of two chunks, so that  *)
(* a reassigned task finds its field's queue empty as well as not empty.   *)
(***************************************************************************)
EXTENDS ControllerProperties

NoWorkers == {}
FirstWorker == {0}
=============================================================================
