----------------------------- MODULE MCWriteLock -----------------------------
(***************************************************************************)
(* The instances of WriteLock that TLC checks.                             *)
(***************************************************************************)
EXTENDS WriteLockProperties

NoWorkers == {}
TwoWorkers == {0, 1}

\* Who printed or asked to.
Printers == {p \in Workers : pc[<<p, "main">>] # "idle"}

\* All three workers print if worker 0 stored the result at once, any two after
\* a POST has failed.
PrintersBound ==
  IF failures = 0
  THEN stores_left = 0 /\ Printers = {} => \A p \in Workers \ {0} : request_lamport_time[p] = -1
  ELSE Cardinality(Printers) <= 2
=============================================================================
