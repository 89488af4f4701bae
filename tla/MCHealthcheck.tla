--------------------------- MODULE MCHealthcheck ---------------------------
(***************************************************************************)
(* The instance of Healthcheck that TLC checks.                            *)
(***************************************************************************)
EXTENDS Healthcheck
=============================================================================
