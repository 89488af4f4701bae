----------------------------- MODULE MCStartUp -----------------------------
(***************************************************************************)
(* The instance of StartUp that TLC checks.                                *)
(***************************************************************************)
EXTENDS StartUpProperties

NoWorkers == {}
=============================================================================
