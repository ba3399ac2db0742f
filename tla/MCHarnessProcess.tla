-------------------------- MODULE MCHarnessProcess --------------------------
(* Small instances of HarnessProcess for TLC. *)
EXTENDS HarnessProcess, TLC
=============================================================================
