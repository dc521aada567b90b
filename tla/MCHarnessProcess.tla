-------------------------- MODULE MCHarnessProcess --------------------------
(* Instances of HarnessProcess for TLC.                                       *)
EXTENDS HarnessProcess, TLC

CONSTANTS harness, d1, d2
=============================================================================
