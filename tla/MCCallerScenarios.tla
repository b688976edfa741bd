-------------------------- MODULE MCCallerScenarios --------------------------
(* The instance of CallerScenarios for TLC: its only bound is in the cfg. *)
EXTENDS CallerScenarios
=============================================================================
