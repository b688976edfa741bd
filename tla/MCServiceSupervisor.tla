------------------------- MODULE MCServiceSupervisor -------------------------
(* Small instances of ServiceSupervisor for TLC. *)
EXTENDS ServiceSupervisor, TLC

\* Calls differ only in what they do, starts only in their order and digest.
Symmetry == Permutations(Calls) \cup Permutations(Services) \cup Permutations(Bindings)
=============================================================================
