------------------------- MODULE MCCallerStateStore -------------------------
(* Small instances of CallerStateStore.                                     *)
EXTENDS CallerStateStore, TLC

\* Plans and binding values are only compared for equality.
Interchangeable == Permutations(Plans) \cup Permutations(Values)
=============================================================================
