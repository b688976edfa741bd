------------------------- MODULE MCCoordinatorPhase -------------------------
(* One phase over a root in any stage, two polls for maxPollAttempts = 64.   *)
EXTENDS CoordinatorPhase

=============================================================================
