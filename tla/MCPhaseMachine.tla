--------------------------- MODULE MCPhaseMachine ---------------------------
\* PhaseMachine under every order of method calls.
EXTENDS PhaseMachine

MCPhases == {"initial", "reconstruction"}

\* The locked profile has 15 and 5 cases and MaxAdapterOutputSequence 32; the
\* small instance keeps the limit exactly as tight for the longer phase.
MCCaseCount == [initial |-> 4, reconstruction |-> 2]

=============================================================================
