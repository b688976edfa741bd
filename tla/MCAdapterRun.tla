---------------------------- MODULE MCAdapterRun ----------------------------
\* The adapter with one external-caller process.
EXTENDS AdapterRun

MCPhases == {"initial", "reconstruction"}

\* The case counts of the locked profile.
LockedCaseCount == [initial |-> 15, reconstruction |-> 5]

\* A first case, a middle case and a last case, and a phase with no middle.
SmallCaseCount == [initial |-> 3, reconstruction |-> 2]

=============================================================================
