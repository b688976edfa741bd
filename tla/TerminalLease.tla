---------------------------- MODULE TerminalLease ----------------------------
(***************************************************************************)
(* What the grant table promises its users, without handlers, watchers or  *)
(* transports: a lease is taken at most once, is never taken after it has  *)
(* been voided, and a revocation is acknowledged only when the lease is    *)
(* not held; once acknowledged it is never held again.                     *)
(***************************************************************************)
CONSTANT Leases

VARIABLES
    phase,    \* where each lease is in its one-way life
    voided,   \* leases whose revocation was requested
    acked     \* leases whose revocation was acknowledged

leaseVars == <<phase, voided, acked>>

Init ==
    /\ phase = [l \in Leases |-> "unissued"]
    /\ voided = {}
    /\ acked = {}

Move(l, from, to) ==
    /\ phase[l] = from
    /\ phase' = [phase EXCEPT ![l] = to]
    /\ UNCHANGED <<voided, acked>>

Issue(l) == Move(l, "unissued", "issued")

Take(l) == l \notin voided /\ Move(l, "issued", "held")

Release(l) == Move(l, "held", "spent")

Void(l) ==
    /\ phase[l] # "unissued"
    /\ voided' = voided \cup {l}
    /\ UNCHANGED <<phase, acked>>

Acknowledge(l) ==
    /\ l \in voided
    /\ phase[l] # "held"
    /\ acked' = acked \cup {l}
    /\ UNCHANGED <<phase, voided>>

Next ==
    \E l \in Leases :
        Issue(l) \/ Take(l) \/ Release(l) \/ Void(l) \/ Acknowledge(l)

Spec == Init /\ [][Next]_leaseVars

=============================================================================
