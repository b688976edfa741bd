---------------------------- MODULE GatewayGrants ----------------------------
(***************************************************************************)
(* The terminal Gateway's grant table and its live CONNECT tunnels         *)
(* (internal/gateway/grant.go and internal/gateway/server.go).             *)
(*                                                                         *)
(* A grant is a one-use bearer token bound to a controller subject, its    *)
(* tenant and an expiry.  A CONNECT handler consumes a grant and obtains a *)
(* permit; the permit owns the two transports of the tunnel.  Four kinds   *)
(* of goroutine interleave: the HTTP handlers, one cancellation watcher    *)
(* per permit, the two copy loops of a tunnel, and callers of Revoke.      *)
(*                                                                         *)
(* Every critical section under Gateway.mu or Permit.mu is one step; code  *)
(* between critical sections is broken wherever another goroutine can see  *)
(* the difference.                                                         *)
(***************************************************************************)
EXTENDS Integers, FiniteSets

CONSTANTS
    Tokens,       \* bearer tokens crypto/rand may draw
    Subjects,     \* controller subjects (URI SANs) of the identity policy
    Tenants,      \* caller-owned tenants
    Policy,       \* the immutable subject-to-tenant policy
    Handlers,     \* CONNECT requests, one handler goroutine each
    Revokers,     \* calls of Revoke
    MaxGrants,    \* maxGrants, 64 in the code
    MaxGrantTTL,  \* maxGrantTTL, five minutes in the code
    MaxTime       \* bound on the clock

ASSUME PolicyAssumption ==
    /\ Subjects # {} /\ Tokens # {}
    /\ Policy \in [Subjects -> Tenants]
    /\ \A s1, s2 \in Subjects : Policy[s1] = Policy[s2] => s1 = s2

ASSUME BoundsAssumption ==
    /\ MaxGrants \in Nat
    /\ MaxGrantTTL \in Nat
    /\ MaxTime \in Nat

VARIABLES
    now,        \* the wall clock
    issued,     \* tokens ever returned by IssueGrant
    table,      \* keys of Gateway.grants
    owner, tenant, expires,   \* Binding of each issued token
    used, revoked,            \* flags of each grant, as sets of tokens
    permits,    \* handlers whose permit is registered in its grant
    hpc,        \* where each handler is in ServeHTTP
    tok, subj,  \* token and verified client subject of each handler
    cancelled,  \* handlers whose permit context is done
    tclosed,    \* Permit.transportsClosed
    attached,   \* Permit.frontend and Permit.backend are set
    fe, be,     \* hijacked client connection and resolved backend
    copying,    \* copy loops still running
    done,       \* handlers whose Permit.done is closed
    wpc,        \* closeOnCancellation goroutine
    rpc, rtok, rwait          \* Revoke calls: progress, token, permits awaited

grantVars == <<issued, table, owner, tenant, expires, used, revoked>>
connVars  == <<tclosed, attached, fe, be, copying>>
revVars   == <<rpc, rtok, rwait>>
vars == <<now, grantVars, permits, hpc, tok, subj, cancelled, connVars, done,
          wpc, revVars>>

Directions == {"up", "down"}

\* Steps of ServeHTTP that hold a permit: the backend is being opened, the
\* client connection hijacked, the two attached, the 200 written, the tunnel
\* running; then the steps of Permit.Close, and the wait for the second copy.
ServingSteps == {"open", "hijack", "attach", "respond", "proxy"}
ClosingSteps == {"cancel", "mark", "closefe", "closebe", "unregister", "signal"}
HandlerSteps == {"idle", "rejected", "drain", "returned"} \cup ServingSteps \cup ClosingSteps

\* Every variable has its type, and the grant table never outgrows maxGrants
\* (IssueGrant purges before it counts).
TypeOK ==
    /\ now \in 0..MaxTime
    /\ issued \subseteq Tokens
    /\ table \subseteq issued
    /\ owner \in [Tokens -> Subjects]
    /\ tenant \in [Tokens -> Tenants]
    /\ expires \in [Tokens -> Nat]
    /\ used \subseteq issued
    /\ revoked \subseteq issued
    /\ permits \subseteq Handlers
    /\ hpc \in [Handlers -> HandlerSteps]
    /\ tok \in [Handlers -> Tokens]
    /\ subj \in [Handlers -> Subjects]
    /\ cancelled \subseteq Handlers
    /\ tclosed \subseteq Handlers
    /\ attached \subseteq Handlers
    /\ fe \in [Handlers -> {"none", "open", "closed"}]
    /\ be \in [Handlers -> {"none", "open", "closed"}]
    /\ copying \in [Handlers -> SUBSET Directions]
    /\ done \subseteq Handlers
    /\ wpc \in [Handlers -> {"none", "wait", "closefe", "closebe", "returned"}]
    /\ rpc \in [Revokers -> {"idle", "waiting", "acked", "timeout", "unauthorized"}]
    /\ rtok \in [Revokers -> Tokens]
    /\ rwait \in [Revokers -> SUBSET Handlers]
    /\ IsFiniteSet(table) /\ Cardinality(table) <= MaxGrants

\* New: an empty table under a fixed policy of distinct tenants.  A value
\* chosen here for a token, handler or revoker that has not acted is a
\* placeholder nothing reads.
Init ==
    /\ now = 0
    /\ issued = {} /\ table = {} /\ used = {} /\ revoked = {}
    /\ owner = [t \in Tokens |-> CHOOSE s \in Subjects : TRUE]
    /\ tenant = [t \in Tokens |-> CHOOSE n \in Tenants : TRUE]
    /\ expires = [t \in Tokens |-> 0]
    /\ permits = {} /\ cancelled = {} /\ tclosed = {} /\ attached = {} /\ done = {}
    /\ hpc = [h \in Handlers |-> "idle"]
    /\ tok = [h \in Handlers |-> CHOOSE t \in Tokens : TRUE]
    /\ subj = [h \in Handlers |-> CHOOSE s \in Subjects : TRUE]
    /\ fe = [h \in Handlers |-> "none"]
    /\ be = [h \in Handlers |-> "none"]
    /\ copying = [h \in Handlers |-> {}]
    /\ wpc = [h \in Handlers |-> "none"]
    /\ rpc = [r \in Revokers |-> "idle"]
    /\ rtok = [r \in Revokers |-> CHOOSE t \in Tokens : TRUE]
    /\ rwait = [r \in Revokers |-> {}]

PermitsOf(t) == {h \in permits : tok[h] = t}

Tick ==
    /\ now < MaxTime
    /\ now' = now + 1
    /\ UNCHANGED <<grantVars, permits, hpc, tok, subj, cancelled, connVars, done, wpc, revVars>>

-----------------------------------------------------------------------------
(* The grant table *)

\* Mutant: purge forgets that an expired grant may still have a live permit.
PurgedWhileHeld == {t \in table : t \in revoked \/ now >= expires[t]}

\* purge drops the grants that are spent for good and hold no permit.
Purged ==
    {t \in table : PermitsOf(t) = {} /\ (t \in revoked \/ now >= expires[t])}

HasRoom == Cardinality(table \ Purged) < MaxGrants

\* IssueGrant: policy and lifetime are checked first, then the table is
\* purged, then capacity is checked; t is a token drawn by crypto/rand, which
\* is taken never to repeat.
IssueGrant(t, s, n, e) ==
    /\ t \notin issued
    /\ Policy[s] = n
    /\ e > now
    /\ e - now <= MaxGrantTTL
    /\ HasRoom
    /\ table' = (table \ Purged) \cup {t}
    /\ issued' = issued \cup {t}
    /\ owner' = [owner EXCEPT ![t] = s]
    /\ tenant' = [tenant EXCEPT ![t] = n]
    /\ expires' = [expires EXCEPT ![t] = e]
    /\ UNCHANGED <<now, used, revoked, permits, hpc, tok, subj, cancelled, connVars, done, wpc, revVars>>

\* No room, or no entropy: the purge has happened all the same.
IssueGrantFails(s, n, e) ==
    /\ Policy[s] = n
    /\ e > now
    /\ e - now <= MaxGrantTTL
    /\ table' = table \ Purged
    /\ UNCHANGED <<now, issued, owner, tenant, expires, used, revoked, permits, hpc, tok, subj, cancelled, connVars, done, wpc, revVars>>

\* Mutants: one check of BeginConnect dropped.
AdmissibleTwice(t, s) ==
    t \in table /\ owner[t] = s /\ t \notin revoked /\ now < expires[t]

AdmissibleForAnySubject(t, s) ==
    t \in table /\ t \notin revoked /\ now < expires[t] /\ t \notin used

AdmissibleWhenRevoked(t, s) ==
    t \in table /\ owner[t] = s /\ now < expires[t] /\ t \notin used

\* BeginConnect succeeds only for a known, unrevoked, unexpired, unused grant
\* presented by its own subject; it reserves the permit and starts the watcher.
Admissible(t, s) ==
    /\ t \in table
    /\ owner[t] = s
    /\ t \notin revoked
    /\ now < expires[t]
    /\ t \notin used

BeginConnect(h, t, s) ==
    /\ hpc[h] = "idle"
    /\ Admissible(t, s)
    /\ used' = used \cup {t}
    /\ permits' = permits \cup {h}
    /\ tok' = [tok EXCEPT ![h] = t]
    /\ subj' = [subj EXCEPT ![h] = s]
    /\ hpc' = [hpc EXCEPT ![h] = "open"]
    /\ wpc' = [wpc EXCEPT ![h] = "wait"]
    /\ UNCHANGED <<now, issued, table, owner, tenant, expires, revoked, cancelled, connVars, done, revVars>>

\* ServeHTTP answers 403 to a malformed request, an unverified subject, a
\* missing or duplicated bearer header, and every error of BeginConnect.
RejectRequest(h) ==
    /\ hpc[h] = "idle"
    /\ hpc' = [hpc EXCEPT ![h] = "rejected"]
    /\ UNCHANGED <<now, grantVars, permits, tok, subj, cancelled, connVars, done, wpc, revVars>>

\* The permit context ends with the grant's expiry or with the request's own
\* context (service deadline, shutdown, client certificate expiry).
Expire(h) ==
    /\ wpc[h] = "wait" /\ h \notin cancelled
    /\ now >= expires[tok[h]]
    /\ cancelled' = cancelled \cup {h}
    /\ UNCHANGED <<now, grantVars, permits, hpc, tok, subj, connVars, done, wpc, revVars>>

ParentCancel(h) ==
    /\ wpc[h] = "wait" /\ h \notin cancelled
    /\ cancelled' = cancelled \cup {h}
    /\ UNCHANGED <<now, grantVars, permits, hpc, tok, subj, connVars, done, wpc, revVars>>

-----------------------------------------------------------------------------
(* The tunnel: ServeHTTP after BeginConnect *)

Goto(h, step) == hpc' = [hpc EXCEPT ![h] = step]

\* openBackend: the resolver returns a backend, or fails and is answered 502.
OpenBackend(h) ==
    /\ hpc[h] = "open"
    /\ be' = [be EXCEPT ![h] = "open"]
    /\ Goto(h, "hijack")
    /\ UNCHANGED <<now, grantVars, permits, tok, subj, cancelled, tclosed, attached, fe, copying, done, wpc, revVars>>

OpenBackendFails(h) ==
    /\ hpc[h] = "open"
    /\ Goto(h, "cancel")
    /\ UNCHANGED <<now, grantVars, permits, tok, subj, cancelled, connVars, done, wpc, revVars>>

Hijack(h) ==
    /\ hpc[h] = "hijack"
    /\ fe' = [fe EXCEPT ![h] = "open"]
    /\ Goto(h, "attach")
    /\ UNCHANGED <<now, grantVars, permits, tok, subj, cancelled, tclosed, attached, be, copying, done, wpc, revVars>>

HijackFails(h) ==
    /\ hpc[h] = "hijack"
    /\ be' = [be EXCEPT ![h] = "closed"]
    /\ Goto(h, "cancel")
    /\ UNCHANGED <<now, grantVars, permits, tok, subj, cancelled, tclosed, attached, fe, copying, done, wpc, revVars>>

\* Mutant: the transports are stored without looking at the permit's state.
AttachUnchecked(h) ==
    /\ hpc[h] = "attach"
    /\ attached' = attached \cup {h}
    /\ Goto(h, "respond")
    /\ UNCHANGED <<now, grantVars, permits, tok, subj, cancelled, tclosed, fe, be, copying, done, wpc, revVars>>

\* Attach hands both transports to the permit, unless the permit was closed or
\* cancelled meanwhile: then it closes them itself.
Attach(h) ==
    /\ hpc[h] = "attach"
    /\ h \notin tclosed /\ h \notin cancelled
    /\ attached' = attached \cup {h}
    /\ Goto(h, "respond")
    /\ UNCHANGED <<now, grantVars, permits, tok, subj, cancelled, tclosed, fe, be, copying, done, wpc, revVars>>

AttachRefused(h) ==
    /\ hpc[h] = "attach"
    /\ h \in tclosed \/ h \in cancelled
    /\ fe' = [fe EXCEPT ![h] = "closed"]
    /\ be' = [be EXCEPT ![h] = "closed"]
    /\ Goto(h, "cancel")
    /\ UNCHANGED <<now, grantVars, permits, tok, subj, cancelled, tclosed, attached, copying, done, wpc, revVars>>

\* The 200 response, then proxyTunnel starts the two copy loops.
Respond(h) ==
    /\ hpc[h] = "respond"
    /\ fe[h] = "open"
    /\ copying' = [copying EXCEPT ![h] = Directions]
    /\ Goto(h, "proxy")
    /\ UNCHANGED <<now, grantVars, permits, tok, subj, cancelled, tclosed, attached, fe, be, done, wpc, revVars>>

RespondFails(h) ==
    /\ hpc[h] = "respond"
    /\ Goto(h, "cancel")
    /\ UNCHANGED <<now, grantVars, permits, tok, subj, cancelled, connVars, done, wpc, revVars>>

\* A copy loop ends when the side it reads from is closed locally; it may also
\* end at any time because a peer closes or fails.
CopyEnds(h, d) ==
    /\ d \in copying[h]
    /\ copying' = [copying EXCEPT ![h] = @ \ {d}]
    /\ UNCHANGED <<now, grantVars, permits, hpc, tok, subj, cancelled, tclosed, attached, fe, be, done, wpc, revVars>>

SourceClosed(h, d) == IF d = "up" THEN fe[h] = "closed" ELSE be[h] = "closed"

\* The first copy to end makes proxyTunnel close the permit.
TunnelEnds(h) ==
    /\ hpc[h] = "proxy"
    /\ copying[h] # Directions
    /\ Goto(h, "cancel")
    /\ UNCHANGED <<now, grantVars, permits, tok, subj, cancelled, connVars, done, wpc, revVars>>

-----------------------------------------------------------------------------
(* Permit.Close, run once by the handler *)

CloseCancel(h) ==
    /\ hpc[h] = "cancel"
    /\ cancelled' = cancelled \cup {h}
    /\ Goto(h, "mark")
    /\ UNCHANGED <<now, grantVars, permits, tok, subj, connVars, done, wpc, revVars>>

\* closeTransports: the goroutine that sets transportsClosed closes both
\* transports after it has released Permit.mu; a second caller returns at once.
CloseMark(h) ==
    /\ hpc[h] = "mark"
    /\ tclosed' = tclosed \cup {h}
    /\ Goto(h, IF h \in tclosed THEN "unregister" ELSE "closefe")
    /\ UNCHANGED <<now, grantVars, permits, tok, subj, cancelled, attached, fe, be, copying, done, wpc, revVars>>

ClosedIfAttached(h, side) == IF h \in attached THEN "closed" ELSE side[h]

CloseFrontend(h) ==
    /\ hpc[h] = "closefe"
    /\ fe' = [fe EXCEPT ![h] = ClosedIfAttached(h, fe)]
    /\ Goto(h, "closebe")
    /\ UNCHANGED <<now, grantVars, permits, tok, subj, cancelled, tclosed, attached, be, copying, done, wpc, revVars>>

CloseBackend(h) ==
    /\ hpc[h] = "closebe"
    /\ be' = [be EXCEPT ![h] = ClosedIfAttached(h, be)]
    /\ Goto(h, "unregister")
    /\ UNCHANGED <<now, grantVars, permits, tok, subj, cancelled, tclosed, attached, fe, copying, done, wpc, revVars>>

Unregister(h) ==
    /\ hpc[h] = "unregister"
    /\ permits' = permits \ {h}
    /\ Goto(h, "signal")
    /\ UNCHANGED <<now, grantVars, tok, subj, cancelled, connVars, done, wpc, revVars>>

\* Mutant: Permit.Close unregisters the permit and never closes done.
SignalNothing(h) ==
    /\ hpc[h] = "signal"
    /\ Goto(h, "drain")
    /\ UNCHANGED <<now, grantVars, permits, tok, subj, cancelled, connVars, done, wpc, revVars>>

SignalDone(h) ==
    /\ hpc[h] = "signal"
    /\ done' = done \cup {h}
    /\ Goto(h, "drain")
    /\ UNCHANGED <<now, grantVars, permits, tok, subj, cancelled, connVars, wpc, revVars>>

HandlerReturns(h) ==
    /\ hpc[h] = "drain"
    /\ copying[h] = {}
    /\ Goto(h, "returned")
    /\ UNCHANGED <<now, grantVars, permits, tok, subj, cancelled, connVars, done, wpc, revVars>>

-----------------------------------------------------------------------------
(* closeOnCancellation: the watcher goroutine of a permit *)

WatcherMark(h) ==
    /\ wpc[h] = "wait" /\ h \in cancelled
    /\ tclosed' = tclosed \cup {h}
    /\ wpc' = [wpc EXCEPT ![h] = IF h \in tclosed THEN "returned" ELSE "closefe"]
    /\ UNCHANGED <<now, grantVars, permits, hpc, tok, subj, cancelled, attached, fe, be, copying, done, revVars>>

WatcherCloseFrontend(h) ==
    /\ wpc[h] = "closefe"
    /\ fe' = [fe EXCEPT ![h] = ClosedIfAttached(h, fe)]
    /\ wpc' = [wpc EXCEPT ![h] = "closebe"]
    /\ UNCHANGED <<now, grantVars, permits, hpc, tok, subj, cancelled, tclosed, attached, be, copying, done, revVars>>

WatcherCloseBackend(h) ==
    /\ wpc[h] = "closebe"
    /\ be' = [be EXCEPT ![h] = ClosedIfAttached(h, be)]
    /\ wpc' = [wpc EXCEPT ![h] = "returned"]
    /\ UNCHANGED <<now, grantVars, permits, hpc, tok, subj, cancelled, tclosed, attached, fe, copying, done, revVars>>

-----------------------------------------------------------------------------
(* Revoke *)

\* Mutant: the grant is flagged but its live permits are not cancelled.
RevokeFlagOnly(r, t, s) ==
    /\ rpc[r] = "idle"
    /\ t \in table /\ owner[t] = s
    /\ revoked' = revoked \cup {t}
    /\ rwait' = [rwait EXCEPT ![r] = PermitsOf(t)]
    /\ rtok' = [rtok EXCEPT ![r] = t]
    /\ rpc' = [rpc EXCEPT ![r] = "waiting"]
    /\ UNCHANGED <<now, issued, table, owner, tenant, expires, used, permits, hpc, tok, subj, cancelled, connVars, done, wpc>>

\* Under Gateway.mu: flag the grant, cancel its permits, remember them.
Revoke(r, t, s) ==
    /\ rpc[r] = "idle"
    /\ t \in table /\ owner[t] = s
    /\ revoked' = revoked \cup {t}
    /\ cancelled' = cancelled \cup PermitsOf(t)
    /\ rwait' = [rwait EXCEPT ![r] = PermitsOf(t)]
    /\ rtok' = [rtok EXCEPT ![r] = t]
    /\ rpc' = [rpc EXCEPT ![r] = "waiting"]
    /\ UNCHANGED <<now, issued, table, owner, tenant, expires, used, permits, hpc, tok, subj, connVars, done, wpc>>

RevokeUnauthorized(r, t, s) ==
    /\ rpc[r] = "idle"
    /\ ~(t \in table /\ owner[t] = s)
    /\ rpc' = [rpc EXCEPT ![r] = "unauthorized"]
    /\ UNCHANGED <<now, grantVars, permits, hpc, tok, subj, cancelled, connVars, done, wpc, rtok, rwait>>

\* Mutant: the acknowledgement does not wait for the permits.
RevokeAckAtOnce(r) ==
    /\ rpc[r] = "waiting"
    /\ rpc' = [rpc EXCEPT ![r] = "acked"]
    /\ UNCHANGED <<now, grantVars, permits, hpc, tok, subj, cancelled, connVars, done, wpc, rtok, rwait>>

RevokeAck(r) ==
    /\ rpc[r] = "waiting"
    /\ rwait[r] \subseteq done
    /\ rpc' = [rpc EXCEPT ![r] = "acked"]
    /\ UNCHANGED <<now, grantVars, permits, hpc, tok, subj, cancelled, connVars, done, wpc, rtok, rwait>>

\* The caller's context ends while a permit is awaited.
RevokeTimeout(r) ==
    /\ rpc[r] = "waiting"
    /\ rwait[r] # {}
    /\ rpc' = [rpc EXCEPT ![r] = "timeout"]
    /\ UNCHANGED <<now, grantVars, permits, hpc, tok, subj, cancelled, connVars, done, wpc, rtok, rwait>>

-----------------------------------------------------------------------------

PermitClose(h) ==
    \/ CloseCancel(h) \/ CloseMark(h) \/ CloseFrontend(h) \/ CloseBackend(h)
    \/ Unregister(h) \/ SignalDone(h) \/ HandlerReturns(h)

Serve(h) ==
    \/ OpenBackend(h) \/ OpenBackendFails(h)
    \/ Hijack(h) \/ HijackFails(h)
    \/ Attach(h) \/ AttachRefused(h)
    \/ Respond(h) \/ RespondFails(h)
    \/ TunnelEnds(h)

Watcher(h) == WatcherMark(h) \/ WatcherCloseFrontend(h) \/ WatcherCloseBackend(h)

Next ==
    \/ Tick
    \/ \E t \in Tokens, s \in Subjects, n \in Tenants, e \in 1..MaxTime : IssueGrant(t, s, n, e)
    \/ \E s \in Subjects, n \in Tenants, e \in 1..MaxTime : IssueGrantFails(s, n, e)
    \/ \E h \in Handlers, t \in Tokens, s \in Subjects : BeginConnect(h, t, s)
    \/ \E h \in Handlers : RejectRequest(h)
    \/ \E h \in Handlers : Expire(h)
    \/ \E h \in Handlers : ParentCancel(h)
    \/ \E h \in Handlers : Serve(h)
    \/ \E h \in Handlers, d \in Directions : CopyEnds(h, d)
    \/ \E h \in Handlers : PermitClose(h)
    \/ \E h \in Handlers : Watcher(h)
    \/ \E r \in Revokers, t \in Tokens, s \in Subjects : Revoke(r, t, s)
    \/ \E r \in Revokers, t \in Tokens, s \in Subjects : RevokeUnauthorized(r, t, s)
    \/ \E r \in Revokers : RevokeAck(r)
    \/ \E r \in Revokers : RevokeTimeout(r)

Spec == Init /\ [][Next]_vars

\* Goroutines that can run do run; a copy loop whose source was closed
\* returns; a resolver returns once its context is done (the Resolver
\* contract stated at gatewayservice.Serve); the deadline timer of a context
\* fires.  Nothing is assumed of peers, of the clock or of Revoke's timeout.
Fairness ==
    \A h \in Handlers :
        /\ WF_vars(Expire(h))
        /\ WF_vars(h \in cancelled /\ Serve(h))
        /\ WF_vars(TunnelEnds(h))
        /\ WF_vars(PermitClose(h))
        /\ WF_vars(Watcher(h))
        /\ \A d \in Directions : WF_vars(SourceClosed(h, d) /\ CopyEnds(h, d))

FairSpec == Spec /\ Fairness /\ \A r \in Revokers : WF_vars(RevokeAck(r))

-----------------------------------------------------------------------------
(* Safety *)

Admitted(h) == wpc[h] # "none"

\* A grant is a one-connection capability: however handlers interleave, two
\* of them never obtain a permit from the same token (BeginConnect).
OneConnectionPerGrant ==
    \A h1, h2 \in Handlers :
        Admitted(h1) /\ Admitted(h2) /\ tok[h1] = tok[h2] => h1 = h2

\* Whoever holds a permit authenticated as a subject of the tenant the grant
\* was issued for: a token that leaks to the other tenant opens nothing
\* (IssueGrant's policy check together with BeginConnect's subject check).
TenantIsolation ==
    \A h \in Handlers : Admitted(h) => Policy[subj[h]] = tenant[tok[h]]

\* A grant whose permit is registered is in the table, so Revoke and
\* Permit.Close find it: purge never forgets a live tunnel.
LivePermitIsRevocable == \A h \in permits : tok[h] \in table

\* When Revoke returns nil no connection of that token is registered any
\* more, also one that raced the revocation, every one has been cancelled,
\* and none is ever admitted afterwards.
AckedRevokeIsFinal ==
    \A r \in Revokers, h \in Handlers :
        rpc[r] = "acked" /\ Admitted(h) /\ tok[h] = rtok[r]
            => h \notin permits /\ h \in cancelled

\* Neither side of a tunnel survives its handler and its watcher, whichever
\* of Attach, the watcher and Permit.Close ran first.
NoTransportLeak ==
    \A h \in Handlers :
        hpc[h] = "returned" /\ wpc[h] = "returned" => fe[h] # "open" /\ be[h] # "open"

\* What README says of revocation: "The acknowledgement is accepted only after
\* the Gateway has closed the active connection".  Stated in its weakest form:
\* after the acknowledgement no copy loop moves bytes between two open
\* transports.  The code does not guarantee it (closeTransports closes after it
\* has released Permit.mu, and Permit.Close does not wait for that).
RevocationAckClosesConnection ==
    \A r \in Revokers, h \in Handlers :
        rpc[r] = "acked" /\ Admitted(h) /\ tok[h] = rtok[r]
            => ~(fe[h] = "open" /\ be[h] = "open" /\ copying[h] # {})

-----------------------------------------------------------------------------
(* Liveness, under FairSpec *)

TunnelGone(h) == hpc[h] = "returned" /\ fe[h] # "open" /\ be[h] # "open"

\* Revoking a grant, or its expiry, ends its tunnel and closes both transports,
\* wherever in ServeHTTP the handler was and however silent its peers are (Revoke,
\* the permit context's deadline, closeOnCancellation, proxyTunnel).
WithdrawnTunnelCloses ==
    \A h \in Handlers :
        (Admitted(h) /\ (tok[h] \in revoked \/ now >= expires[tok[h]])) ~> TunnelGone(h)

\* Revoke never waits forever, even if its caller's context never ends.
RevokeAnswers ==
    \A r \in Revokers : rpc[r] = "waiting" ~> rpc[r] \in {"acked", "timeout"}

-----------------------------------------------------------------------------
(* The abstract promise *)

PhaseOf(t) ==
    IF t \notin issued THEN "unissued"
    ELSE IF t \notin used THEN "issued"
    ELSE IF PermitsOf(t) # {} THEN "held" ELSE "spent"

Lease == INSTANCE TerminalLease WITH
    Leases <- Tokens,
    phase  <- [t \in Tokens |-> PhaseOf(t)],
    voided <- revoked,
    acked  <- {rtok[r] : r \in {r \in Revokers : rpc[r] = "acked"}}

\* The grant table implements the lease: every step of a goroutine is a step
\* of the lease or leaves it unchanged.
ImplementsLease == Lease!Spec

=============================================================================
