------------------------- MODULE GatewayGrants_proof -------------------------
(***************************************************************************)
(* Proofs about GatewayGrants for any number of handlers, revokers, tokens *)
(* and tenants, any capacity and any clock bound.                          *)
(***************************************************************************)
EXTENDS GatewayGrants, FiniteSetTheorems, TLAPS

-----------------------------------------------------------------------------
(* The inductive invariant *)

\* Steps of a handler that has called BeginConnect successfully and has not
\* yet deleted its permit from the grant.
Registered == ServingSteps \cup (ClosingSteps \ {"signal"})

\* Steps of a handler that runs or has finished Permit.Close's cancellation.
AfterCancel == (ClosingSteps \ {"cancel"}) \cup {"drain", "returned"}

\* Steps of a handler that has been through closeTransports's critical section.
AfterMark == {"closefe", "closebe", "unregister", "signal", "drain", "returned"}

\* Registration of a permit, admission of its handler and use of its grant
\* go together.
PermitBook ==
    \A h \in Handlers :
        /\ h \in permits <=> hpc[h] \in Registered
        /\ Admitted(h) <=> hpc[h] \notin {"idle", "rejected"}
        /\ Admitted(h) => /\ tok[h] \in used
                          /\ owner[tok[h]] = subj[h]
        /\ h \in done => h \notin permits /\ Admitted(h)
        /\ hpc[h] \in AfterCancel => h \in cancelled

GrantBook == \A t \in issued : Policy[owner[t]] = tenant[t]

\* Revoke remembers every permit registered at the time, and a revoked grant
\* gets no other.
RevokeBook ==
    \A r \in Revokers :
        rpc[r] \in {"waiting", "acked", "timeout"} =>
            /\ rtok[r] \in revoked
            /\ \A h \in Handlers :
                   Admitted(h) /\ tok[h] = rtok[r] =>
                       /\ h \in cancelled
                       /\ h \in permits => h \in rwait[r]
            /\ rpc[r] = "acked" => rwait[r] \subseteq done

\* A transport that is open is either still the handler's own, or belongs to
\* an attached permit that is not marked closed, or has a goroutine on its
\* way to close it.
TransportBook ==
    \A h \in Handlers :
        /\ hpc[h] \in {"idle", "rejected", "open"} => fe[h] = "none" /\ be[h] =
            "none"
        /\ hpc[h] = "hijack" => fe[h] = "none"
        /\ h \in attached => hpc[h] \notin {"idle", "rejected", "open",
            "hijack", "attach"}
        /\ h \notin attached /\ hpc[h] \in ClosingSteps \cup {"drain",
            "returned"}
               => fe[h] # "open" /\ be[h] # "open"
        /\ hpc[h] \in {"respond", "proxy"} => h \in attached
        /\ hpc[h] \in AfterMark => h \in tclosed
        /\ wpc[h] \in {"closefe", "closebe", "returned"} => h \in tclosed
        /\ h \in tclosed => Admitted(h)
        /\ h \in attached /\ h \in tclosed /\ fe[h] = "open"
               => hpc[h] = "closefe" \/ wpc[h] = "closefe"
        /\ h \in attached /\ h \in tclosed /\ be[h] = "open"
               => hpc[h] \in {"closefe", "closebe"} \/ wpc[h] \in {"closefe",
                   "closebe"}

\* The conjunction of the books, of the types and of the two safety properties
\* that are needed to prove each other.
IInv ==
    /\ TypeOK
    /\ PermitBook
    /\ GrantBook
    /\ RevokeBook
    /\ TransportBook
    /\ OneConnectionPerGrant
    /\ LivePermitIsRevocable

-----------------------------------------------------------------------------
(* Each step preserves each part *)

\* Every step keeps the types, and IssueGrant keeps the table within maxGrants.
LEMMA TypeOKStep ==
    TypeOK /\ [Next]_vars => TypeOK'
<1> SUFFICES ASSUME TypeOK, [Next]_vars PROVE TypeOK'
  OBVIOUS
<1> USE DEF TypeOK, ServingSteps, ClosingSteps, HandlerSteps, Directions,
    grantVars, connVars, revVars
<1>1. CASE Tick
  BY <1>1, BoundsAssumption DEF Tick
<1>2. ASSUME NEW t \in Tokens, NEW s \in Subjects, NEW n \in Tenants,
             NEW e \in 1..MaxTime, IssueGrant(t, s, n, e)
      PROVE  TypeOK'
  <2> DEFINE kept == table \ Purged
  <2>1. /\ table' = kept \cup {t}
        /\ t \notin kept
        /\ Cardinality(kept) < MaxGrants
        /\ kept \subseteq table
    BY <1>2 DEF IssueGrant, HasRoom
  <2>2. IsFiniteSet(kept) /\ Cardinality(kept) \in Nat
    BY <2>1, FS_Subset, FS_CardinalityType
  <2>3. /\ IsFiniteSet(kept \cup {t})
        /\ Cardinality(kept \cup {t}) = Cardinality(kept) + 1
    BY <2>1, <2>2, FS_AddElement
  <2> HIDE DEF kept
  <2>4. IsFiniteSet(table') /\ Cardinality(table') <= MaxGrants
    BY <2>1, <2>2, <2>3, BoundsAssumption
  <2> QED
    BY <1>2, <2>1, <2>4 DEF IssueGrant
<1>3. ASSUME NEW h \in Handlers, NEW t \in Tokens, NEW s \in Subjects,
             BeginConnect(h, t, s)
      PROVE  TypeOK'
  BY <1>3 DEF BeginConnect, Admissible
<1>4. ASSUME NEW h \in Handlers, RejectRequest(h) PROVE TypeOK'
  BY <1>4 DEF RejectRequest
<1>5. ASSUME NEW h \in Handlers, Expire(h) PROVE TypeOK'
  BY <1>5 DEF Expire
<1>6. ASSUME NEW h \in Handlers, ParentCancel(h) PROVE TypeOK'
  BY <1>6 DEF ParentCancel
<1>7. ASSUME NEW h \in Handlers, Serve(h) PROVE TypeOK'
  BY <1>7 DEF Serve, OpenBackend, OpenBackendFails, Hijack, HijackFails, Attach,
      AttachRefused, Respond, RespondFails, TunnelEnds, Goto
<1>8. ASSUME NEW h \in Handlers, NEW d \in Directions,
             CopyEnds(h, d)
      PROVE  TypeOK'
  BY <1>8 DEF CopyEnds
<1>9. ASSUME NEW h \in Handlers, PermitClose(h) PROVE TypeOK'
  BY <1>9 DEF PermitClose, CloseCancel, CloseMark, CloseFrontend, CloseBackend,
      Unregister, SignalDone, HandlerReturns, Goto, ClosedIfAttached
<1>10. ASSUME NEW h \in Handlers, Watcher(h) PROVE TypeOK'
  BY <1>10 DEF Watcher, WatcherMark, WatcherCloseFrontend, WatcherCloseBackend,
      ClosedIfAttached
<1>11. ASSUME NEW r \in Revokers, NEW t \in Tokens, NEW s \in Subjects,
              Revoke(r, t, s)
       PROVE  TypeOK'
  BY <1>11 DEF Revoke, PermitsOf
<1>12. ASSUME NEW r \in Revokers, NEW t \in Tokens, NEW s \in Subjects,
              RevokeUnauthorized(r, t, s)
       PROVE  TypeOK'
  BY <1>12 DEF RevokeUnauthorized
<1>13. ASSUME NEW r \in Revokers, RevokeAck(r) PROVE TypeOK'
  BY <1>13 DEF RevokeAck
<1>14. ASSUME NEW r \in Revokers, RevokeTimeout(r) PROVE TypeOK'
  BY <1>14 DEF RevokeTimeout
<1>15. CASE UNCHANGED vars
  BY <1>15 DEF vars
<1>16. ASSUME NEW s \in Subjects, NEW n \in Tenants, NEW e \in 1..MaxTime,
              IssueGrantFails(s, n, e)
       PROVE  TypeOK'
  <2>1. table' \subseteq table
    BY <1>16 DEF IssueGrantFails
  <2>2. IsFiniteSet(table') /\ Cardinality(table') <= Cardinality(table)
    BY <2>1, FS_Subset
  <2>3. Cardinality(table') \in Nat /\ Cardinality(table) \in Nat
    BY <2>2, FS_CardinalityType
  <2>4. IsFiniteSet(table') /\ Cardinality(table') <= MaxGrants
    BY <2>2, <2>3, BoundsAssumption
  <2> QED
    BY <1>16, <2>1, <2>4 DEF IssueGrantFails
<1> QED
  BY <1>1, <1>2, <1>3, <1>4, <1>5, <1>6, <1>7, <1>8, <1>9, <1>10, <1>11, <1>12,
      <1>13, <1>14, <1>15, <1>16 DEF Next

\* BeginConnect registers, Permit.Close cancels, unregisters and signals, in
\* that order.
LEMMA PermitBookStep ==
    TypeOK /\ PermitBook /\ [Next]_vars => PermitBook'
<1> SUFFICES ASSUME TypeOK /\ PermitBook, [Next]_vars PROVE PermitBook'
  OBVIOUS
<1> USE DEF TypeOK, PermitBook, Admitted, Registered, AfterCancel, ServingSteps,
    ClosingSteps, HandlerSteps, grantVars, connVars, revVars
<1>1. CASE Tick
  BY <1>1 DEF Tick
<1>2. ASSUME NEW t \in Tokens, NEW s \in Subjects, NEW n \in Tenants,
             NEW e \in 1..MaxTime, IssueGrant(t, s, n, e)
      PROVE  PermitBook'
  BY <1>2 DEF IssueGrant, Purged, HasRoom, PermitsOf
<1>3. ASSUME NEW h \in Handlers, NEW t \in Tokens, NEW s \in Subjects,
             BeginConnect(h, t, s)
      PROVE  PermitBook'
  BY <1>3 DEF BeginConnect, Admissible
<1>4. ASSUME NEW h \in Handlers, RejectRequest(h) PROVE PermitBook'
  BY <1>4 DEF RejectRequest
<1>5. ASSUME NEW h \in Handlers, Expire(h) PROVE PermitBook'
  BY <1>5 DEF Expire
<1>6. ASSUME NEW h \in Handlers, ParentCancel(h) PROVE PermitBook'
  BY <1>6 DEF ParentCancel
<1>7. ASSUME NEW h \in Handlers, OpenBackend(h) PROVE PermitBook'
  BY <1>7 DEF OpenBackend, Goto
<1>8. ASSUME NEW h \in Handlers, OpenBackendFails(h) PROVE PermitBook'
  BY <1>8 DEF OpenBackendFails, Goto
<1>9. ASSUME NEW h \in Handlers, Hijack(h) PROVE PermitBook'
  BY <1>9 DEF Hijack, Goto
<1>10. ASSUME NEW h \in Handlers, HijackFails(h) PROVE PermitBook'
  BY <1>10 DEF HijackFails, Goto
<1>11. ASSUME NEW h \in Handlers, Attach(h) PROVE PermitBook'
  BY <1>11 DEF Attach, Goto
<1>12. ASSUME NEW h \in Handlers, AttachRefused(h) PROVE PermitBook'
  BY <1>12 DEF AttachRefused, Goto
<1>13. ASSUME NEW h \in Handlers, Respond(h) PROVE PermitBook'
  BY <1>13 DEF Respond, Goto
<1>14. ASSUME NEW h \in Handlers, RespondFails(h) PROVE PermitBook'
  BY <1>14 DEF RespondFails, Goto
<1>15. ASSUME NEW h \in Handlers, TunnelEnds(h) PROVE PermitBook'
  BY <1>15 DEF TunnelEnds, Goto
<1>16. ASSUME NEW h \in Handlers, NEW d \in Directions,
              CopyEnds(h, d)
       PROVE  PermitBook'
  BY <1>16 DEF CopyEnds
<1>17. ASSUME NEW h \in Handlers, CloseCancel(h) PROVE PermitBook'
  BY <1>17 DEF CloseCancel, Goto
<1>18. ASSUME NEW h \in Handlers, CloseMark(h) PROVE PermitBook'
  BY <1>18 DEF CloseMark, Goto
<1>19. ASSUME NEW h \in Handlers, CloseFrontend(h) PROVE PermitBook'
  BY <1>19 DEF CloseFrontend, Goto, ClosedIfAttached
<1>20. ASSUME NEW h \in Handlers, CloseBackend(h) PROVE PermitBook'
  BY <1>20 DEF CloseBackend, Goto, ClosedIfAttached
<1>21. ASSUME NEW h \in Handlers, Unregister(h) PROVE PermitBook'
  BY <1>21 DEF Unregister, Goto
<1>22. ASSUME NEW h \in Handlers, SignalDone(h) PROVE PermitBook'
  BY <1>22 DEF SignalDone, Goto
<1>23. ASSUME NEW h \in Handlers, HandlerReturns(h) PROVE PermitBook'
  BY <1>23 DEF HandlerReturns, Goto
<1>24. ASSUME NEW h \in Handlers, WatcherMark(h) PROVE PermitBook'
  BY <1>24 DEF WatcherMark
<1>25. ASSUME NEW h \in Handlers, WatcherCloseFrontend(h) PROVE PermitBook'
  BY <1>25 DEF WatcherCloseFrontend, ClosedIfAttached
<1>26. ASSUME NEW h \in Handlers, WatcherCloseBackend(h) PROVE PermitBook'
  BY <1>26 DEF WatcherCloseBackend, ClosedIfAttached
<1>27. ASSUME NEW r \in Revokers, NEW t \in Tokens, NEW s \in Subjects,
              Revoke(r, t, s)
       PROVE  PermitBook'
  BY <1>27 DEF Revoke, PermitsOf
<1>28. ASSUME NEW r \in Revokers, NEW t \in Tokens, NEW s \in Subjects,
              RevokeUnauthorized(r, t, s)
       PROVE  PermitBook'
  BY <1>28 DEF RevokeUnauthorized
<1>29. ASSUME NEW r \in Revokers, RevokeAck(r) PROVE PermitBook'
  BY <1>29 DEF RevokeAck
<1>30. ASSUME NEW r \in Revokers, RevokeTimeout(r) PROVE PermitBook'
  BY <1>30 DEF RevokeTimeout
<1>31. CASE UNCHANGED vars
  BY <1>31 DEF vars
<1>32. ASSUME NEW s \in Subjects, NEW n \in Tenants, NEW e \in 1..MaxTime,
              IssueGrantFails(s, n, e)
       PROVE  PermitBook'
  BY <1>32 DEF IssueGrantFails, Purged, PermitsOf
<1> QED
  BY <1>1, <1>2, <1>3, <1>4, <1>5, <1>6, <1>7, <1>8, <1>9, <1>10, <1>11, <1>12,
      <1>13, <1>14, <1>15, <1>16, <1>17, <1>18, <1>19, <1>20, <1>21, <1>22,
      <1>23, <1>24, <1>25, <1>26, <1>27, <1>28, <1>29, <1>30, <1>31, <1>32 DEF Next,
      Serve, PermitClose, Watcher

\* IssueGrant binds only pairs of the policy, and nothing rebinds a grant.
LEMMA GrantBookStep ==
    TypeOK /\ GrantBook /\ [Next]_vars => GrantBook'
<1> SUFFICES ASSUME TypeOK /\ GrantBook, [Next]_vars PROVE GrantBook'
  OBVIOUS
<1> USE DEF TypeOK, GrantBook, grantVars, connVars, revVars
<1>1. CASE Tick
  BY <1>1 DEF Tick
<1>2. ASSUME NEW t \in Tokens, NEW s \in Subjects, NEW n \in Tenants,
             NEW e \in 1..MaxTime, IssueGrant(t, s, n, e)
      PROVE  GrantBook'
  BY <1>2 DEF IssueGrant, Purged, HasRoom, PermitsOf
<1>3. ASSUME NEW h \in Handlers, NEW t \in Tokens, NEW s \in Subjects,
             BeginConnect(h, t, s)
      PROVE  GrantBook'
  BY <1>3 DEF BeginConnect, Admissible
<1>4. ASSUME NEW h \in Handlers, RejectRequest(h) PROVE GrantBook'
  BY <1>4 DEF RejectRequest
<1>5. ASSUME NEW h \in Handlers, Expire(h) PROVE GrantBook'
  BY <1>5 DEF Expire
<1>6. ASSUME NEW h \in Handlers, ParentCancel(h) PROVE GrantBook'
  BY <1>6 DEF ParentCancel
<1>7. ASSUME NEW h \in Handlers, Serve(h) PROVE GrantBook'
  BY <1>7 DEF Serve, OpenBackend, OpenBackendFails, Hijack, HijackFails, Attach,
      AttachRefused, Respond, RespondFails, TunnelEnds, Goto
<1>8. ASSUME NEW h \in Handlers, NEW d \in Directions,
             CopyEnds(h, d)
      PROVE  GrantBook'
  BY <1>8 DEF CopyEnds
<1>9. ASSUME NEW h \in Handlers, PermitClose(h) PROVE GrantBook'
  BY <1>9 DEF PermitClose, CloseCancel, CloseMark, CloseFrontend, CloseBackend,
      Unregister, SignalDone, HandlerReturns, Goto, ClosedIfAttached
<1>10. ASSUME NEW h \in Handlers, Watcher(h) PROVE GrantBook'
  BY <1>10 DEF Watcher, WatcherMark, WatcherCloseFrontend, WatcherCloseBackend,
      ClosedIfAttached
<1>11. ASSUME NEW r \in Revokers, NEW t \in Tokens, NEW s \in Subjects,
              Revoke(r, t, s)
       PROVE  GrantBook'
  BY <1>11 DEF Revoke, PermitsOf
<1>12. ASSUME NEW r \in Revokers, NEW t \in Tokens, NEW s \in Subjects,
              RevokeUnauthorized(r, t, s)
       PROVE  GrantBook'
  BY <1>12 DEF RevokeUnauthorized
<1>13. ASSUME NEW r \in Revokers, RevokeAck(r) PROVE GrantBook'
  BY <1>13 DEF RevokeAck
<1>14. ASSUME NEW r \in Revokers, RevokeTimeout(r) PROVE GrantBook'
  BY <1>14 DEF RevokeTimeout
<1>15. CASE UNCHANGED vars
  BY <1>15 DEF vars
<1>16. ASSUME NEW s \in Subjects, NEW n \in Tenants, NEW e \in 1..MaxTime,
              IssueGrantFails(s, n, e)
       PROVE  GrantBook'
  BY <1>16 DEF IssueGrantFails, Purged, PermitsOf
<1> QED
  BY <1>1, <1>2, <1>3, <1>4, <1>5, <1>6, <1>7, <1>8, <1>9, <1>10, <1>11, <1>12,
      <1>13, <1>14, <1>15, <1>16 DEF Next

\* Revoke takes its snapshot of the permits and sets the flag in one critical
\* section, so no permit escapes it.
LEMMA RevokeBookStep ==
    TypeOK /\ PermitBook /\ RevokeBook /\ [Next]_vars => RevokeBook'
<1> SUFFICES ASSUME TypeOK /\ PermitBook /\ RevokeBook, [Next]_vars PROVE
    RevokeBook'
  OBVIOUS
<1> USE DEF TypeOK, PermitBook, RevokeBook, Admitted, Registered, AfterCancel,
    ServingSteps, ClosingSteps, HandlerSteps, grantVars, connVars, revVars
<1>1. CASE Tick
  BY <1>1 DEF Tick
<1>2. ASSUME NEW t \in Tokens, NEW s \in Subjects, NEW n \in Tenants,
             NEW e \in 1..MaxTime, IssueGrant(t, s, n, e)
      PROVE  RevokeBook'
  BY <1>2 DEF IssueGrant, Purged, HasRoom, PermitsOf
<1>3. ASSUME NEW h \in Handlers, NEW t \in Tokens, NEW s \in Subjects,
             BeginConnect(h, t, s)
      PROVE  RevokeBook'
  BY <1>3 DEF BeginConnect, Admissible
<1>4. ASSUME NEW h \in Handlers, RejectRequest(h) PROVE RevokeBook'
  BY <1>4 DEF RejectRequest
<1>5. ASSUME NEW h \in Handlers, Expire(h) PROVE RevokeBook'
  BY <1>5 DEF Expire
<1>6. ASSUME NEW h \in Handlers, ParentCancel(h) PROVE RevokeBook'
  BY <1>6 DEF ParentCancel
<1>7. ASSUME NEW h \in Handlers, Serve(h) PROVE RevokeBook'
  BY <1>7 DEF Serve, OpenBackend, OpenBackendFails, Hijack, HijackFails, Attach,
      AttachRefused, Respond, RespondFails, TunnelEnds, Goto
<1>8. ASSUME NEW h \in Handlers, NEW d \in Directions,
             CopyEnds(h, d)
      PROVE  RevokeBook'
  BY <1>8 DEF CopyEnds
<1>9. ASSUME NEW h \in Handlers, CloseCancel(h) PROVE RevokeBook'
  BY <1>9 DEF CloseCancel, Goto
<1>10. ASSUME NEW h \in Handlers, CloseMark(h) PROVE RevokeBook'
  BY <1>10 DEF CloseMark, Goto
<1>11. ASSUME NEW h \in Handlers, CloseFrontend(h) PROVE RevokeBook'
  BY <1>11 DEF CloseFrontend, Goto, ClosedIfAttached
<1>12. ASSUME NEW h \in Handlers, CloseBackend(h) PROVE RevokeBook'
  BY <1>12 DEF CloseBackend, Goto, ClosedIfAttached
<1>13. ASSUME NEW h \in Handlers, Unregister(h) PROVE RevokeBook'
  BY <1>13 DEF Unregister, Goto
<1>14. ASSUME NEW h \in Handlers, SignalDone(h) PROVE RevokeBook'
  BY <1>14 DEF SignalDone, Goto
<1>15. ASSUME NEW h \in Handlers, HandlerReturns(h) PROVE RevokeBook'
  BY <1>15 DEF HandlerReturns, Goto
<1>16. ASSUME NEW h \in Handlers, Watcher(h) PROVE RevokeBook'
  BY <1>16 DEF Watcher, WatcherMark, WatcherCloseFrontend, WatcherCloseBackend,
      ClosedIfAttached
<1>17. ASSUME NEW r \in Revokers, NEW t \in Tokens, NEW s \in Subjects,
              Revoke(r, t, s)
       PROVE  RevokeBook'
  BY <1>17 DEF Revoke, PermitsOf
<1>18. ASSUME NEW r \in Revokers, NEW t \in Tokens, NEW s \in Subjects,
              RevokeUnauthorized(r, t, s)
       PROVE  RevokeBook'
  BY <1>18 DEF RevokeUnauthorized
<1>19. ASSUME NEW r \in Revokers, RevokeAck(r) PROVE RevokeBook'
  BY <1>19 DEF RevokeAck
<1>20. ASSUME NEW r \in Revokers, RevokeTimeout(r) PROVE RevokeBook'
  BY <1>20 DEF RevokeTimeout
<1>21. CASE UNCHANGED vars
  BY <1>21 DEF vars
<1>22. ASSUME NEW s \in Subjects, NEW n \in Tenants, NEW e \in 1..MaxTime,
              IssueGrantFails(s, n, e)
       PROVE  RevokeBook'
  BY <1>22 DEF IssueGrantFails, Purged, PermitsOf
<1> QED
  BY <1>1, <1>2, <1>3, <1>4, <1>5, <1>6, <1>7, <1>8, <1>9, <1>10, <1>11, <1>12,
      <1>13, <1>14, <1>15, <1>16, <1>17, <1>18, <1>19, <1>20, <1>21, <1>22 DEF Next,
      PermitClose

\* Attach, the watcher and Permit.Close together lose no transport.
LEMMA TransportBookStep ==
    TypeOK /\ PermitBook /\ TransportBook /\ [Next]_vars => TransportBook'
<1> SUFFICES ASSUME TypeOK /\ PermitBook /\ TransportBook, [Next]_vars PROVE
    TransportBook'
  OBVIOUS
<1> USE DEF TypeOK, PermitBook, TransportBook, Admitted, Registered,
    AfterCancel, AfterMark, ServingSteps, ClosingSteps, HandlerSteps, grantVars,
    connVars, revVars
<1>1. CASE Tick
  BY <1>1 DEF Tick
<1>2. ASSUME NEW t \in Tokens, NEW s \in Subjects, NEW n \in Tenants,
             NEW e \in 1..MaxTime, IssueGrant(t, s, n, e)
      PROVE  TransportBook'
  BY <1>2 DEF IssueGrant, Purged, HasRoom, PermitsOf
<1>3. ASSUME NEW h \in Handlers, NEW t \in Tokens, NEW s \in Subjects,
             BeginConnect(h, t, s)
      PROVE  TransportBook'
  BY <1>3 DEF BeginConnect, Admissible
<1>4. ASSUME NEW h \in Handlers, RejectRequest(h) PROVE TransportBook'
  BY <1>4 DEF RejectRequest
<1>5. ASSUME NEW h \in Handlers, Expire(h) PROVE TransportBook'
  BY <1>5 DEF Expire
<1>6. ASSUME NEW h \in Handlers, ParentCancel(h) PROVE TransportBook'
  BY <1>6 DEF ParentCancel
<1>7. ASSUME NEW h \in Handlers, OpenBackend(h) PROVE TransportBook'
  BY <1>7 DEF OpenBackend, Goto
<1>8. ASSUME NEW h \in Handlers, OpenBackendFails(h) PROVE TransportBook'
  BY <1>8 DEF OpenBackendFails, Goto
<1>9. ASSUME NEW h \in Handlers, Hijack(h) PROVE TransportBook'
  BY <1>9 DEF Hijack, Goto
<1>10. ASSUME NEW h \in Handlers, HijackFails(h) PROVE TransportBook'
  BY <1>10 DEF HijackFails, Goto
<1>11. ASSUME NEW h \in Handlers, Attach(h) PROVE TransportBook'
  BY <1>11 DEF Attach, Goto
<1>12. ASSUME NEW h \in Handlers, AttachRefused(h) PROVE TransportBook'
  BY <1>12 DEF AttachRefused, Goto
<1>13. ASSUME NEW h \in Handlers, Respond(h) PROVE TransportBook'
  BY <1>13 DEF Respond, Goto
<1>14. ASSUME NEW h \in Handlers, RespondFails(h) PROVE TransportBook'
  BY <1>14 DEF RespondFails, Goto
<1>15. ASSUME NEW h \in Handlers, TunnelEnds(h) PROVE TransportBook'
  BY <1>15 DEF TunnelEnds, Goto
<1>16. ASSUME NEW h \in Handlers, NEW d \in Directions,
              CopyEnds(h, d)
       PROVE  TransportBook'
  BY <1>16 DEF CopyEnds
<1>17. ASSUME NEW h \in Handlers, CloseCancel(h) PROVE TransportBook'
  BY <1>17 DEF CloseCancel, Goto
<1>18. ASSUME NEW h \in Handlers, CloseMark(h) PROVE TransportBook'
  BY <1>18 DEF CloseMark, Goto
<1>19. ASSUME NEW h \in Handlers, CloseFrontend(h) PROVE TransportBook'
  BY <1>19 DEF CloseFrontend, Goto, ClosedIfAttached
<1>20. ASSUME NEW h \in Handlers, CloseBackend(h) PROVE TransportBook'
  BY <1>20 DEF CloseBackend, Goto, ClosedIfAttached
<1>21. ASSUME NEW h \in Handlers, Unregister(h) PROVE TransportBook'
  BY <1>21 DEF Unregister, Goto
<1>22. ASSUME NEW h \in Handlers, SignalDone(h) PROVE TransportBook'
  BY <1>22 DEF SignalDone, Goto
<1>23. ASSUME NEW h \in Handlers, HandlerReturns(h) PROVE TransportBook'
  BY <1>23 DEF HandlerReturns, Goto
<1>24. ASSUME NEW h \in Handlers, WatcherMark(h) PROVE TransportBook'
  BY <1>24 DEF WatcherMark
<1>25. ASSUME NEW h \in Handlers, WatcherCloseFrontend(h) PROVE TransportBook'
  BY <1>25 DEF WatcherCloseFrontend, ClosedIfAttached
<1>26. ASSUME NEW h \in Handlers, WatcherCloseBackend(h) PROVE TransportBook'
  BY <1>26 DEF WatcherCloseBackend, ClosedIfAttached
<1>27. ASSUME NEW r \in Revokers, NEW t \in Tokens, NEW s \in Subjects,
              Revoke(r, t, s)
       PROVE  TransportBook'
  BY <1>27 DEF Revoke, PermitsOf
<1>28. ASSUME NEW r \in Revokers, NEW t \in Tokens, NEW s \in Subjects,
              RevokeUnauthorized(r, t, s)
       PROVE  TransportBook'
  BY <1>28 DEF RevokeUnauthorized
<1>29. ASSUME NEW r \in Revokers, RevokeAck(r) PROVE TransportBook'
  BY <1>29 DEF RevokeAck
<1>30. ASSUME NEW r \in Revokers, RevokeTimeout(r) PROVE TransportBook'
  BY <1>30 DEF RevokeTimeout
<1>31. CASE UNCHANGED vars
  BY <1>31 DEF vars
<1>32. ASSUME NEW s \in Subjects, NEW n \in Tenants, NEW e \in 1..MaxTime,
              IssueGrantFails(s, n, e)
       PROVE  TransportBook'
  BY <1>32 DEF IssueGrantFails, Purged, PermitsOf
<1> QED
  BY <1>1, <1>2, <1>3, <1>4, <1>5, <1>6, <1>7, <1>8, <1>9, <1>10, <1>11, <1>12,
      <1>13, <1>14, <1>15, <1>16, <1>17, <1>18, <1>19, <1>20, <1>21, <1>22,
      <1>23, <1>24, <1>25, <1>26, <1>27, <1>28, <1>29, <1>30, <1>31, <1>32 DEF Next,
      Serve, PermitClose, Watcher

\* The used flag admits one handler, and purge spares a grant that is held.
LEMMA TableStep ==
    TypeOK /\ PermitBook /\ OneConnectionPerGrant /\ LivePermitIsRevocable /\
        [Next]_vars => (OneConnectionPerGrant /\ LivePermitIsRevocable)'
<1> SUFFICES ASSUME TypeOK /\ PermitBook /\ OneConnectionPerGrant /\
    LivePermitIsRevocable, [Next]_vars PROVE (OneConnectionPerGrant /\
    LivePermitIsRevocable)'
  OBVIOUS
<1> USE DEF TypeOK, PermitBook, OneConnectionPerGrant, LivePermitIsRevocable,
    Admitted, Registered, ServingSteps, ClosingSteps, HandlerSteps, grantVars,
    connVars, revVars
<1>1. CASE Tick
  BY <1>1 DEF Tick
<1>2. ASSUME NEW t \in Tokens, NEW s \in Subjects, NEW n \in Tenants,
             NEW e \in 1..MaxTime, IssueGrant(t, s, n, e)
      PROVE  (OneConnectionPerGrant /\ LivePermitIsRevocable)'
  BY <1>2 DEF IssueGrant, Purged, HasRoom, PermitsOf
<1>3. ASSUME NEW h \in Handlers, NEW t \in Tokens, NEW s \in Subjects,
             BeginConnect(h, t, s)
      PROVE  (OneConnectionPerGrant /\ LivePermitIsRevocable)'
  BY <1>3 DEF BeginConnect, Admissible
<1>4. ASSUME NEW h \in Handlers,
             RejectRequest(h)
      PROVE  (OneConnectionPerGrant /\ LivePermitIsRevocable)'
  BY <1>4 DEF RejectRequest
<1>5. ASSUME NEW h \in Handlers,
             Expire(h)
      PROVE  (OneConnectionPerGrant /\ LivePermitIsRevocable)'
  BY <1>5 DEF Expire
<1>6. ASSUME NEW h \in Handlers,
             ParentCancel(h)
      PROVE  (OneConnectionPerGrant /\ LivePermitIsRevocable)'
  BY <1>6 DEF ParentCancel
<1>7. ASSUME NEW h \in Handlers,
             Serve(h)
      PROVE  (OneConnectionPerGrant /\ LivePermitIsRevocable)'
  BY <1>7 DEF Serve, OpenBackend, OpenBackendFails, Hijack, HijackFails, Attach,
      AttachRefused, Respond, RespondFails, TunnelEnds, Goto
<1>8. ASSUME NEW h \in Handlers, NEW d \in Directions,
             CopyEnds(h, d)
      PROVE  (OneConnectionPerGrant /\ LivePermitIsRevocable)'
  BY <1>8 DEF CopyEnds
<1>9. ASSUME NEW h \in Handlers,
             PermitClose(h)
      PROVE  (OneConnectionPerGrant /\ LivePermitIsRevocable)'
  BY <1>9 DEF PermitClose, CloseCancel, CloseMark, CloseFrontend, CloseBackend,
      Unregister, SignalDone, HandlerReturns, Goto, ClosedIfAttached
<1>10. ASSUME NEW h \in Handlers,
              Watcher(h)
       PROVE  (OneConnectionPerGrant /\ LivePermitIsRevocable)'
  BY <1>10 DEF Watcher, WatcherMark, WatcherCloseFrontend, WatcherCloseBackend,
      ClosedIfAttached
<1>11. ASSUME NEW r \in Revokers, NEW t \in Tokens, NEW s \in Subjects,
              Revoke(r, t, s)
       PROVE  (OneConnectionPerGrant /\ LivePermitIsRevocable)'
  BY <1>11 DEF Revoke, PermitsOf
<1>12. ASSUME NEW r \in Revokers, NEW t \in Tokens, NEW s \in Subjects,
              RevokeUnauthorized(r, t, s)
       PROVE  (OneConnectionPerGrant /\ LivePermitIsRevocable)'
  BY <1>12 DEF RevokeUnauthorized
<1>13. ASSUME NEW r \in Revokers,
              RevokeAck(r)
       PROVE  (OneConnectionPerGrant /\ LivePermitIsRevocable)'
  BY <1>13 DEF RevokeAck
<1>14. ASSUME NEW r \in Revokers,
              RevokeTimeout(r)
       PROVE  (OneConnectionPerGrant /\ LivePermitIsRevocable)'
  BY <1>14 DEF RevokeTimeout
<1>15. CASE UNCHANGED vars
  BY <1>15 DEF vars
<1>16. ASSUME NEW s \in Subjects, NEW n \in Tenants, NEW e \in 1..MaxTime,
              IssueGrantFails(s, n, e)
       PROVE  (OneConnectionPerGrant /\ LivePermitIsRevocable)'
  BY <1>16 DEF IssueGrantFails, Purged, PermitsOf
<1> QED
  BY <1>1, <1>2, <1>3, <1>4, <1>5, <1>6, <1>7, <1>8, <1>9, <1>10, <1>11, <1>12,
      <1>13, <1>14, <1>15, <1>16 DEF Next

-----------------------------------------------------------------------------
(* The invariant and its consequences *)

\* A Gateway that New has just returned satisfies the invariant.
LEMMA IInvInit == Init => IInv
<1> SUFFICES ASSUME Init PROVE IInv
  OBVIOUS
<1>1. TypeOK
  <2>1. IsFiniteSet(table) /\ Cardinality(table) = 0
    BY FS_EmptySet DEF Init
  <2>2. (CHOOSE s \in Subjects : TRUE) \in Subjects /\ (CHOOSE t \in Tokens :
      TRUE) \in Tokens
    BY PolicyAssumption
  <2>3. (CHOOSE n \in Tenants : TRUE) \in Tenants
    BY PolicyAssumption
  <2> QED
    BY <2>1, <2>2, <2>3, BoundsAssumption DEF Init, TypeOK, HandlerSteps
<1>2. PermitBook /\ GrantBook /\ RevokeBook
  BY DEF Init, PermitBook, GrantBook, RevokeBook, Admitted, Registered,
      AfterCancel,
         ServingSteps, ClosingSteps
<1>3. TransportBook
  BY DEF Init, TransportBook, ClosingSteps, AfterMark
<1>4. OneConnectionPerGrant /\ LivePermitIsRevocable
  BY DEF Init, OneConnectionPerGrant, LivePermitIsRevocable, Admitted
<1> QED
  BY <1>1, <1>2, <1>3, <1>4 DEF IInv

\* The inductive invariant holds throughout every behaviour of the grant table.
THEOREM IInvHolds == Spec => []IInv
<1>1. IInv /\ [Next]_vars => IInv'
  BY TypeOKStep, PermitBookStep, GrantBookStep, RevokeBookStep,
      TransportBookStep,
     TableStep DEF IInv
<1> QED
  BY <1>1, IInvInit, PTL DEF Spec

\* Types are respected and the grant table never holds more than maxGrants
\* grants, however many handlers and revokers run.
THEOREM TypeCorrect == Spec => []TypeOK
<1>1. IInv => TypeOK
  BY DEF IInv
<1> QED
  BY <1>1, IInvHolds, PTL

\* A bearer token admits at most one CONNECT handler (BeginConnect's used flag
\* under Gateway.mu), for any number of handlers.
THEOREM GrantIsOneUse == Spec => []OneConnectionPerGrant
<1>1. IInv => OneConnectionPerGrant
  BY DEF IInv
<1> QED
  BY <1>1, IInvHolds, PTL

\* A permit is held only by a subject of the grant's own tenant.
THEOREM TenantsAreIsolated == Spec => []TenantIsolation
<1>1. IInv => TenantIsolation
  BY DEF IInv, TypeOK, PermitBook, GrantBook, TenantIsolation
<1> QED
  BY <1>1, IInvHolds, PTL

\* purge never drops a grant with a live permit.
THEOREM PermitsStayRevocable == Spec => []LivePermitIsRevocable
<1>1. IInv => LivePermitIsRevocable
  BY DEF IInv
<1> QED
  BY <1>1, IInvHolds, PTL

\* An acknowledged revocation is final: every connection of the token has been
\* cancelled and unregistered.
THEOREM RevocationIsFinal == Spec => []AckedRevokeIsFinal
<1>1. IInv => AckedRevokeIsFinal
  <2> SUFFICES ASSUME IInv, NEW r \in Revokers, NEW h \in Handlers,
                      rpc[r] = "acked", Admitted(h), tok[h] = rtok[r]
               PROVE  h \notin permits /\ h \in cancelled
    BY DEF AckedRevokeIsFinal
  <2>1. h \in cancelled /\ (h \in permits => h \in rwait[r]) /\ rwait[r]
      \subseteq done
    BY DEF IInv, RevokeBook
  <2>2. h \in done => h \notin permits
    BY DEF IInv, PermitBook
  <2> QED
    BY <2>1, <2>2
<1> QED
  BY <1>1, IInvHolds, PTL

\* No transport outlives its handler and its watcher.
THEOREM TransportsAreReleased == Spec => []NoTransportLeak
<1>1. IInv => NoTransportLeak
  BY DEF IInv, TransportBook, NoTransportLeak, AfterMark
<1> QED
  BY <1>1, IInvHolds, PTL

-----------------------------------------------------------------------------
(* Refinement of TerminalLease *)

\* A step that leaves alone everything PhaseOf and the acknowledgements read
\* is a stuttering step of the lease.
LEMMA LeaseStutters ==
    ASSUME UNCHANGED <<issued, used, permits, tok, revoked, rtok>>,
           \A r \in Revokers : rpc'[r] = "acked" <=> rpc[r] = "acked"
    PROVE  UNCHANGED Lease!leaseVars
<1>1. \A t \in Tokens : PhaseOf(t)' = PhaseOf(t)
  BY DEF PhaseOf, PermitsOf
<1>2. {rtok[r] : r \in {r \in Revokers : rpc[r] = "acked"}}'
        = {rtok[r] : r \in {r \in Revokers : rpc[r] = "acked"}}
  OBVIOUS
<1> QED
  BY <1>1, <1>2 DEF Lease!leaseVars

\* Initial states of the grant table are initial states of the lease.
LEMMA LeaseInit == Init => Lease!Init
  BY DEF Init, Lease!Init, PhaseOf

\* Every step of the grant table is a step of the lease or leaves it unchanged.
LEMMA LeaseStep == IInv /\ [Next]_vars => [Lease!Next]_(Lease!leaseVars)
<1> SUFFICES ASSUME IInv, [Next]_vars PROVE Lease!Next \/ UNCHANGED
    Lease!leaseVars
  OBVIOUS
<1> USE DEF grantVars, connVars, revVars
<1>1. ASSUME NEW t \in Tokens, NEW s \in Subjects, NEW n \in Tenants,
             NEW e \in 1..MaxTime, IssueGrant(t, s, n, e)
      PROVE  Lease!Next
  <2>1. PhaseOf(t) = "unissued" /\ PhaseOf(t)' = "issued"
    BY <1>1 DEF IssueGrant, PhaseOf, IInv, TypeOK
  <2>2. \A u \in Tokens : u # t => PhaseOf(u)' = PhaseOf(u)
    BY <1>1 DEF IssueGrant, PhaseOf, PermitsOf
  <2>3. Lease!Issue(t)
    BY <1>1, <2>1, <2>2 DEF IssueGrant, Lease!Issue, Lease!Move
  <2> QED
    BY <2>3 DEF Lease!Next
<1>2. ASSUME NEW h \in Handlers, NEW t \in Tokens, NEW s \in Subjects,
    BeginConnect(h, t, s)
      PROVE  Lease!Next
  <2>1. h \notin permits
    BY <1>2 DEF BeginConnect, IInv, PermitBook, Registered, ServingSteps,
        ClosingSteps
  <2>2. PhaseOf(t) = "issued" /\ PhaseOf(t)' = "held"
    BY <1>2 DEF BeginConnect, Admissible, PhaseOf, PermitsOf, IInv, TypeOK
  <2>3. \A u \in Tokens : u # t => PermitsOf(u)' = PermitsOf(u)
    BY <1>2, <2>1 DEF BeginConnect, PermitsOf, IInv, TypeOK
  <2>4. \A u \in Tokens : u # t => PhaseOf(u)' = PhaseOf(u)
    BY <1>2, <2>3 DEF BeginConnect, PhaseOf
  <2>5. Lease!Take(t)
    BY <1>2, <2>2, <2>4 DEF BeginConnect, Admissible, Lease!Take, Lease!Move
  <2> QED
    BY <2>5 DEF Lease!Next
<1>3. ASSUME NEW h \in Handlers, Unregister(h)
      PROVE  Lease!Next
  <2>1. h \in permits /\ Admitted(h) /\ tok[h] \in Tokens /\ tok[h] \in issued
      /\ tok[h] \in used
    BY <1>3 DEF Unregister, IInv, TypeOK, PermitBook, Registered, ServingSteps,
        ClosingSteps
  <2>2. PermitsOf(tok[h]) = {h}
    <3>1. \A g \in permits : g \in Handlers /\ Admitted(g)
      BY DEF IInv, TypeOK, PermitBook, Registered, ServingSteps, ClosingSteps
    <3> QED
      BY <2>1, <3>1 DEF PermitsOf, IInv, OneConnectionPerGrant
  <2>3. PhaseOf(tok[h]) = "held" /\ PhaseOf(tok[h])' = "spent"
    BY <1>3, <2>1, <2>2 DEF Unregister, PhaseOf, PermitsOf
  <2>4. \A u \in Tokens : u # tok[h] => PhaseOf(u)' = PhaseOf(u)
    BY <1>3 DEF Unregister, PhaseOf, PermitsOf
  <2>5. Lease!Release(tok[h])
    BY <1>3, <2>1, <2>3, <2>4 DEF Unregister, Lease!Release, Lease!Move
  <2> QED
    BY <2>5, <2>1 DEF Lease!Next
<1>4. ASSUME NEW r \in Revokers, NEW t \in Tokens, NEW s \in Subjects, Revoke(r,
    t, s)
      PROVE  Lease!Next
  <2>1. PhaseOf(t) # "unissued"
    BY <1>4 DEF Revoke, PhaseOf, IInv, TypeOK
  <2>2. \A u \in Tokens : PhaseOf(u)' = PhaseOf(u)
    BY <1>4 DEF Revoke, PhaseOf, PermitsOf
  <2>3. \A q \in Revokers : (rpc'[q] = "acked" <=> rpc[q] = "acked")
                            /\ (rpc[q] = "acked" => rtok'[q] = rtok[q])
    BY <1>4 DEF Revoke, IInv, TypeOK
  <2>4. Lease!Void(t)
    BY <1>4, <2>1, <2>2, <2>3 DEF Revoke, Lease!Void
  <2> QED
    BY <2>4 DEF Lease!Next
<1>5. ASSUME NEW r \in Revokers, NEW t \in Tokens, t = rtok[r], RevokeAck(r)
      PROVE  Lease!Next
  <2>1. t \in revoked
    BY <1>5 DEF RevokeAck, IInv, TypeOK, RevokeBook
  <2>2. PermitsOf(t) = {}
    <3>1. \A g \in permits : g \in Handlers /\ Admitted(g) /\ g \notin done
      BY DEF IInv, TypeOK, PermitBook, Registered, ServingSteps, ClosingSteps
    <3> QED
      BY <1>5, <3>1 DEF RevokeAck, PermitsOf, IInv, RevokeBook
  <2>3. PhaseOf(t) # "held"
    BY <2>2 DEF PhaseOf
  <2>4. \A u \in Tokens : PhaseOf(u)' = PhaseOf(u)
    BY <1>5 DEF RevokeAck, PhaseOf, PermitsOf
  <2>5. \A q \in Revokers : rpc'[q] = "acked" <=> (rpc[q] = "acked" \/ q = r)
    BY <1>5 DEF RevokeAck, IInv, TypeOK
  <2>6. Lease!Acknowledge(t)
    <3>1. {rtok[q] : q \in {q \in Revokers : rpc[q] = "acked"}}'
            = {rtok[q] : q \in {q \in Revokers : rpc[q] = "acked"}} \cup {t}
      BY <1>5, <2>5 DEF RevokeAck
    <3> QED
      BY <1>5, <2>1, <2>3, <2>4, <3>1 DEF RevokeAck, Lease!Acknowledge
  <2> QED
    BY <2>6 DEF Lease!Next
<1>6. ASSUME NEW r \in Revokers, RevokeTimeout(r)
      PROVE  UNCHANGED Lease!leaseVars
  <2>1. \A q \in Revokers : rpc'[q] = "acked" <=> rpc[q] = "acked"
    BY <1>6 DEF RevokeTimeout, IInv, TypeOK
  <2> QED
    BY <1>6, <2>1, LeaseStutters DEF RevokeTimeout
<1>7. ASSUME NEW r \in Revokers, NEW t \in Tokens, NEW s \in Subjects,
             RevokeUnauthorized(r, t, s)
      PROVE  UNCHANGED Lease!leaseVars
  <2>1. \A q \in Revokers : rpc'[q] = "acked" <=> rpc[q] = "acked"
    BY <1>7 DEF RevokeUnauthorized, IInv, TypeOK
  <2> QED
    BY <1>7, <2>1, LeaseStutters DEF RevokeUnauthorized
<1>8. CASE Tick \/ UNCHANGED vars
  BY <1>8, LeaseStutters DEF Tick, vars
<1>9. ASSUME NEW h \in Handlers, RejectRequest(h) \/ Expire(h) \/
    ParentCancel(h)
      PROVE  UNCHANGED Lease!leaseVars
  BY <1>9, LeaseStutters DEF RejectRequest, Expire, ParentCancel
<1>10. ASSUME NEW h \in Handlers, Serve(h)
       PROVE  UNCHANGED Lease!leaseVars
  BY <1>10, LeaseStutters DEF Serve, OpenBackend, OpenBackendFails, Hijack,
      HijackFails,
     Attach, AttachRefused, Respond, RespondFails, TunnelEnds
<1>11. ASSUME NEW h \in Handlers, NEW d \in Directions, CopyEnds(h, d)
       PROVE  UNCHANGED Lease!leaseVars
  BY <1>11, LeaseStutters DEF CopyEnds
<1>12. ASSUME NEW h \in Handlers,
              CloseCancel(h) \/ CloseMark(h) \/ CloseFrontend(h) \/
                  CloseBackend(h)
                \/ SignalDone(h) \/ HandlerReturns(h)
       PROVE  UNCHANGED Lease!leaseVars
  BY <1>12, LeaseStutters DEF CloseCancel, CloseMark, CloseFrontend,
      CloseBackend,
     SignalDone, HandlerReturns
<1>13. ASSUME NEW h \in Handlers, Watcher(h)
       PROVE  UNCHANGED Lease!leaseVars
  BY <1>13, LeaseStutters DEF Watcher, WatcherMark, WatcherCloseFrontend,
      WatcherCloseBackend
<1>14. \A r \in Revokers : rtok[r] \in Tokens
  BY DEF IInv, TypeOK
<1>15. ASSUME NEW s \in Subjects, NEW n \in Tenants, NEW e \in 1..MaxTime,
              IssueGrantFails(s, n, e)
       PROVE  UNCHANGED Lease!leaseVars
  BY <1>15, LeaseStutters DEF IssueGrantFails
<1> QED
  BY <1>1, <1>2, <1>3, <1>4, <1>5, <1>6, <1>7, <1>8, <1>9, <1>10, <1>11, <1>12,
      <1>13, <1>14, <1>15
  DEF Next, PermitClose

\* The grant table, with all its goroutines, implements the one-use lease that
\* can be voided.
THEOREM GrantsImplementLease == Spec => ImplementsLease
  BY LeaseInit, LeaseStep, IInvHolds, PTL DEF Spec, ImplementsLease, Lease!Spec

=============================================================================
