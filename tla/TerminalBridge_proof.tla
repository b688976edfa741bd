------------------------ MODULE TerminalBridge_proof ------------------------
(***************************************************************************)
(* Proofs about TerminalBridge for any number of requests and references.    *)
(***************************************************************************)
EXTENDS TerminalBridge, TLAPS

Holding == {"reading", "opened", "over"}

\* What travels: the one reference that was sent is the holder's.
WireInv ==
    /\ ~used => sent = None
    /\ \A r \in Requests : rpc[r] \in Holding => used /\ sent = rref[r]
    /\ \A r, q \in Requests : rpc[r] \in Holding /\ rpc[q] \in Holding => r = q
    /\ \A r \in Requests : rpc[r] \in {"opened", "over"} => status = "taken"

\* What serve knows at each of its steps.
ServeInv ==
    /\ spc \in {"lookup", "open", "dial", "status", "copy", "drain"} => sent # None
    /\ spc \in {"dial", "status", "copy", "drain"} => sent = Own
    /\ spc \in {"header", "lookup", "open", "dial"} => backend = None
    /\ spc \in {"status", "copy"} => backend = "open"
    /\ spc \in {"drain", "end", "done"} => backend # "open"
    /\ spc \in {"header", "lookup", "open", "dial", "status"} => status = None

\* A status byte stands for a stream to the authority's own reference.
StatusInv ==
    /\ backend # None => used /\ dialled = Own /\ sent = Own
    /\ status \in {"yes", "taken"} => backend # None

IInv == TypeOK /\ WireInv /\ ServeInv /\ StatusInv

\* The initial state satisfies the inductive invariant.
LEMMA InitIInv == Init => IInv
  BY ReferenceAssumption DEF None, Init, IInv, TypeOK, WireInv, ServeInv, StatusInv, Holding

\* The steps of the Gateway's resolver keep the inductive invariant.
LEMMA ResolverStep ==
  ASSUME IInv, NEW r \in Requests, Resolving(r)
  PROVE  IInv'
<1> USE DEF None, IInv, TypeOK, WireInv, ServeInv, StatusInv, resolverVars, serveVars, copyVars, ownerVars
<1>1. CASE OpenRefused(r)
  BY <1>1 DEF OpenRefused, Holding
<1>2. CASE \E ref \in References : Open(r, ref)
  <2>1. PICK ref \in References : Open(r, ref)
    BY <1>2
  <2>2. TypeOK'
    <3>1. rpc' \in [Requests -> {"idle", "reading", "opened", "refused", "over"}] /\ rref' \in [Requests -> References \cup {None}]
      BY <2>1 DEF Open
    <3>2. sent' \in References \cup {None} /\ rfile' \in BOOLEAN /\ used' \in BOOLEAN
      BY <2>1, Zenon DEF Open
    <3>3. /\ rctx' = rctx /\ status' = status /\ spc' = spc /\ sctx' = sctx
          /\ sfile' = sfile /\ opener' = opener /\ closing' = closing
          /\ closed' = closed /\ up' = up /\ down' = down /\ backend' = backend
          /\ dialled' = dialled /\ aclosed' = aclosed /\ aexpired' = aexpired
          /\ unread' = unread
      BY <2>1 DEF Open
    <3> QED
      BY <3>1, <3>2, <3>3
  <2>3. \A q \in Requests : rpc[q] \notin Holding
    BY <2>1 DEF Open
  <2>4. spc \in {"header", "end", "done"} /\ backend = None /\ sent = None
    BY <2>1 DEF Open
  <2>5. WireInv'
    BY <2>1, <2>3, <2>4 DEF Open, Holding
  <2>6. ServeInv' /\ StatusInv'
    BY <2>1, <2>4 DEF Open
  <2> QED
    BY <2>2, <2>5, <2>6
<1>3. CASE ReadStatus(r)
  <2>1. TypeOK'
    <3>1. rpc' \in [Requests -> {"idle", "reading", "opened", "refused", "over"}]
      BY <1>3 DEF ReadStatus
    <3>2. status' \in {None, "yes", "no", "taken"} /\ rfile' \in BOOLEAN
      BY <1>3, Zenon DEF ReadStatus
    <3>3. /\ used' = used /\ rref' = rref /\ rctx' = rctx /\ sent' = sent
          /\ spc' = spc /\ sctx' = sctx /\ sfile' = sfile /\ opener' = opener
          /\ closing' = closing /\ closed' = closed /\ up' = up /\ down' = down
          /\ backend' = backend /\ dialled' = dialled /\ aclosed' = aclosed
          /\ aexpired' = aexpired /\ unread' = unread
      BY <1>3 DEF ReadStatus
    <3> QED
      BY <3>1, <3>2, <3>3
  <2>4. ServeInv' /\ StatusInv'
    BY <1>3 DEF ReadStatus
  <2>2. \A q \in Requests : q # r => rpc[q] \notin Holding
    BY <1>3 DEF ReadStatus, Holding
  <2>3. WireInv'
    BY <1>3, <2>2 DEF ReadStatus, Holding
  <2> QED
    BY <2>1, <2>3, <2>4
<1>4. CASE RequestEnds(r)
  BY <1>4 DEF RequestEnds, Holding
<1>5. CASE TunnelCloses(r)
  <2>1. TypeOK'
    <3>1. rpc' \in [Requests -> {"idle", "reading", "opened", "refused", "over"}]
      BY <1>5 DEF TunnelCloses
    <3>2. rfile' \in BOOLEAN
      BY <1>5, Zenon DEF TunnelCloses
    <3>3. /\ used' = used /\ rref' = rref /\ rctx' = rctx /\ sent' = sent
          /\ status' = status /\ spc' = spc /\ sctx' = sctx /\ sfile' = sfile
          /\ opener' = opener /\ closing' = closing /\ closed' = closed /\ up' = up
          /\ down' = down /\ backend' = backend /\ dialled' = dialled
          /\ aclosed' = aclosed /\ aexpired' = aexpired /\ unread' = unread
      BY <1>5 DEF TunnelCloses
    <3> QED
      BY <3>1, <3>2, <3>3
  <2>2. WireInv'
    BY <1>5 DEF TunnelCloses, Holding
  <2>3. ServeInv' /\ StatusInv'
    BY <1>5 DEF TunnelCloses, Holding
  <2> QED
    BY <2>1, <2>2, <2>3
<1>6. CASE TunnelSends(r)
  <2>1. UNCHANGED <<used, rfile, rpc, rref, rctx, sent, status, spc, sctx, sfile, opener, closing,
                    closed, up, down, backend, dialled, aclosed, aexpired>>
    BY <1>6 DEF TunnelSends
  <2>2. unread' \in BOOLEAN
    BY <1>6, Zenon DEF TunnelSends
  <2>3. TypeOK'
    BY <2>1, <2>2
  <2>4. WireInv' /\ ServeInv' /\ StatusInv'
    BY <2>1
  <2> QED
    BY <2>3, <2>4
<1> QED
  BY <1>1, <1>2, <1>3, <1>4, <1>5, <1>6 DEF Resolving

\* The steps of serve and of its copies keep the inductive invariant.
LEMMA ServeStep ==
  ASSUME IInv, Serving \/ Dial \/ Copying
  PROVE  IInv'
<1> USE DEF None, IInv, TypeOK, WireInv, ServeInv, StatusInv, Holding, resolverVars, serveVars, copyVars, ownerVars
<1>1. CASE ReadReference
  <2>1. TypeOK'
    BY <1>1 DEF ReadReference
  <2>2. WireInv'
    BY <1>1 DEF ReadReference
  <2>3. ServeInv' /\ StatusInv'
    BY <1>1 DEF ReadReference
  <2> QED
    BY <2>1, <2>2, <2>3
<1>2. CASE Lookup
  <2>1. TypeOK'
    BY <1>2 DEF Lookup, Refuse
  <2>2. WireInv'
    BY <1>2 DEF Lookup, Refuse
  <2>3. ServeInv' /\ StatusInv'
    BY <1>2 DEF Lookup, Refuse
  <2> QED
    BY <2>1, <2>2, <2>3
<1>3. CASE AuthorityOpen
  <2>1. TypeOK'
    BY <1>3 DEF AuthorityOpen, AuthorityAccepts, Refuse
  <2>2. WireInv'
    BY <1>3 DEF AuthorityOpen, AuthorityAccepts, Refuse
  <2>3. ServeInv' /\ StatusInv'
    BY <1>3 DEF AuthorityOpen, AuthorityAccepts, Refuse
  <2> QED
    BY <2>1, <2>2, <2>3
<1>4. CASE Dial
  <2>1. TypeOK'
    BY <1>4 DEF Dial, Refuse
  <2>2. WireInv'
    BY <1>4 DEF Dial, Refuse
  <2>3. ServeInv' /\ StatusInv'
    BY <1>4 DEF Dial, Refuse
  <2> QED
    BY <2>1, <2>2, <2>3
<1>5. CASE SendStatus
  <2>1. TypeOK'
    BY <1>5 DEF SendStatus
  <2>2. WireInv'
    BY <1>5 DEF SendStatus
  <2>3. ServeInv' /\ StatusInv'
    BY <1>5 DEF SendStatus
  <2> QED
    BY <2>1, <2>2, <2>3
<1>6. CASE CopyFinishes
  <2>1. TypeOK'
    <3>1. /\ spc' = "drain" /\ backend' = "closed"
          /\ UNCHANGED <<used, rfile, rpc, rref, rctx, sent, status, sctx, opener, closing, closed,
                         up, down, dialled, aclosed, aexpired, unread>>
      BY <1>6 DEF CopyFinishes
    <3>2. sfile' \in BOOLEAN
      BY <1>6, Zenon DEF CopyFinishes
    <3> QED
      BY <3>1, <3>2
  <2>2. WireInv'
    BY <1>6 DEF CopyFinishes
  <2>3. ServeInv' /\ StatusInv'
    BY <1>6 DEF CopyFinishes
  <2> QED
    BY <2>1, <2>2, <2>3
<1>7. CASE Drain
  BY <1>7 DEF Drain
<1>8. CASE ServeReturns
  BY <1>8 DEF ServeReturns
<1>9. CASE Copying
  <2>1. UNCHANGED <<used, rfile, rpc, rref, rctx, sent, status, spc, sctx, sfile, opener, closing,
                    closed, backend, dialled, aclosed, aexpired>>
    BY <1>9 DEF Copying, UpReads, UpWrites, UpEnds, DownReads, DownWrites, DownEnds, StreamEnds
  <2>2. up' \in {"off", "reading", "writing"} /\ down' \in {"off", "reading", "writing"}
    BY <1>9 DEF Copying, UpReads, UpWrites, UpEnds, DownReads, DownWrites, DownEnds, StreamEnds
  <2>3. unread' \in BOOLEAN
    BY <1>9, Zenon DEF Copying, UpReads, UpWrites, UpEnds, DownReads, DownWrites, DownEnds, StreamEnds
  <2>4. TypeOK'
    BY <2>1, <2>2, <2>3
  <2>5. WireInv' /\ ServeInv' /\ StatusInv'
    BY <2>1
  <2> QED
    BY <2>4, <2>5
<1> QED
  BY <1>1, <1>2, <1>3, <1>4, <1>5, <1>6, <1>7, <1>8, <1>9 DEF Serving

\* The other steps, of the owners and of the Gateway's exit, touch neither the
\* wire nor serve's progress.
LEMMA OwnerStep ==
  ASSUME IInv, Owning \/ GatewayLeaves
  PROVE  IInv'
<1> USE DEF resolverVars, serveVars, copyVars, ownerVars, Owning, GatewayLeaves, SetOpener, PhaseEnds, ContextClosesSocket, Close, AuthorityClose, AuthorityExpires
<1>1. /\ sfile' \in BOOLEAN /\ rfile' \in BOOLEAN /\ opener' \in BOOLEAN /\ closing' \in BOOLEAN
      /\ aclosed' \in BOOLEAN /\ aexpired' \in BOOLEAN /\ sctx' \in {"live", "done"}
  BY Zenon DEF IInv, TypeOK
<1>2. UNCHANGED <<used, rpc, rref, rctx, sent, status, spc, closed, up, down, backend, dialled, unread>>
  OBVIOUS
<1>3. TypeOK'
  BY <1>1, <1>2 DEF IInv, TypeOK
<1>4. WireInv' /\ ServeInv' /\ StatusInv'
  BY <1>2 DEF IInv, WireInv, ServeInv, StatusInv
<1> QED
  BY <1>3, <1>4 DEF IInv

\* IInv holds in every reachable state.
THEOREM IInvHolds == Spec => []IInv
<1>1. IInv /\ [Next]_vars => IInv'
  <2> SUFFICES ASSUME IInv, [Next]_vars PROVE IInv'
    OBVIOUS
  <2>1. CASE Next
    BY <2>1, ResolverStep, ServeStep, OwnerStep DEF Next
  <2>2. CASE UNCHANGED vars
    BY <2>2 DEF vars, IInv, TypeOK, WireInv, ServeInv, StatusInv, Holding, resolverVars, serveVars, copyVars, ownerVars
  <2> QED
    BY <2>1, <2>2
<1> QED
  BY <1>1, InitIInv, PTL DEF Spec

\* Whatever fails, and whenever the bridge is closed, serve never returns with
\* the Provider's stream open.
THEOREM BackendReleased == Spec => []BackendIsReleased
<1>1. IInv => BackendIsReleased
  BY DEF IInv, ServeInv, BackendIsReleased
<1> QED
  BY <1>1, IInvHolds, PTL

\* However many requests race for the bridge, one gets it, and it is connected
\* to the session of the authority whose reference it carried.
THEOREM TunnelBacked == Spec => []TunnelIsBacked
<1>1. IInv => TunnelIsBacked
  BY DEF None, IInv, WireInv, StatusInv, TypeOK, Holding, TunnelIsBacked
<1> QED
  BY <1>1, IInvHolds, PTL

=============================================================================
