--------------------------- MODULE TerminalBridge ---------------------------
(***************************************************************************)
(* The one-shot backend socket between the Gateway process and the external  *)
(* caller: gatewaybridge.Resolver in the Gateway, gatewaybridge.Server in the *)
(* caller (internal/gatewaybridge/bridge.go), and the callerterminal.Authority *)
(* whose opener, bound in callerprovider/exec_terminal.go, dials the          *)
(* Provider's WebSocket.                                                     *)
(*                                                                         *)
(* Actors: the HTTP handlers that call Resolver.Open, the goroutine of        *)
(* Server.serve and its two copies, and the owners that set, close and cancel. *)
(* A copy reads from one end and writes to the other; a write the other side   *)
(* does not take blocks it, whatever happens at the end it reads from.        *)
(***************************************************************************)
EXTENDS Naturals

CONSTANTS
    Requests,   \* calls of Resolver.Open
    References, \* handoff references a grant may carry
    Own         \* the HandoffReference of the authority

ASSUME ReferenceAssumption == Own \in References

VARIABLES
    used, rfile,         \* Resolver: used, and its end of the socket
    rpc, rref, rctx,     \* each Open: progress, reference, request context
    sent, status,        \* bytes on the socket: the reference, the status byte
    unread,              \* tunnel bytes of the Gateway the caller has not read
    spc, sctx, sfile,    \* Server.serve, its context, its end of the socket
    opener, closing, closed, \* Server: opener set, Close called, closed
    up, down, backend,   \* the copies, the Provider stream
    dialled,             \* the reference the stream was dialled for
    aclosed, aexpired    \* Authority

resolverVars == <<used, rpc, rref, rctx>>
serveVars    == <<spc, closed>>
copyVars     == <<up, down>>
ownerVars    == <<sctx, opener, closing, aclosed, aexpired>>
vars == <<resolverVars, rfile, sent, status, serveVars, sfile, copyVars, backend, dialled, ownerVars, unread>>

None == "none"

\* Every variable has its type.
TypeOK ==
    /\ used \in BOOLEAN /\ rfile \in BOOLEAN /\ sfile \in BOOLEAN /\ opener \in BOOLEAN
    /\ closing \in BOOLEAN /\ closed \in BOOLEAN /\ unread \in BOOLEAN
    /\ up \in {"off", "reading", "writing"} /\ down \in {"off", "reading", "writing"}
    /\ aclosed \in BOOLEAN /\ aexpired \in BOOLEAN
    /\ rpc \in [Requests -> {"idle", "reading", "opened", "refused", "over"}]
    /\ rref \in [Requests -> References \cup {None}]
    /\ rctx \in [Requests -> {"live", "done"}] /\ sctx \in {"live", "done"}
    /\ sent \in References \cup {None} /\ dialled \in References \cup {None}
    /\ status \in {None, "yes", "no", "taken"}
    /\ spc \in {"header", "lookup", "open", "dial", "status", "copy", "drain", "end", "done"}
    /\ backend \in {None, "open", "closed"}

Init ==
    /\ used = FALSE /\ rfile = TRUE
    /\ rpc = [r \in Requests |-> "idle"] /\ rref = [r \in Requests |-> None]
    /\ rctx = [r \in Requests |-> "live"]
    /\ sent = None /\ status = None /\ unread = FALSE
    /\ spc = "header" /\ sctx = "live" /\ sfile = TRUE
    /\ opener = FALSE /\ closing = FALSE /\ closed = FALSE
    /\ up = "off" /\ down = "off" /\ backend = None /\ dialled = None
    /\ aclosed = FALSE /\ aexpired = FALSE

-----------------------------------------------------------------------------
(* Resolver, in the Gateway *)

\* Open holds the mutex for its whole run: nobody else is reading.
Free == \A q \in Requests : rpc[q] # "reading"

\* The request's context has ended, or the bridge has been used.
OpenRefused(r) ==
    /\ rpc[r] = "idle" /\ Free
    /\ used \/ rctx[r] = "done"
    /\ rpc' = [rpc EXCEPT ![r] = "refused"]
    /\ UNCHANGED <<used, rref, rctx, rfile, sent, status, serveVars, sfile, copyVars, backend, dialled, ownerVars, unread>>

\* Open sends the reference, or fails on a closed socket.
Open(r, ref) ==
    /\ rpc[r] = "idle" /\ Free /\ ~used /\ rctx[r] = "live"
    /\ used' = TRUE
    /\ rref' = [rref EXCEPT ![r] = ref]
    /\ \/ /\ rfile /\ sfile
          /\ sent' = ref /\ rpc' = [rpc EXCEPT ![r] = "reading"]
          /\ UNCHANGED rfile
       \/ /\ ~rfile \/ ~sfile
          /\ rfile' = FALSE /\ rpc' = [rpc EXCEPT ![r] = "refused"]
          /\ UNCHANGED sent
    /\ UNCHANGED <<rctx, status, serveVars, sfile, copyVars, backend, dialled, ownerVars, unread>>

\* The status byte hands the socket over; anything else closes it.
ReadStatus(r) ==
    /\ rpc[r] = "reading"
    /\ \/ /\ rfile /\ status = "yes"
          /\ rpc' = [rpc EXCEPT ![r] = "opened"] /\ status' = "taken"
          /\ UNCHANGED rfile
       \/ /\ ~rfile \/ status = "no" \/ (~sfile /\ status = None)
          /\ rpc' = [rpc EXCEPT ![r] = "refused"] /\ rfile' = FALSE
          /\ UNCHANGED status
    /\ UNCHANGED <<used, rref, rctx, sent, serveVars, sfile, copyVars, backend, dialled, ownerVars, unread>>

\* The request's context ends; while Open runs that closes the socket.
RequestEnds(r) ==
    /\ rctx[r] = "live" /\ rpc[r] \in {"idle", "reading"}
    /\ rctx' = [rctx EXCEPT ![r] = "done"]
    /\ rfile' = (rfile /\ rpc[r] # "reading")
    /\ UNCHANGED <<used, rpc, rref, sent, status, serveVars, sfile, copyVars, backend, dialled, ownerVars, unread>>

\* proxyTunnel writes what its frontend sent.
TunnelSends(r) ==
    /\ rpc[r] = "opened" /\ rfile /\ sfile /\ ~unread
    /\ unread' = TRUE
    /\ UNCHANGED <<resolverVars, rfile, sent, status, serveVars, sfile, copyVars, backend, dialled, ownerVars>>

\* The permit that owns an opened tunnel closes it.
TunnelCloses(r) ==
    /\ rpc[r] = "opened"
    /\ rpc' = [rpc EXCEPT ![r] = "over"]
    /\ rfile' = FALSE
    /\ UNCHANGED <<used, rref, rctx, sent, status, serveVars, sfile, copyVars, backend, dialled, ownerVars, unread>>

\* Resolver.Close when gatewayservice.Serve returns, or the Gateway's death.
GatewayLeaves ==
    /\ rfile
    /\ rfile' = FALSE
    /\ UNCHANGED <<resolverVars, sent, status, serveVars, sfile, copyVars, backend, dialled, ownerVars, unread>>

-----------------------------------------------------------------------------
(* Server.serve, in the caller *)

\* The reference arrives, or the socket ends before it.
ReadReference ==
    /\ spc = "header"
    /\ \/ sfile /\ sent # None /\ spc' = "lookup"
       \/ (~sfile \/ (~rfile /\ sent = None)) /\ spc' = "end"
    /\ UNCHANGED <<resolverVars, rfile, sent, status, closed, sfile, copyVars, backend, dialled, ownerVars, unread>>

\* A refusal is one byte, lost when the socket is closed.
Refuse == spc' = "end" /\ status' = IF sfile /\ rfile THEN "no" ELSE status

\* The opener is read under the mutex.
Lookup ==
    /\ spc = "lookup"
    /\ \/ opener /\ spc' = "open" /\ UNCHANGED status
       \/ ~opener /\ Refuse
    /\ UNCHANGED <<resolverVars, rfile, sent, closed, sfile, copyVars, backend, dialled, ownerVars, unread>>

AuthorityAccepts == sctx = "live" /\ sent = Own /\ ~aexpired /\ ~aclosed

\* Mutant: the Gateway is told before the Provider has been dialled.
AuthorityOpenEarly ==
    /\ spc = "open"
    /\ \/ AuthorityAccepts /\ spc' = "dial" /\ status' = IF sfile /\ rfile THEN "yes" ELSE status
       \/ ~AuthorityAccepts /\ Refuse
    /\ UNCHANGED <<resolverVars, rfile, sent, closed, sfile, copyVars, backend, dialled, ownerVars, unread>>

\* Authority.Open: the checks, and the opener read under the mutex, to be
\* called after it is released.
AuthorityOpen ==
    /\ spc = "open"
    /\ \/ AuthorityAccepts /\ spc' = "dial" /\ UNCHANGED status
       \/ ~AuthorityAccepts /\ Refuse
    /\ UNCHANGED <<resolverVars, rfile, sent, closed, sfile, copyVars, backend, dialled, ownerVars, unread>>

\* The bound opener: the Provider's stream is connected, or it fails or its
\* context ends.
Dial ==
    /\ spc = "dial"
    /\ \/ /\ sent = Own
          /\ backend' = "open" /\ dialled' = sent /\ spc' = "status"
          /\ UNCHANGED status
       \/ Refuse /\ UNCHANGED <<backend, dialled>>
    /\ UNCHANGED <<resolverVars, rfile, sent, closed, sfile, copyVars, ownerVars, unread>>

\* Mutant: the deferred Close of the stream is set up after the status byte.
SendStatusUnguarded ==
    /\ spc = "status"
    /\ \/ /\ sfile /\ rfile
          /\ status' = "yes" /\ up' = "reading" /\ down' = "reading" /\ spc' = "copy"
          /\ UNCHANGED backend
       \/ /\ ~sfile \/ ~rfile
          /\ spc' = "end"
          /\ UNCHANGED <<status, copyVars, backend>>
    /\ UNCHANGED <<resolverVars, rfile, sent, closed, sfile, dialled, ownerVars, unread>>

\* The status byte and the two copies, or a closed socket: the stream is closed.
SendStatus ==
    /\ spc = "status"
    /\ \/ /\ sfile /\ rfile
          /\ status' = "yes" /\ up' = "reading" /\ down' = "reading" /\ spc' = "copy"
          /\ UNCHANGED backend
       \/ /\ ~sfile \/ ~rfile
          /\ backend' = "closed" /\ spc' = "end"
          /\ UNCHANGED <<status, copyVars>>
    /\ UNCHANGED <<resolverVars, rfile, sent, closed, sfile, dialled, ownerVars, unread>>

\* io.Copy(backend, s.file) has read something to write to the Provider.
UpReads ==
    /\ up = "reading" /\ sfile /\ unread
    /\ up' = "writing" /\ unread' = FALSE
    /\ UNCHANGED <<resolverVars, rfile, sent, status, serveVars, sfile, down, backend, dialled, ownerVars>>

\* The Provider takes it.
UpWrites ==
    /\ up = "writing"
    /\ up' = "reading"
    /\ UNCHANGED <<resolverVars, rfile, sent, status, serveVars, sfile, down, backend, dialled, ownerVars, unread>>

\* A read ends with the socket, once it is read empty; a write, with the stream
\* or with the context the stream was dialled with.
UpEnds ==
    /\ \/ up = "reading" /\ (~sfile \/ (~rfile /\ ~unread))
       \/ up = "writing" /\ (backend = "closed" \/ sctx = "done")
    /\ up' = "off"
    /\ UNCHANGED <<resolverVars, rfile, sent, status, serveVars, sfile, down, backend, dialled, ownerVars, unread>>

\* io.Copy(s.file, backend): the Provider sends, and the Gateway takes it.
DownReads ==
    /\ down = "reading"
    /\ down' = "writing"
    /\ UNCHANGED <<resolverVars, rfile, sent, status, serveVars, sfile, up, backend, dialled, ownerVars, unread>>

DownWrites ==
    /\ down = "writing"
    /\ down' = "reading"
    /\ UNCHANGED <<resolverVars, rfile, sent, status, serveVars, sfile, up, backend, dialled, ownerVars, unread>>

DownEnds ==
    /\ \/ down = "reading" /\ (backend = "closed" \/ sctx = "done")
       \/ down = "writing" /\ (~sfile \/ ~rfile)
    /\ down' = "off"
    /\ UNCHANGED <<resolverVars, rfile, sent, status, serveVars, sfile, up, backend, dialled, ownerVars, unread>>

\* The Provider ends the stream: a read sees EOF, a write fails.
StreamEnds ==
    /\ \/ down = "reading" /\ down' = "off" /\ UNCHANGED up
       \/ up = "writing" /\ up' = "off" /\ UNCHANGED down
    /\ UNCHANGED <<resolverVars, rfile, sent, status, serveVars, sfile, backend, dialled, ownerVars, unread>>

\* Mutant: both copies are awaited before anything is closed.
CopyFinishesBoth ==
    /\ spc = "copy" /\ up = "off" /\ down = "off"
    /\ sfile' = FALSE /\ backend' = "closed" /\ spc' = "drain"
    /\ UNCHANGED <<resolverVars, rfile, sent, status, closed, copyVars, dialled, ownerVars, unread>>

\* The first copy to finish closes both ends.
CopyFinishes ==
    /\ spc = "copy" /\ (up = "off" \/ down = "off")
    /\ sfile' = FALSE /\ backend' = "closed" /\ spc' = "drain"
    /\ UNCHANGED <<resolverVars, rfile, sent, status, closed, copyVars, dialled, ownerVars, unread>>

Drain ==
    /\ spc = "drain" /\ up = "off" /\ down = "off"
    /\ spc' = "end"
    /\ UNCHANGED <<resolverVars, rfile, sent, status, closed, sfile, copyVars, backend, dialled, ownerVars, unread>>

\* The deferred function of serve.
ServeReturns ==
    /\ spc = "end"
    /\ closed' = TRUE /\ spc' = "done"
    /\ UNCHANGED <<resolverVars, rfile, sent, status, sfile, copyVars, backend, dialled, ownerVars, unread>>

-----------------------------------------------------------------------------
(* The caller's other goroutines *)

SetOpener ==
    /\ ~opener /\ ~closed /\ sctx = "live"
    /\ opener' = TRUE
    /\ UNCHANGED <<resolverVars, rfile, sent, status, serveVars, sfile, copyVars, backend, dialled, sctx, closing, aclosed, aexpired, unread>>

\* The context of the phase ends, and with it the server's.
PhaseEnds ==
    /\ sctx = "live"
    /\ sctx' = "done"
    /\ UNCHANGED <<resolverVars, rfile, sent, status, serveVars, sfile, copyVars, backend, dialled, opener, closing, aclosed, aexpired, unread>>

\* The AfterFunc of serve.
ContextClosesSocket ==
    /\ sctx = "done" /\ sfile /\ spc # "done"
    /\ sfile' = FALSE
    /\ UNCHANGED <<resolverVars, rfile, sent, status, serveVars, copyVars, backend, dialled, ownerVars, unread>>

\* Mutant: Close only waits for serve.
CloseOnlyWaits ==
    /\ ~closing
    /\ closing' = TRUE
    /\ UNCHANGED <<resolverVars, rfile, sent, status, serveVars, sfile, copyVars, backend, dialled, sctx, opener, aclosed, aexpired, unread>>

\* Server.Close, from Start's cleanup and from waitProcess, which awaits done.
Close ==
    /\ ~closing
    /\ closing' = TRUE /\ sctx' = "done" /\ sfile' = FALSE
    /\ UNCHANGED <<resolverVars, rfile, sent, status, serveVars, copyVars, backend, dialled, opener, aclosed, aexpired, unread>>

\* Authority.Close, and its expiry.
AuthorityClose ==
    /\ ~aclosed
    /\ aclosed' = TRUE
    /\ UNCHANGED <<resolverVars, rfile, sent, status, serveVars, sfile, copyVars, backend, dialled, sctx, opener, closing, aexpired, unread>>

AuthorityExpires ==
    /\ ~aexpired
    /\ aexpired' = TRUE
    /\ UNCHANGED <<resolverVars, rfile, sent, status, serveVars, sfile, copyVars, backend, dialled, sctx, opener, closing, aclosed, unread>>

-----------------------------------------------------------------------------
Resolving(r) ==
    OpenRefused(r) \/ (\E ref \in References : Open(r, ref)) \/ ReadStatus(r) \/ RequestEnds(r)
    \/ TunnelSends(r) \/ TunnelCloses(r)

Serving == ReadReference \/ Lookup \/ AuthorityOpen \/ SendStatus \/ CopyFinishes \/ Drain \/ ServeReturns

Copying == UpReads \/ UpWrites \/ UpEnds \/ DownReads \/ DownWrites \/ DownEnds \/ StreamEnds

Owning == SetOpener \/ PhaseEnds \/ ContextClosesSocket \/ Close \/ AuthorityClose \/ AuthorityExpires

Next ==
    \/ \E r \in Requests : Resolving(r)
    \/ GatewayLeaves \/ Serving \/ Dial \/ Copying \/ Owning

\* The goroutines of the caller run; a dial, and a read or a write of the stream,
\* return once their context has ended, as those of websocket.NetConn do.  Nothing
\* is assumed of the Gateway or the Provider: either may stop reading or writing.
Fairness ==
    /\ WF_vars(Serving) /\ WF_vars(UpReads) /\ WF_vars(UpEnds) /\ WF_vars(DownEnds)
    /\ WF_vars(sctx = "done" /\ Dial)
    /\ WF_vars(ContextClosesSocket)

Spec == Init /\ [][Next]_vars
FairSpec == Spec /\ Fairness

-----------------------------------------------------------------------------
(* Properties *)

\* When serve has returned, and Close may report the bridge gone, the Provider's
\* stream is not left open, whichever of its steps failed or was cut off.
BackendIsReleased == spc = "done" => backend # "open"

\* A tunnel Resolver.Open hands out is the only one of its bridge, and at its
\* other end is a stream dialled for the very reference the request carried,
\* which is the authority's own.
TunnelIsBacked ==
    \A r \in Requests :
        rpc[r] \in {"opened", "over"} =>
            /\ backend # None /\ dialled = rref[r] /\ rref[r] = Own
            /\ \A q \in Requests : q # r => rpc[q] \notin {"opened", "over"}

\* Server.Close returns: waitProcess calls it before it reports the Gateway
\* reaped, so a bridge that hangs would hang every Stop and Wait.
CloseReturns == closing ~> spc = "done"

\* When the Gateway drops its end of a tunnel (revocation, expiry, exit) the
\* Provider's stream is closed although the Provider stays silent, unless the up
\* copy is stuck for good in a write to a Provider that has stopped reading: serve
\* awaits a copy, and that one does not look at the socket.  The end of the
\* service's context closes the stream in every case.
TunnelEndsTogether ==
    /\ ([]<>(up # "writing")) => ((backend = "open" /\ ~rfile) ~> (backend = "closed"))
    /\ (backend = "open" /\ sctx = "done") ~> (backend = "closed")

=============================================================================
