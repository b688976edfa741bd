-------------------------- MODULE ServiceSupervisor --------------------------
(***************************************************************************)
(* gatewayprocess.ServiceRunner and Service (internal/gatewayprocess/        *)
(* service.go) with the command loop of the Gateway child they supervise     *)
(* (internal/gatewayservice/serve.go).                                       *)
(*                                                                         *)
(* A runner starts children one after another; the handle of a started child *)
(* is a Service.  Its goroutines interleave: Start itself, the calls         *)
(* (InstallPolicy, IssueGrant and Revoke, which are all exchange, and Stop), *)
(* Wait, waitProcess, watchParent, the kill timer of abort, and the          *)
(* cancellation callback of a call.  Commands and replies travel over two    *)
(* pipes; a reply is its sequence number.                                  *)
(***************************************************************************)
EXTENDS Integers, Sequences, FiniteSets

CONSTANTS
    Services,    \* calls of ServiceRunner.Start, each with its Service
    Calls,       \* calls of exchange and Stop, each with its own context
    Bindings,    \* serviceContinuity digests
    Unset,       \* continuitySet is false
    MaxCommands, \* gatewayservice.MaxCommands, 256 in the code
    Sequential   \* the runner's owner never overlaps two Start calls

None == "none"

ASSUME SupervisorAssumption ==
    /\ MaxCommands \in Nat \ {0}
    /\ Sequential \in BOOLEAN
    /\ Unset \notin Bindings /\ None \notin Services \cup Calls

VARIABLES
    active, continuity,          \* ServiceRunner
    spc, binding, parent,        \* Start: progress, digest, caller phase context
    child, exitOK, noisy, killed, \* the process
    nextSeq, applied,            \* its loop: next sequence, calls it has applied
    inbox, outbox,               \* the control and the output pipe
    ctlOpen, outOpen, expired,   \* the Service's ends, and their I/O deadline
    sequence, stopReq, stopped, cause, tdone, done,  \* Service
    timer, wpc, ppc,             \* abort's kill timer, waitProcess, watchParent
    holder,                      \* commandMu
    cpc, csvc, ckind, cseq, cres, cctx, ccb,         \* calls
    qpc, qres                    \* one Wait call per Service

runnerVars == <<active, continuity>>
startVars  == <<spc, binding>>
procVars   == <<child, exitOK, noisy, killed, nextSeq, applied>>
pipeVars   == <<inbox, outbox, ctlOpen, outOpen, expired>>
abortVars  == <<cause, tdone, timer>>
svcVars    == <<sequence, stopReq, stopped, done, wpc, ppc>>
callVars   == <<holder, cpc, csvc, ckind, cseq, cres, cctx, ccb>>
waitVars   == <<qpc, qres>>
vars == <<runnerVars, startVars, parent, procVars, pipeVars, abortVars, svcVars, callVars, waitVars>>

Alive == {"boot", "serving", "stopping"}
Causes == {"io", "result", "timeout", "parent", "ctx"}
UsesPipes == {"write", "read", "eof"}
Starting == {"reserved", "send", "await", "reap", "release"}

RunnerTypeOK ==
    /\ active \in BOOLEAN /\ continuity \in Bindings \cup {Unset}
    /\ spc \in [Services -> {"idle", "ok", "error"} \cup Starting]
    /\ binding \in [Services -> Bindings \cup {Unset}]
    /\ parent \in [Services -> {"live", "cancelled", "expired"}]

ProcessTypeOK ==
    /\ child \in [Services -> {None, "exited", "reaped"} \cup Alive]
    /\ exitOK \in [Services -> BOOLEAN] /\ noisy \in [Services -> BOOLEAN]
    /\ killed \in [Services -> BOOLEAN]
    /\ nextSeq \in [Services -> 1..(MaxCommands + 1)]
    /\ applied \in [Services -> Seq(Calls)]

PipeTypeOK ==
    /\ inbox \in [Services -> Seq(Calls)] /\ outbox \in [Services -> Seq(Nat)]
    /\ ctlOpen \in [Services -> BOOLEAN] /\ outOpen \in [Services -> BOOLEAN]
    /\ expired \in [Services -> BOOLEAN]

ServiceTypeOK ==
    /\ sequence \in [Services -> Nat]
    /\ cause \in [Services -> Causes \cup {None}]
    /\ stopReq \in [Services -> BOOLEAN] /\ stopped \in [Services -> BOOLEAN]
    /\ tdone \in [Services -> BOOLEAN] /\ done \in [Services -> BOOLEAN]
    /\ timer \in [Services -> {"off", "armed"}]
    /\ wpc \in [Services -> {None, "wait", "drain", "release", "signal", "over"}]
    /\ ppc \in [Services -> {None, "watch", "over"}]
    /\ qpc \in [Services -> {"idle", "blocked", "terminal", "answer", "returned"}]
    /\ qres \in [Services -> Causes \cup {None, "ok", "exit"}]

CallTypeOK ==
    /\ holder \in [Services -> Calls \cup {None}]
    /\ cpc \in [Calls -> {"idle", "write", "read", "eof", "mark", "reap", "returned"}]
    /\ csvc \in [Calls -> Services \cup {None}]
    /\ ckind \in [Calls -> {None, "exchange", "stop"}]
    /\ cseq \in [Calls -> Nat]
    /\ cres \in [Calls -> Causes \cup {None, "ok", "refused", "exit"}]
    /\ cctx \in [Calls -> {"live", "lapsing", "done"}]
    /\ ccb \in [Calls -> {"off", "armed", "fired", "stale"}]

\* Every variable has its type, and commandMu is held by a call in progress.
TypeOK ==
    /\ RunnerTypeOK /\ ProcessTypeOK /\ PipeTypeOK /\ ServiceTypeOK /\ CallTypeOK
    /\ \A s \in Services, c \in Calls :
          holder[s] = c <=> csvc[c] = s /\ cpc[c] \notin {"idle", "returned"}

Init ==
    /\ active = FALSE /\ continuity = Unset
    /\ spc = [s \in Services |-> "idle"] /\ binding = [s \in Services |-> Unset]
    /\ parent = [s \in Services |-> "live"]
    /\ child = [s \in Services |-> None] /\ exitOK = [s \in Services |-> FALSE]
    /\ noisy = [s \in Services |-> FALSE] /\ killed = [s \in Services |-> FALSE]
    /\ nextSeq = [s \in Services |-> 1] /\ applied = [s \in Services |-> <<>>]
    /\ inbox = [s \in Services |-> <<>>] /\ outbox = [s \in Services |-> <<>>]
    /\ ctlOpen = [s \in Services |-> TRUE] /\ outOpen = [s \in Services |-> TRUE]
    /\ expired = [s \in Services |-> FALSE]
    /\ sequence = [s \in Services |-> 0] /\ stopReq = [s \in Services |-> FALSE]
    /\ stopped = [s \in Services |-> FALSE] /\ cause = [s \in Services |-> None]
    /\ tdone = [s \in Services |-> FALSE] /\ done = [s \in Services |-> FALSE]
    /\ timer = [s \in Services |-> "off"]
    /\ wpc = [s \in Services |-> None] /\ ppc = [s \in Services |-> None]
    /\ holder = [s \in Services |-> None]
    /\ cpc = [c \in Calls |-> "idle"] /\ csvc = [c \in Calls |-> None]
    /\ ckind = [c \in Calls |-> None] /\ cseq = [c \in Calls |-> 0]
    /\ cres = [c \in Calls |-> None] /\ cctx = [c \in Calls |-> "live"]
    /\ ccb = [c \in Calls |-> "off"]
    /\ qpc = [s \in Services |-> "idle"] /\ qres = [s \in Services |-> None]

-----------------------------------------------------------------------------
(* abort *)

\* Mutant: abort does not close terminalDone.
AbortSilently(s, why) ==
    IF cause[s] # None THEN UNCHANGED <<abortVars, ctlOpen, outOpen>>
    ELSE /\ cause' = [cause EXCEPT ![s] = why]
         /\ ctlOpen' = [ctlOpen EXCEPT ![s] = FALSE]
         /\ outOpen' = [outOpen EXCEPT ![s] = FALSE]
         /\ timer' = [timer EXCEPT ![s] = IF done[s] THEN "off" ELSE "armed"]
         /\ UNCHANGED tdone

\* Service.abort, under abortOnce: the first cause wins, both pipes are closed
\* and the kill timer starts, which done stops.
Abort(s, why) ==
    IF cause[s] # None THEN UNCHANGED <<abortVars, ctlOpen, outOpen>>
    ELSE /\ cause' = [cause EXCEPT ![s] = why]
         /\ tdone' = [tdone EXCEPT ![s] = TRUE]
         /\ ctlOpen' = [ctlOpen EXCEPT ![s] = FALSE]
         /\ outOpen' = [outOpen EXCEPT ![s] = FALSE]
         /\ timer' = [timer EXCEPT ![s] = IF done[s] THEN "off" ELSE "armed"]

\* The timer of abort: the group is killed unless the child was reaped in time.
AbortTimer(s) ==
    /\ timer[s] = "armed"
    /\ timer' = [timer EXCEPT ![s] = "off"]
    /\ killed' = [killed EXCEPT ![s] = TRUE]
    /\ UNCHANGED <<runnerVars, startVars, parent, child, exitOK, noisy, nextSeq, applied, pipeVars, cause, tdone, svcVars, callVars, waitVars>>

\* watchParent
WatchParent(s) ==
    /\ ppc[s] = "watch"
    /\ ppc' = [ppc EXCEPT ![s] = "over"]
    /\ \/ parent[s] # "live" /\ Abort(s, "parent")
       \/ done[s] /\ UNCHANGED <<abortVars, ctlOpen, outOpen>>
    /\ UNCHANGED <<runnerVars, startVars, parent, procVars, inbox, outbox, expired, sequence, stopReq, stopped, done, wpc, callVars, waitVars>>

\* The caller's phase context is cancelled, or its deadline, which is the
\* service's and the child's too, passes.  Both matter until watchParent ends.
ParentCancelled(s) ==
    /\ spc[s] \notin {"idle", "error"} /\ parent[s] = "live" /\ ppc[s] # "over"
    /\ parent' = [parent EXCEPT ![s] = "cancelled"]
    /\ UNCHANGED <<runnerVars, startVars, procVars, pipeVars, abortVars, svcVars, callVars, waitVars>>

ServiceDeadline(s) ==
    /\ spc[s] \notin {"idle", "error"} /\ parent[s] = "live" /\ ppc[s] # "over"
    /\ parent' = [parent EXCEPT ![s] = "expired"]
    /\ expired' = [expired EXCEPT ![s] = TRUE]
    /\ UNCHANGED <<runnerVars, startVars, procVars, inbox, outbox, ctlOpen, outOpen, abortVars, svcVars, callVars, waitVars>>

-----------------------------------------------------------------------------
(* ServiceRunner.Start *)

SGoto(s, step) == spc' = [spc EXCEPT ![s] = step]

MayStart(s) ==
    /\ spc[s] = "idle"
    /\ Sequential => \A t \in Services : spc[t] \notin Starting

\* An argument that does not validate, a service that is active, or another
\* endpoint or identity than the first ready service had.
StartRefused(s) ==
    /\ MayStart(s)
    /\ SGoto(s, "error")
    /\ UNCHANGED <<runnerVars, binding, parent, procVars, pipeVars, abortVars, svcVars, callVars, waitVars>>

MayReserve(b) == ~active /\ continuity \in {Unset, b}

StartReserve(s, b) ==
    /\ MayStart(s)
    /\ MayReserve(b)
    /\ active' = TRUE
    /\ binding' = [binding EXCEPT ![s] = b]
    /\ SGoto(s, "reserved")
    /\ UNCHANGED <<continuity, parent, procVars, pipeVars, abortVars, svcVars, callVars, waitVars>>

\* Pipes, the bridge, the request or the fork fail: nothing is left behind.
StartLaunchFails(s) ==
    /\ spc[s] = "reserved"
    /\ SGoto(s, "release")
    /\ UNCHANGED <<runnerVars, binding, parent, procVars, pipeVars, abortVars, svcVars, callVars, waitVars>>

StartLaunch(s) ==
    /\ spc[s] = "reserved"
    /\ child' = [child EXCEPT ![s] = "boot"]
    /\ wpc' = [wpc EXCEPT ![s] = "wait"]
    /\ ppc' = [ppc EXCEPT ![s] = "watch"]
    /\ SGoto(s, "send")
    /\ UNCHANGED <<runnerVars, binding, parent, exitOK, noisy, killed, nextSeq, applied, pipeVars, abortVars, sequence, stopReq, stopped, done, callVars, waitVars>>

\* The bootstrap record and the credentials are written, or the child dies, the
\* startup deadline passes or the parent is cancelled meanwhile.
StartSend(s) ==
    /\ spc[s] = "send"
    /\ \/ SGoto(s, "await") /\ UNCHANGED <<abortVars, ctlOpen, outOpen>>
       \/ SGoto(s, "reap") /\ Abort(s, "io")
    /\ UNCHANGED <<runnerVars, binding, parent, procVars, inbox, outbox, expired, svcVars, callVars, waitVars>>

\* The readiness record; a parent that ended meanwhile aborts, otherwise the
\* first ready service pins the continuity binding.
StartReady(s) ==
    /\ spc[s] = "await" /\ outOpen[s]
    /\ outbox[s] # <<>> /\ Head(outbox[s]) = 0
    /\ outbox' = [outbox EXCEPT ![s] = Tail(@)]
    /\ \/ /\ parent[s] # "live"
          /\ Abort(s, "parent") /\ SGoto(s, "reap")
          /\ UNCHANGED continuity
       \/ /\ parent[s] = "live"
          /\ continuity' = IF continuity = Unset THEN binding[s] ELSE continuity
          /\ SGoto(s, "ok")
          /\ UNCHANGED <<abortVars, ctlOpen, outOpen>>
    /\ UNCHANGED <<active, binding, parent, procVars, inbox, expired, svcVars, callVars, waitVars>>

\* Mutant: a start that is not ready returns at once.
StartNotReadyReturns(s) ==
    /\ spc[s] = "await"
    /\ \E why \in {"timeout", "result"} : Abort(s, why)
    /\ SGoto(s, "release")
    /\ UNCHANGED <<runnerVars, binding, parent, procVars, inbox, outbox, expired, svcVars, callVars, waitVars>>

\* The startup deadline, EOF, or a record that is not the readiness record.
StartNotReady(s) ==
    /\ spc[s] = "await"
    /\ \E why \in {"timeout", "result"} : Abort(s, why)
    /\ SGoto(s, "reap")
    /\ UNCHANGED <<runnerVars, binding, parent, procVars, inbox, outbox, expired, svcVars, callVars, waitVars>>

\* waitBounded: done, or a kill after the shutdown timeout and then done.
StartReap(s) ==
    /\ spc[s] = "reap" /\ done[s]
    /\ SGoto(s, "release")
    /\ outOpen' = [outOpen EXCEPT ![s] = FALSE]
    /\ UNCHANGED <<runnerVars, binding, parent, procVars, inbox, outbox, ctlOpen, expired, abortVars, svcVars, callVars, waitVars>>

StartReapTimeout(s) ==
    /\ spc[s] = "reap" /\ ~killed[s]
    /\ killed' = [killed EXCEPT ![s] = TRUE]
    /\ UNCHANGED <<runnerVars, startVars, parent, child, exitOK, noisy, nextSeq, applied, pipeVars, abortVars, svcVars, callVars, waitVars>>

\* The deferred release of a failed Start.
StartRelease(s) ==
    /\ spc[s] = "release"
    /\ active' = FALSE
    /\ SGoto(s, "error")
    /\ UNCHANGED <<continuity, binding, parent, procVars, pipeVars, abortVars, svcVars, callVars, waitVars>>

-----------------------------------------------------------------------------
(* exchange and Stop, one call at a time under commandMu *)

\* What Wait returns once the process is reaped.
WaitResult(s) ==
    CASE cause[s] # None -> cause[s]
      [] cause[s] = None /\ ~(stopped[s] /\ exitOK[s]) -> "exit"
      [] cause[s] = None /\ stopped[s] /\ exitOK[s] -> IF noisy[s] THEN "io" ELSE "ok"

\* The deferred stopCancellation and unlock of a call that returns r.
Returns(c, r) ==
    /\ cpc' = [cpc EXCEPT ![c] = "returned"]
    /\ cres' = [cres EXCEPT ![c] = r]
    /\ ccb' = [ccb EXCEPT ![c] = IF @ = "fired" THEN "stale" ELSE "off"]
    /\ holder' = [holder EXCEPT ![csvc[c]] = None]

\* The call gets commandMu and is refused: its context has ended, no time is left
\* in the service's, or the service has stopped, aborted or exited.
CallRefused(c, s) ==
    /\ cpc[c] = "idle" /\ spc[s] = "ok" /\ holder[s] = None
    /\ cpc' = [cpc EXCEPT ![c] = "returned"]
    /\ cres' = [cres EXCEPT ![c] = "refused"]
    /\ UNCHANGED <<runnerVars, startVars, parent, procVars, pipeVars, abortVars, svcVars, holder, csvc, ckind, cseq, cctx, ccb, waitVars>>

\* The call takes the next sequence number and sets its own I/O deadline and
\* its cancellation callback.
CallBegins(c, s, kind) ==
    /\ cpc[c] = "idle" /\ spc[s] = "ok" /\ holder[s] = None
    /\ parent[s] # "expired"
    /\ ~stopped[s] /\ cause[s] = None /\ ~done[s]
    /\ holder' = [holder EXCEPT ![s] = c]
    /\ sequence' = [sequence EXCEPT ![s] = @ + 1]
    /\ stopReq' = [stopReq EXCEPT ![s] = @ \/ kind = "stop"]
    /\ expired' = [expired EXCEPT ![s] = FALSE]
    /\ csvc' = [csvc EXCEPT ![c] = s] /\ ckind' = [ckind EXCEPT ![c] = kind]
    /\ cseq' = [cseq EXCEPT ![c] = sequence[s] + 1]
    /\ ccb' = [ccb EXCEPT ![c] = "armed"]
    /\ cpc' = [cpc EXCEPT ![c] = "write"]
    /\ UNCHANGED <<runnerVars, startVars, parent, procVars, inbox, outbox, ctlOpen, outOpen, abortVars, stopped, done, wpc, ppc, cres, cctx, waitVars>>

CallWrites(c) ==
    /\ cpc[c] = "write" /\ ctlOpen[csvc[c]] /\ ~expired[csvc[c]]
    /\ child[csvc[c]] \in Alive
    /\ inbox' = [inbox EXCEPT ![csvc[c]] = Append(@, c)]
    /\ cpc' = [cpc EXCEPT ![c] = "read"]
    /\ UNCHANGED <<runnerVars, startVars, parent, procVars, outbox, ctlOpen, outOpen, expired, abortVars, svcVars, holder, csvc, ckind, cseq, cres, cctx, ccb, waitVars>>

\* The pipe of the current step cannot be used any more, or holds no record
\* that answers this call.
WriteBroken(s) == ~ctlOpen[s] \/ expired[s] \/ child[s] \notin Alive
ReadBroken(c, s) ==
    \/ ~outOpen[s] \/ expired[s]
    \/ outbox[s] = <<>> /\ child[s] \notin Alive
    \/ outbox[s] # <<>> /\ Head(outbox[s]) # cseq[c]

IOFailed(c) ==
    \/ cpc[c] = "write" /\ WriteBroken(csvc[c])
    \/ cpc[c] = "read" /\ ReadBroken(c, csvc[c])

FailCause(c) == IF cctx[c] = "done" THEN "ctx" ELSE IF cpc[c] = "write" THEN "io" ELSE "result"

\* Mutant: a failed exchange gives its number back and leaves the service up.
CallFailsRetryable(c) ==
    /\ IOFailed(c)
    /\ Returns(c, FailCause(c))
    /\ sequence' = [sequence EXCEPT ![csvc[c]] = @ - 1]
    /\ UNCHANGED <<runnerVars, startVars, parent, procVars, pipeVars, abortVars, stopReq, stopped, done, wpc, ppc, csvc, ckind, cseq, cctx, waitVars>>

\* A failed write or read aborts the whole service; Stop goes on to reap it.
CallFails(c) ==
    /\ IOFailed(c)
    /\ Abort(csvc[c], FailCause(c))
    /\ \/ ckind[c] = "exchange" /\ Returns(c, FailCause(c))
       \/ /\ ckind[c] = "stop" /\ cpc' = [cpc EXCEPT ![c] = "reap"]
          /\ UNCHANGED <<holder, cres, ccb>>
    /\ UNCHANGED <<runnerVars, startVars, parent, procVars, inbox, outbox, expired, svcVars, csvc, ckind, cseq, cctx, waitVars>>

\* The reply to this call: an exchange returns it, Stop awaits the EOF after it.
CallReads(c) ==
    LET s == csvc[c] IN
    /\ cpc[c] = "read" /\ outOpen[s] /\ ~expired[s]
    /\ outbox[s] # <<>> /\ Head(outbox[s]) = cseq[c]
    /\ outbox' = [outbox EXCEPT ![s] = Tail(@)]
    /\ \/ ckind[c] = "exchange" /\ Returns(c, "ok")
       \/ /\ ckind[c] = "stop" /\ cpc' = [cpc EXCEPT ![c] = "eof"]
          /\ UNCHANGED <<holder, cres, ccb>>
    /\ UNCHANGED <<runnerVars, startVars, parent, procVars, inbox, ctlOpen, outOpen, expired, abortVars, svcVars, csvc, ckind, cseq, cctx, waitVars>>

\* ReadByte after the stopped record: EOF, or anything else, which aborts.
StopReadsEOF(c) ==
    LET s == csvc[c] IN
    /\ cpc[c] = "eof"
    /\ \/ /\ outOpen[s] /\ ~expired[s] /\ outbox[s] = <<>> /\ child[s] \notin Alive
          /\ cpc' = [cpc EXCEPT ![c] = "mark"]
          /\ UNCHANGED <<abortVars, ctlOpen, outOpen>>
       \/ /\ ~outOpen[s] \/ expired[s] \/ outbox[s] # <<>>
          /\ Abort(s, "result")
          /\ cpc' = [cpc EXCEPT ![c] = "reap"]
    /\ UNCHANGED <<runnerVars, startVars, parent, procVars, inbox, outbox, expired, svcVars, holder, csvc, ckind, cseq, cres, cctx, ccb, waitVars>>

StopMarks(c) ==
    /\ cpc[c] = "mark"
    /\ stopped' = [stopped EXCEPT ![csvc[c]] = TRUE]
    /\ tdone' = [tdone EXCEPT ![csvc[c]] = TRUE]
    /\ ctlOpen' = [ctlOpen EXCEPT ![csvc[c]] = FALSE]
    /\ cpc' = [cpc EXCEPT ![c] = "reap"]
    /\ UNCHANGED <<runnerVars, startVars, parent, procVars, inbox, outbox, outOpen, expired, cause, timer, sequence, stopReq, done, wpc, ppc, holder, csvc, ckind, cseq, cres, cctx, ccb, waitVars>>

\* waitBounded of Stop.
StopReaps(c) ==
    /\ cpc[c] = "reap" /\ done[csvc[c]]
    /\ Returns(c, WaitResult(csvc[c]))
    /\ outOpen' = [outOpen EXCEPT ![csvc[c]] = FALSE]
    /\ UNCHANGED <<runnerVars, startVars, parent, procVars, inbox, outbox, ctlOpen, expired, abortVars, svcVars, csvc, ckind, cseq, cctx, waitVars>>

StopReapTimeout(c) ==
    /\ cpc[c] = "reap" /\ ~killed[csvc[c]] /\ ~done[csvc[c]]
    /\ Abort(csvc[c], "timeout")
    /\ killed' = [killed EXCEPT ![csvc[c]] = TRUE]
    /\ UNCHANGED <<runnerVars, startVars, parent, child, exitOK, noisy, nextSeq, applied, inbox, outbox, expired, svcVars, callVars, waitVars>>

\* The context of a running call is cancelled, or its deadline passes: the pipes'
\* deadline may pass just before the context reports it.  Neither matters to a
\* Stop that has done with the pipes: no later call gets past its state.
ContextLapses(c) ==
    /\ cpc[c] \in UsesPipes /\ cctx[c] = "live"
    /\ cctx' = [cctx EXCEPT ![c] = "lapsing"]
    /\ expired' = [s \in Services |-> expired[s] \/ holder[s] = c]
    /\ UNCHANGED <<runnerVars, startVars, parent, procVars, inbox, outbox, ctlOpen, outOpen, abortVars, svcVars, holder, cpc, csvc, ckind, cseq, cres, ccb, waitVars>>

ContextEnds(c) ==
    /\ cpc[c] \in UsesPipes /\ cctx[c] # "done"
    /\ cctx' = [cctx EXCEPT ![c] = "done"]
    /\ ccb' = [ccb EXCEPT ![c] = IF @ = "armed" THEN "fired" ELSE @]
    /\ UNCHANGED <<runnerVars, startVars, parent, procVars, pipeVars, abortVars, svcVars, holder, cpc, csvc, ckind, cseq, cres, waitVars>>

\* Mutant: the callback does not look at active.
CallbackAlways(c) ==
    /\ ccb[c] \in {"fired", "stale"}
    /\ expired' = [expired EXCEPT ![csvc[c]] = TRUE]
    /\ ccb' = [ccb EXCEPT ![c] = "off"]
    /\ UNCHANGED <<runnerVars, startVars, parent, procVars, inbox, outbox, ctlOpen, outOpen, abortVars, svcVars, holder, cpc, csvc, ckind, cseq, cres, cctx, waitVars>>

\* The AfterFunc of watchOperationCancellation: nothing once the call is over.
Callback(c) ==
    /\ ccb[c] \in {"fired", "stale"}
    /\ expired' = [expired EXCEPT ![csvc[c]] = @ \/ ccb[c] = "fired"]
    /\ ccb' = [ccb EXCEPT ![c] = "off"]
    /\ UNCHANGED <<runnerVars, startVars, parent, procVars, inbox, outbox, ctlOpen, outOpen, abortVars, svcVars, holder, cpc, csvc, ckind, cseq, cres, cctx, waitVars>>

-----------------------------------------------------------------------------
(* waitProcess and Wait *)

WGoto(s, step) == wpc' = [wpc EXCEPT ![s] = step]

\* command.Wait.
ProcessReaped(s) ==
    /\ wpc[s] = "wait" /\ child[s] = "exited"
    /\ child' = [child EXCEPT ![s] = "reaped"]
    /\ WGoto(s, "drain")
    /\ UNCHANGED <<runnerVars, startVars, parent, exitOK, noisy, killed, nextSeq, applied, pipeVars, abortVars, sequence, stopReq, stopped, done, ppc, callVars, waitVars>>

\* stderr is drained, or a descendant holds it: then the group is killed and the
\* drain ends with an error.  Control and the bridge are closed.
StderrDrained(s) ==
    /\ wpc[s] = "drain"
    /\ \/ UNCHANGED <<killed, noisy>>
       \/ killed' = [killed EXCEPT ![s] = TRUE] /\ noisy' = [noisy EXCEPT ![s] = TRUE]
    /\ ctlOpen' = [ctlOpen EXCEPT ![s] = FALSE]
    /\ WGoto(s, "release")
    /\ UNCHANGED <<runnerVars, startVars, parent, child, exitOK, nextSeq, applied, inbox, outbox, outOpen, expired, abortVars, sequence, stopReq, stopped, done, ppc, callVars, waitVars>>

RunnerReleased(s) ==
    /\ wpc[s] = "release"
    /\ active' = FALSE
    /\ WGoto(s, "signal")
    /\ UNCHANGED <<continuity, startVars, parent, procVars, pipeVars, abortVars, sequence, stopReq, stopped, done, ppc, callVars, waitVars>>

DoneClosed(s) ==
    /\ wpc[s] = "signal"
    /\ done' = [done EXCEPT ![s] = TRUE]
    /\ timer' = [timer EXCEPT ![s] = "off"]
    /\ WGoto(s, "over")
    /\ UNCHANGED <<runnerVars, startVars, parent, procVars, pipeVars, cause, tdone, sequence, stopReq, stopped, ppc, callVars, waitVars>>

WaitCalled(s) ==
    /\ spc[s] = "ok" /\ qpc[s] = "idle"
    /\ qpc' = [qpc EXCEPT ![s] = "blocked"]
    /\ UNCHANGED <<runnerVars, startVars, parent, procVars, pipeVars, abortVars, svcVars, callVars, qres>>

\* Mutant: Wait does not wait for a Stop that has begun.
WaitWakesEagerly(s) ==
    /\ qpc[s] = "blocked" /\ done[s]
    /\ outOpen' = [outOpen EXCEPT ![s] = FALSE]
    /\ qpc' = [qpc EXCEPT ![s] = "answer"]
    /\ UNCHANGED <<runnerVars, startVars, parent, procVars, inbox, outbox, ctlOpen, expired, abortVars, svcVars, callVars, qres>>

\* done is closed: Wait closes the output and, when a Stop has begun and not
\* ended, waits for its outcome.
WaitWakes(s) ==
    /\ qpc[s] = "blocked" /\ done[s]
    /\ outOpen' = [outOpen EXCEPT ![s] = FALSE]
    /\ qpc' = [qpc EXCEPT ![s] = IF stopReq[s] /\ ~stopped[s] /\ cause[s] = None THEN "terminal" ELSE "answer"]
    /\ UNCHANGED <<runnerVars, startVars, parent, procVars, inbox, outbox, ctlOpen, expired, abortVars, svcVars, callVars, qres>>

WaitAnswers(s) ==
    /\ qpc[s] = "answer" \/ (qpc[s] = "terminal" /\ tdone[s])
    /\ qpc' = [qpc EXCEPT ![s] = "returned"]
    /\ qres' = [qres EXCEPT ![s] = WaitResult(s)]
    /\ UNCHANGED <<runnerVars, startVars, parent, procVars, pipeVars, abortVars, svcVars, callVars>>

-----------------------------------------------------------------------------
(* The Gateway child: gatewayservice.Serve *)

\* The child is gone.  Bytes on stderr matter only to a clean exit (Wait).
Exit(s, ok) ==
    /\ child' = [child EXCEPT ![s] = "exited"]
    /\ exitOK' = [exitOK EXCEPT ![s] = ok]
    /\ \E bytes \in {FALSE, ok} : noisy' = [noisy EXCEPT ![s] = bytes]

\* EncodeReply: the record, whose status the caller only passes on, reaches the
\* output pipe, or the write fails and the child leaves.
Reply(s, seq, next) ==
    IF outOpen[s]
    THEN /\ outbox' = [outbox EXCEPT ![s] = Append(@, seq)]
         /\ IF next = "exited" THEN Exit(s, FALSE)
            ELSE child' = [child EXCEPT ![s] = next] /\ UNCHANGED <<exitOK, noisy>>
    ELSE Exit(s, FALSE) /\ UNCHANGED outbox

ChildReady(s) ==
    /\ child[s] = "boot" /\ spc[s] = "await"
    /\ Reply(s, 0, "serving")
    /\ UNCHANGED <<runnerVars, startVars, parent, killed, nextSeq, applied, inbox, ctlOpen, outOpen, expired, abortVars, svcVars, callVars, waitVars>>

\* One turn of the command loop for a command that is not stop; the loop ends
\* after MaxCommands of them.
ChildApplies(s) ==
    /\ child[s] = "serving" /\ inbox[s] # <<>>
    /\ cseq[Head(inbox[s])] = nextSeq[s] /\ ckind[Head(inbox[s])] = "exchange"
    /\ inbox' = [inbox EXCEPT ![s] = Tail(@)]
    /\ applied' = [applied EXCEPT ![s] = Append(@, Head(inbox[s]))]
    /\ nextSeq' = [nextSeq EXCEPT ![s] = @ + 1]
    /\ Reply(s, nextSeq[s], IF nextSeq[s] = MaxCommands THEN "exited" ELSE "serving")
    /\ UNCHANGED <<runnerVars, startVars, parent, killed, ctlOpen, outOpen, expired, abortVars, svcVars, callVars, waitVars>>

\* stop: cleanup, the stopped record, and a clean exit to come.
ChildStops(s) ==
    /\ child[s] = "serving" /\ inbox[s] # <<>>
    /\ cseq[Head(inbox[s])] = nextSeq[s] /\ ckind[Head(inbox[s])] = "stop"
    /\ inbox' = [inbox EXCEPT ![s] = Tail(@)]
    /\ Reply(s, nextSeq[s], "stopping")
    /\ UNCHANGED <<runnerVars, startVars, parent, killed, nextSeq, applied, ctlOpen, outOpen, expired, abortVars, svcVars, callVars, waitVars>>

ChildExits(s) ==
    /\ child[s] = "stopping"
    /\ Exit(s, TRUE)
    /\ UNCHANGED <<runnerVars, startVars, parent, killed, nextSeq, applied, pipeVars, abortVars, svcVars, callVars, waitVars>>

\* A crash, the child's own deadline, EOF or a bad record on control, or the
\* kill of its group.
ChildFails(s) ==
    /\ child[s] \in Alive
    /\ Exit(s, FALSE)
    /\ UNCHANGED <<runnerVars, startVars, parent, killed, nextSeq, applied, pipeVars, abortVars, svcVars, callVars, waitVars>>

-----------------------------------------------------------------------------
Starts(s) ==
    \/ StartRefused(s) \/ (\E b \in Bindings : StartReserve(s, b))
    \/ StartLaunchFails(s) \/ StartLaunch(s) \/ StartSend(s) \/ StartReady(s)
    \/ StartNotReady(s) \/ StartReap(s) \/ StartReapTimeout(s) \/ StartRelease(s)

Background(s) ==
    \/ AbortTimer(s) \/ WatchParent(s) \/ ProcessReaped(s) \/ StderrDrained(s)
    \/ RunnerReleased(s) \/ DoneClosed(s)

Waiting(s) == WaitCalled(s) \/ WaitWakes(s) \/ WaitAnswers(s)

Environment(s) == ParentCancelled(s) \/ ServiceDeadline(s)

ChildRuns(s) ==
    \/ ChildReady(s) \/ ChildApplies(s) \/ ChildStops(s) \/ ChildExits(s)
    \/ ChildFails(s)

CallProceeds(c) ==
    \/ CallWrites(c) \/ CallFails(c) \/ CallReads(c) \/ StopReadsEOF(c)
    \/ StopMarks(c) \/ StopReaps(c) \/ StopReapTimeout(c)

CallSteps(c) ==
    \/ \E s \in Services : CallRefused(c, s)
    \/ \E s \in Services, kind \in {"exchange", "stop"} : CallBegins(c, s, kind)
    \/ CallProceeds(c) \/ ContextLapses(c) \/ ContextEnds(c) \/ Callback(c)

Next ==
    \/ \E s \in Services : Starts(s) \/ Background(s) \/ Waiting(s) \/ Environment(s) \/ ChildRuns(s)
    \/ \E c \in Calls : CallSteps(c)

\* Every goroutine of the caller gets to run, timers and the absolute deadline
\* of the phase fire, and a killed process dies; the child promises nothing.
Fairness ==
    /\ \A s \in Services :
          /\ WF_vars(Background(s))
          /\ WF_vars(ServiceDeadline(s))
          /\ WF_vars(killed[s] /\ ChildFails(s))
          /\ WF_vars(spc[s] # "idle" /\ Starts(s))
          /\ WF_vars(qpc[s] # "idle" /\ Waiting(s))
    /\ \A c \in Calls : WF_vars(CallProceeds(c)) /\ WF_vars(Callback(c))

Spec == Init /\ [][Next]_vars
FairSpec == Spec /\ Fairness

-----------------------------------------------------------------------------
(* Properties *)

\* Concurrent service instances of one runner are rejected: a second Gateway
\* never runs beside one that has not been reaped (active in Start, release).
OneServiceAtATime ==
    \A s, t \in Services :
        s # t => ~(child[s] \in Alive \cup {"exited"} /\ child[t] \in Alive \cup {"exited"})

\* A Start that returned an error leaves nothing behind, whichever of its steps
\* failed: its child is reaped and the Service's ends of the pipes are closed
\* (abort, waitBounded), and the runner is reserved only for a Start in progress
\* or for a service that has not been reaped.
FailedStartLeavesNothing ==
    /\ \A s \in Services :
          spc[s] = "error" /\ child[s] # None =>
              child[s] = "reaped" /\ done[s] /\ ~ctlOpen[s] /\ ~outOpen[s]
    /\ active => \E s \in Services : spc[s] \in Starting \/ (spc[s] = "ok" /\ ~done[s])

\* An exchange that returns the reply to its command is the call the Gateway
\* applied under that number, and every exchange before it has been answered:
\* a late reply is never taken for the answer to another call, and nothing is
\* applied after an exchange of unknown outcome.
ExchangeIsExact ==
    \A c \in Calls :
        ckind[c] = "exchange" /\ cres[c] = "ok" =>
            /\ Len(applied[csvc[c]]) >= cseq[c] /\ applied[csvc[c]][cseq[c]] = c
            /\ \A d \in Calls :
                  csvc[d] = csvc[c] /\ 0 < cseq[d] /\ cseq[d] < cseq[c] => cres[d] = "ok"

\* The I/O deadline that cuts a call off is its own or the service's: the
\* cancellation callback of an earlier call, running late, never ends it
\* (the active flag of watchOperationCancellation).
OwnDeadlineOnly ==
    \A s \in Services :
        holder[s] # None /\ expired[s] => cctx[holder[s]] # "live" \/ parent[s] = "expired"

\* Stop succeeds only when every earlier command was answered, and the child
\* left by itself, cleanly, silently and is reaped; Wait then never reports a
\* failure of the process, at most a phase that ended in the meantime.
GracefulStop ==
    \A c \in Calls :
        ckind[c] = "stop" /\ cres[c] = "ok" =>
            LET s == csvc[c] IN
            /\ child[s] = "reaped" /\ exitOK[s] /\ ~noisy[s] /\ ~killed[s]
            /\ Len(applied[s]) = cseq[c] - 1
            /\ qres[s] \in {None, "ok", "parent"}

\* Start, exchange, Stop and Wait return, even when the child neither answers nor
\* exits and no context of a call ever ends: the startup deadline and the phase's
\* absolute deadline cut the pipes, abort kills the group, and a Wait that runs
\* into a failing Stop is woken (terminalDone).
EveryCallReturns ==
    /\ \A s \in Services : spc[s] \in Starting ~> spc[s] \in {"ok", "error"}
    /\ \A c \in Calls : cpc[c] \notin {"idle", "returned"} ~> cpc[c] = "returned"
    /\ \A s \in Services : qpc[s] = "blocked" ~> qpc[s] = "returned"

=============================================================================
