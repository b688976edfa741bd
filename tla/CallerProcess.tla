---------------------------- MODULE CallerProcess ----------------------------
(***************************************************************************)
(* callerprocess.Runner and Session (internal/callerprocess/runner.go,      *)
(* process_unix.go): the adapter's supervision of one external-caller       *)
(* process, its process group and its output pipes.                         *)
(*                                                                         *)
(* Runner.Start, Run and Close are called by one goroutine; a call spans    *)
(* several steps (rstep), between which the child, its descendants, the     *)
(* process context and the clock move.  A call ends in "returned" with its  *)
(* error in ret ("ok" for nil).  stdout and stderr have the same holders    *)
(* and are drained together.  SIGKILL to the group takes effect some time   *)
(* after it is sent.                                                        *)
(*                                                                         *)
(* Two kinds of descendant.  The Gateway process (gateway), which the real   *)
(* caller starts and stops, has a group and output pipes of its own: no kill *)
(* of this Runner reaches it, and it ends by itself once the caller is gone. *)
(* A descendant inside the caller's group (kin) is what the Runner's last    *)
(* group kill is written for; the caller of this repository starts none.     *)
(***************************************************************************)
EXTENDS Integers

VARIABLES
    child,     \* the external-caller process
    kin,       \* a descendant in its group: holding the output pipes, or not
    gateway,   \* a Gateway process of the caller, in a group of its own
    closed,    \* the running child has closed its own output
    noisy,     \* bytes beyond the results were written to stdout or stderr
    exitOK,    \* the child exited by itself with status 0
    killed,    \* SIGKILL was sent to the process group
    ctx,       \* Session.ctx
    installed, \* Runner.session # nil
    rstep,     \* step of the call in progress
    op,        \* the call in progress
    last,      \* the call is for the last case of the phase
    cause,     \* what an abort returns once its cleanup is confirmed, or "finish"
    late,      \* the case deadline passed during this call
    clock,     \* time since waitAndDrain began
    forced,    \* waitAndDrain's cancelled
    ret        \* result of the last call

childVars  == <<child, kin, gateway, closed, noisy, exitOK>>
callVars   == <<op, last, cause, late>>
callerVars == <<childVars, killed, ctx, installed, rstep, callVars, clock, forced, ret>>

Errors == {"start", "io", "result", "timeout", "exit", "cleanup"}
Draining == {"drain", "wait", "sweep"}

CallerTypeOK ==
    /\ child \in {"none", "running", "exited", "reaped"}
    /\ kin \in {"none", "holds", "quiet"}
    /\ gateway \in BOOLEAN
    /\ closed \in BOOLEAN /\ noisy \in BOOLEAN /\ exitOK \in BOOLEAN /\ killed \in BOOLEAN
    /\ installed \in BOOLEAN /\ last \in BOOLEAN /\ late \in BOOLEAN /\ forced \in BOOLEAN
    /\ ctx \in {"live", "cancelled", "expired"}
    /\ rstep \in {"idle", "request", "command", "reply", "returned"} \cup Draining
    /\ op \in {"none", "start", "run", "close"}
    /\ cause \in Errors \cup {"ok", "finish"} /\ ret \in Errors \cup {"ok"}
    /\ clock \in {"grace", "reap", "over"}

CallerInit ==
    /\ child = "none" /\ kin = "none" /\ gateway = FALSE
    /\ closed = FALSE /\ noisy = FALSE /\ exitOK = FALSE /\ killed = FALSE
    /\ ctx = "live" /\ installed = FALSE
    /\ rstep = "idle" /\ op = "none" /\ last = FALSE /\ cause = "ok" /\ late = FALSE
    /\ clock = "grace" /\ forced = FALSE /\ ret = "ok"

\* Mutant: an unconfirmed cleanup is an ordinary scenario failure.
FailureCodeWithoutCleanup(error) ==
    IF error = "start" THEN "caller_start_failed" ELSE "scenario_execution_failed"

\* FailureCode
FailureCode(error) ==
    CASE error = "start"   -> "caller_start_failed"
      [] error = "cleanup" -> "internal_failure"
      [] OTHER             -> "scenario_execution_failed"

-----------------------------------------------------------------------------
(* The child, its descendants, and time *)

\* A descendant that keeps the caller's group, with or without its output.
ChildForks ==
    /\ child = "running" /\ kin = "none" /\ ~killed
    /\ kin' \in IF closed THEN {"quiet"} ELSE {"holds", "quiet"}
    /\ UNCHANGED <<child, gateway, closed, noisy, exitOK, killed, ctx, installed, rstep, callVars, clock, forced, ret>>

\* ServiceRunner.Start in the caller: Setpgid, and pipes to the caller only.
GatewayStarts ==
    /\ child = "running" /\ ~gateway /\ ~killed
    /\ gateway' = TRUE
    /\ UNCHANGED <<child, kin, closed, noisy, exitOK, killed, ctx, installed, rstep, callVars, clock, forced, ret>>

\* Mutant: the Gateway does not take EOF of its control pipe for an end.
GatewayExitsWhenTold ==
    /\ gateway /\ child = "running"
    /\ gateway' = FALSE
    /\ UNCHANGED <<child, kin, closed, noisy, exitOK, killed, ctx, installed, rstep, callVars, clock, forced, ret>>

\* Serve returns: told to stop, at its deadline, or on EOF of the control pipe,
\* whose only writer is the caller.
GatewayExits ==
    /\ gateway
    /\ gateway' = FALSE
    /\ UNCHANGED <<child, kin, closed, noisy, exitOK, killed, ctx, installed, rstep, callVars, clock, forced, ret>>

ChildWritesMore ==
    /\ ~noisy /\ ((child = "running" /\ ~closed) \/ kin = "holds")
    /\ noisy' = TRUE
    /\ UNCHANGED <<child, kin, gateway, closed, exitOK, killed, ctx, installed, rstep, callVars, clock, forced, ret>>

ChildClosesOutput ==
    /\ child = "running" /\ ~closed
    /\ closed' = TRUE
    /\ UNCHANGED <<child, kin, gateway, noisy, exitOK, killed, ctx, installed, rstep, callVars, clock, forced, ret>>

\* callerapp.Run ends: with status 0 only after the scenarios have stopped
\* their Gateway and seen it exit (CallerScenarios!GatewaysAreOwned).
ChildExits ==
    /\ child = "running"
    /\ child' = "exited"
    /\ exitOK' \in IF killed \/ gateway THEN {FALSE} ELSE BOOLEAN
    /\ UNCHANGED <<kin, gateway, closed, noisy, killed, ctx, installed, rstep, callVars, clock, forced, ret>>

KinExits ==
    /\ kin # "none"
    /\ kin' = "none"
    /\ UNCHANGED <<child, gateway, closed, noisy, exitOK, killed, ctx, installed, rstep, callVars, clock, forced, ret>>

\* The 1800 second process timeout.
ProcessDeadline ==
    /\ ctx = "live" /\ child \in {"running", "exited"}
    /\ ctx' = "expired"
    /\ UNCHANGED <<childVars, killed, installed, rstep, callVars, clock, forced, ret>>

\* Mutant: a late case only closes the private stdin.
CaseDeadlineClosesStdin ==
    /\ rstep = "reply" /\ ~late
    /\ late' = TRUE
    /\ UNCHANGED <<childVars, killed, ctx, installed, rstep, op, last, cause, clock, forced, ret>>

\* watchCancellation: the 120 second case deadline cancels the whole session.
CaseDeadline ==
    /\ rstep = "reply" /\ ~late
    /\ late' = TRUE
    /\ ctx' = IF ctx = "live" THEN "cancelled" ELSE ctx
    /\ UNCHANGED <<childVars, killed, installed, rstep, op, last, cause, clock, forced, ret>>

\* command.Cancel, run by os/exec when the context is done.
ContextKills ==
    /\ ctx # "live" /\ child \in {"running", "exited"} /\ ~killed
    /\ killed' = TRUE
    /\ UNCHANGED <<childVars, ctx, installed, rstep, callVars, clock, forced, ret>>

\* Two seconds of grace, then five seconds in all.
Tick ==
    /\ rstep \in Draining /\ clock # "over"
    /\ clock' = IF clock = "grace" THEN "reap" ELSE "over"
    /\ UNCHANGED <<childVars, killed, ctx, installed, rstep, callVars, forced, ret>>

-----------------------------------------------------------------------------
(* Returning and aborting *)

Return(error) ==
    /\ rstep' = "returned"
    /\ ret' = error

\* Session.cancel and terminateProcessGroup.
CancelAndKill ==
    /\ killed' = TRUE
    /\ ctx' = IF ctx = "live" THEN "cancelled" ELSE ctx

\* Session.abort up to its waitAndDrain(false): no grace.
Abort(fallback) ==
    /\ rstep' = "drain" /\ clock' = "grace" /\ forced' = TRUE
    /\ cause' = IF ctx = "expired" THEN "timeout" ELSE fallback
    /\ CancelAndKill
    /\ UNCHANGED <<childVars, installed, op, last, late, ret>>

-----------------------------------------------------------------------------
(* Runner.Start *)

\* Everything that fails before there is a process: platform, executable,
\* pipes, deadline, request, fork.
StartRefused ==
    /\ op' = "start" /\ (\E e \in {"start", "io", "result"} : Return(e)) /\ late' = FALSE /\ UNCHANGED <<last, cause>>
    /\ UNCHANGED <<childVars, killed, ctx, installed, clock, forced>>

StartSpawns(isLast) ==
    /\ child = "none"
    /\ child' = "running" /\ rstep' = "request" /\ op' = "start" /\ last' = isLast /\ late' = FALSE
    /\ UNCHANGED <<kin, gateway, closed, noisy, exitOK, killed, ctx, installed, cause, clock, forced, ret>>

\* The request and the credential pipes; a write that fails aborts.
SendRequest ==
    /\ rstep = "request"
    /\ \/ /\ rstep' = "reply"
          /\ UNCHANGED <<childVars, killed, ctx, installed, callVars, clock, forced, ret>>
       \/ Abort("io")

-----------------------------------------------------------------------------
(* Runner.Run *)

\* Without a session Run returns ErrProcessResult; the driver never asks that.
RunBegins(isLast) ==
    /\ installed
    /\ op' = "run" /\ rstep' = "command" /\ last' = isLast /\ late' = FALSE
    /\ UNCHANGED <<childVars, killed, ctx, installed, cause, clock, forced, ret>>

\* No time is left, stdin is broken, or the command is written.
SendCommand ==
    /\ rstep = "command"
    /\ \/ ctx = "expired" /\ Abort("timeout")
       \/ ctx # "expired" /\ Abort("io")
       \/ /\ ctx = "live" /\ rstep' = "reply"
          /\ UNCHANGED <<childVars, killed, ctx, installed, callVars, clock, forced, ret>>

\* Mutant: the last result ends the session without the closing handshake.
ReplyAcceptedAtOnce ==
    /\ rstep = "reply"
    /\ Return("ok") /\ installed' = ~last
    /\ UNCHANGED <<childVars, killed, ctx, callVars, clock, forced>>

\* A result bound to this invocation, phase, case and PID.  Start installs the
\* session; the last case closes stdin and finishes with waitAndDrain(true).
ReplyAccepted ==
    /\ rstep = "reply"
    /\ \/ /\ ~last
          /\ Return("ok") /\ installed' = TRUE
          /\ UNCHANGED <<childVars, killed, ctx, callVars, clock, forced>>
       \/ /\ last
          /\ rstep' = "drain" /\ cause' = "finish" /\ clock' = "grace" /\ forced' = FALSE
          /\ UNCHANGED <<childVars, killed, ctx, installed, op, last, late, ret>>

\* Nobody holds the write end of the output pipes.
OutputAtEOF == (child # "running" \/ closed) /\ kin # "holds"

\* EOF, or a record that does not decode or does not bind.
ReplyRejected ==
    /\ rstep = "reply"
    /\ OutputAtEOF \/ noisy
    /\ Abort(IF late THEN "timeout" ELSE "result")

-----------------------------------------------------------------------------
(* Runner.Close *)

CloseWithoutSession ==
    /\ ~installed
    /\ op' = "close" /\ Return("ok") /\ late' = FALSE /\ UNCHANGED <<last, cause>>
    /\ UNCHANGED <<childVars, killed, ctx, installed, clock, forced>>

CloseBegins ==
    /\ installed
    /\ op' = "close" /\ rstep' = "drain" /\ clock' = "grace" /\ forced' = TRUE
    /\ cause' = IF ctx = "expired" THEN "timeout" ELSE "ok"
    /\ CancelAndKill
    /\ UNCHANGED <<childVars, installed, last, late, ret>>

-----------------------------------------------------------------------------
(* Session.waitAndDrain *)

\* Cleanup could not be confirmed: one more kill, and the session is over.
Unconfirmed ==
    /\ Return("cleanup") /\ installed' = FALSE /\ killed' = TRUE
    /\ UNCHANGED <<childVars, ctx, callVars, clock, forced>>

DrainDone ==
    /\ rstep = "drain" /\ OutputAtEOF
    /\ rstep' = "wait"
    /\ UNCHANGED <<childVars, killed, ctx, installed, callVars, clock, forced, ret>>

\* Grace is over while draining, or later while waiting.
GraceOver ==
    /\ rstep \in {"drain", "wait"} /\ ~forced /\ clock # "grace"
    /\ forced' = TRUE
    /\ CancelAndKill
    /\ UNCHANGED <<childVars, installed, rstep, callVars, clock, ret>>

\* The limit is reached with a pipe still open or a child not reaped.
ReapLimit ==
    /\ rstep \in {"drain", "wait"} /\ forced /\ clock = "over"
    /\ Unconfirmed

\* command.Wait; its error is the exit status, or the context's when os/exec
\* sees the context done first.
Reap ==
    /\ rstep = "wait" /\ child = "exited"
    /\ child' = "reaped" /\ rstep' = "sweep"
    /\ exitOK' \in {exitOK} \cup (IF ctx = "live" THEN {} ELSE {FALSE})
    /\ UNCHANGED <<kin, gateway, closed, noisy, killed, ctx, installed, callVars, clock, forced, ret>>

\* The error of finish, and of abort, after a confirmed cleanup.
FinishError ==
    IF ctx = "expired" THEN "timeout"
    ELSE IF ~exitOK THEN "exit"
    ELSE IF noisy THEN "io" ELSE "ok"

SessionError == IF cause = "finish" THEN FinishError ELSE cause

\* Mutant: a child that is reaped is taken for the whole group.
SweepSkipped ==
    /\ rstep = "sweep"
    /\ Return(SessionError) /\ installed' = FALSE
    /\ ctx' = IF ctx = "live" THEN "cancelled" ELSE ctx
    /\ UNCHANGED <<childVars, killed, callVars, clock, forced>>

\* The last kill, for descendants in the group that outlived the child; the
\* Gateway has left the group.  It may fail with something other than ESRCH.
Sweep ==
    /\ rstep = "sweep"
    /\ installed' = FALSE
    /\ ctx' = IF ctx = "live" THEN "cancelled" ELSE ctx
    /\ \/ Return(SessionError) /\ killed' = TRUE
       \/ Return("cleanup") /\ UNCHANGED killed
    /\ UNCHANGED <<childVars, callVars, clock, forced>>

\* What the processes do, what time does, and what the call in progress does.
Processes ==
    \/ ChildForks \/ GatewayStarts \/ GatewayExits
    \/ ChildWritesMore \/ ChildClosesOutput \/ ChildExits \/ KinExits

Timers == ProcessDeadline \/ CaseDeadline \/ ContextKills \/ Tick

CallWorks ==
    \/ SendRequest \/ SendCommand \/ ReplyRejected
    \/ DrainDone \/ GraceOver \/ ReapLimit \/ Reap \/ Sweep

CallProceeds == CallWorks \/ ReplyAccepted

\* The adapter's goroutine runs, timers fire, os/exec acts on a done context and
\* SIGKILL takes effect.  The child need not answer, and need not stop its
\* Gateway; with the child gone the control pipe is at EOF and the Gateway ends.
CallerFairness ==
    /\ WF_callerVars(CallWorks)
    /\ WF_callerVars(Tick)
    /\ WF_callerVars(CaseDeadline)
    /\ WF_callerVars(ContextKills)
    /\ WF_callerVars(killed /\ ChildExits)
    /\ WF_callerVars(killed /\ KinExits)
    /\ WF_callerVars(child # "running" /\ GatewayExits)

=============================================================================
