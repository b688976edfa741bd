-------------------------- MODULE CoordinatorPhase --------------------------
(***************************************************************************)
(* The sequential composition of one caller phase: RunWithCoordinator         *)
(* (callerapp/run.go), callerphase.Coordinate, the Provider phase it runs     *)
(* (callerprovider.Run) and GrantAndRevoke (callerterminal/authority.go).     *)
(*                                                                         *)
(* Coordinate owns a state store, a Gateway service, the accesses of two      *)
(* controllers and a terminal authority, and gives each back through a        *)
(* deferred call.  Beside it run the phase's context, the Gateway process and *)
(* the goroutine of the terminal bridge, which dials the Provider through the *)
(* authority while a grant is live.                                          *)
(*                                                                         *)
(* A durable stage is also the revision of the state; documents keep only     *)
(* whether they were accepted.                                               *)
(***************************************************************************)
EXTENDS Integers, Sequences

CONSTANT MaxPollAttempts  \* maxPollAttempts: attempts of one poll or read

ASSUME PollAssumption == MaxPollAttempts \in Nat \ {0}

Phases == {"initial", "reconstruction"}
Controllers == {"a", "b"}
Ops == {"create", "exec", "session"}

\* Durable stages; 0: an empty root.
Empty == 0
Planned == 1
CapabilitiesBound == 2
LifecycleBound == 3
ExecBound == 4
TerminalBound == 5
InitialComplete == 6

\* Exit codes; Running before the process exits.
Running == -1
ExitSuccess == 0
ExitUsage == 64
ExitData == 65
ExitSoftware == 70
ExitIO == 74

VARIABLES
    phase,      \* the request's phase
    root,       \* stage found in the state root
    disk,       \* stage in the state root
    pc,         \* next call of RunWithCoordinator, Coordinate or Run
    at,         \* position in the script of the Provider phase
    attempt,    \* attempt of the current poll or read
    ok,         \* Coordinate has come to its last return
    live,       \* the phase's context has not ended
    bundle,     \* the credential bundle
    store,      \* the state store is open
    access,     \* the access of each controller
    authority,  \* the terminal authority
    gateway,    \* the Gateway service
    clean,      \* cleanStop: Stop has succeeded
    backend,    \* the bridge has the authority's Open
    grant,      \* the Gateway's grant
    dial,       \* the bridge's goroutine
    op, ready,  \* Provider: operations, and whether the sandbox is ready
    exit        \* exit code

heldVars == <<bundle, store, access, authority>>
gatewayVars == <<gateway, clean, backend, grant, dial>>
providerVars == <<op, ready>>
vars == <<phase, root, disk, pc, at, attempt, ok, live, heldVars, gatewayVars, providerVars, exit>>

\* Every variable has its type.
TypeOK ==
    /\ phase \in Phases /\ root \in Empty..InitialComplete /\ disk \in Empty..InitialComplete
    /\ pc \in {"request", "coordinate", "start", "policy", "access-a", "access-b", "steps", "check",
               "backend", "grant", "revoke", "stop", "stopping", "final",
               "close-authority", "reap", "close-store", "result", "exited"}
    /\ at \in Nat \ {0} /\ attempt \in 1..MaxPollAttempts
    /\ ok \in BOOLEAN /\ live \in BOOLEAN /\ store \in BOOLEAN
    /\ clean \in BOOLEAN /\ backend \in BOOLEAN /\ ready \in BOOLEAN
    /\ bundle \in {"none", "held", "destroyed"}
    /\ access \in [Controllers -> {"none", "open", "closed"}]
    /\ authority \in {"none", "bound", "closed"}
    /\ gateway \in {"none", "running", "exiting", "reaped"}
    /\ grant \in {"none", "issued", "revoked"}
    /\ dial \in {"idle", "opening", "dialling", "open", "over"}
    /\ op \in [Ops -> {"none", "accepted", "succeeded", "failed"}]
    /\ exit \in {Running, ExitSuccess, ExitUsage, ExitData, ExitSoftware, ExitIO}

Init ==
    /\ phase \in Phases /\ root \in Empty..InitialComplete /\ disk = root
    /\ pc = "request" /\ at = 1 /\ attempt = 1 /\ ok = FALSE /\ live = TRUE
    /\ bundle = "none" /\ store = FALSE
    /\ access = [c \in Controllers |-> "none"] /\ authority = "none"
    /\ gateway = "none" /\ clean = FALSE /\ backend = FALSE /\ grant = "none" /\ dial = "idle"
    /\ op = [o \in Ops |-> IF o = "create" /\ root = InitialComplete THEN "succeeded" ELSE "none"]
    /\ ready = FALSE
    /\ exit = Running

-----------------------------------------------------------------------------
(* The Provider phase as a script: what runInitial with runExecTerminal, and  *)
(* runReconstruction, do in order.                                           *)

Discover == [do |-> "discover"]                 \* DiscoverCapabilitiesDocument and its checks
Mutate(o) == [do |-> "mutate", of |-> o]        \* request, admission and submission, once
WaitOperation(o) == [do |-> "wait", of |-> o]
WaitSandboxReady == [do |-> "ready"]
ReadRetained == [do |-> "read"]                 \* a document and its checks
NotEnded == [do |-> "live"]                     \* ctx.Err() = nil
Bind(s) == [do |-> "bind", stage |-> s]

RunExecTerminal ==
    <<Mutate("exec"), WaitOperation("exec"), ReadRetained, ReadRetained, NotEnded, Bind(ExecBound),
      Mutate("session"), WaitOperation("session"), ReadRetained, NotEnded, Bind(TerminalBound)>>
RunInitial ==
    <<Discover, Discover, Bind(CapabilitiesBound), Mutate("create"), WaitOperation("create"),
      WaitSandboxReady, Bind(LifecycleBound)>> \o RunExecTerminal
RunReconstruction == <<Discover, WaitOperation("create"), WaitSandboxReady>>

Script == IF phase = "initial" THEN RunInitial ELSE RunReconstruction
Step == Script[at]
Stepping(what) == pc = "steps" /\ at <= Len(Script) /\ Step.do = what

-----------------------------------------------------------------------------
(* RunWithCoordinator and Coordinate up to the Provider phase                 *)

Goto(where) == pc' = where

\* Coordinate returns an error: its deferred calls run, the last one first.
Fail == Goto("close-authority")

\* The request and the credential channels are read and validated; a bundle
\* that was read and refused is destroyed.  These reads take no context: they end
\* when the adapter has written its pipes or closed them.
ReadRequest ==
    /\ pc = "request"
    /\ \/ Goto("coordinate") /\ bundle' = "held" /\ UNCHANGED exit
       \/ Goto("exited") /\ exit' = ExitUsage /\ UNCHANGED bundle
       \/ Goto("exited") /\ exit' = ExitData /\ bundle' \in {"none", "destroyed"}
    /\ UNCHANGED <<phase, root, disk, at, attempt, ok, live, store, access, authority, gatewayVars, providerVars>>

\* CreateInitial wants an empty root, OpenReconstruction a complete one.
OpensStore == IF phase = "initial" THEN disk = Empty ELSE disk = InitialComplete

\* The deadline is checked before the state is touched; the context may have ended.
\* A new state may be durable although CreateInitial failed.
OpenStore ==
    /\ pc = "coordinate"
    /\ \/ /\ live /\ OpensStore /\ Goto("start") /\ store' = TRUE
          /\ disk' = IF phase = "initial" THEN Planned ELSE disk
       \/ /\ Fail /\ UNCHANGED store
          /\ disk' \in {disk, IF phase = "initial" /\ OpensStore THEN Planned ELSE disk}
    /\ UNCHANGED <<phase, root, at, attempt, ok, live, bundle, access, authority, gatewayVars, providerVars, exit>>

\* The injected starter may fail and still return the service it launched.
StartGateway ==
    /\ pc = "start"
    /\ \/ live /\ Goto("policy") /\ gateway' = "running"
       \/ Fail /\ gateway' \in {"none", "running"}
    /\ UNCHANGED <<phase, root, disk, at, attempt, ok, live, heldVars, clean, backend, grant, dial, providerVars, exit>>

InstallPolicy ==
    /\ pc = "policy"
    /\ (live /\ gateway = "running" /\ Goto("access-a")) \/ Fail
    /\ UNCHANGED <<phase, root, disk, at, attempt, ok, live, heldVars, gatewayVars, providerVars, exit>>

-----------------------------------------------------------------------------
(* Run: the accesses and the script                                          *)

AccessOf == [a |-> "access-a", b |-> "access-b"]

\* The second controller is needed in the initial phase only.  When its access
\* cannot be built the first one is not closed.
BuildAccess(c) ==
    /\ pc = AccessOf[c]
    /\ \/ /\ live \/ c = "b"
          /\ access' = [access EXCEPT ![c] = "open"]
          /\ Goto(IF c = "a" /\ phase = "initial" THEN AccessOf["b"] ELSE "steps")
       \/ Fail /\ UNCHANGED access
    /\ UNCHANGED <<phase, root, disk, at, attempt, ok, live, bundle, store, authority, gatewayVars, providerVars, exit>>

AllClosed == [c \in Controllers |-> IF access[c] = "open" THEN "closed" ELSE access[c]]

NextStep == at' = at + 1 /\ attempt' = 1 /\ Goto("steps")
Retry == attempt < MaxPollAttempts /\ attempt' = attempt + 1 /\ UNCHANGED at /\ Goto("steps")

\* Any step may fail: refused before it is sent, lost, answered with an error or
\* a document that does not match, too late, or out of attempts.  run closes
\* every access it built.
StepFails ==
    /\ pc = "steps" /\ at <= Len(Script)
    /\ Fail /\ access' = AllClosed
    /\ UNCHANGED <<phase, root, disk, at, attempt, ok, live, bundle, store, authority, gatewayVars, providerVars, exit>>

\* A mutation is handled although its answer is lost; nothing submits it again.
SubmitLost ==
    /\ Stepping("mutate")
    /\ op' = [op EXCEPT ![Step.of] = "accepted"]
    /\ Fail /\ access' = AllClosed
    /\ UNCHANGED <<phase, root, disk, at, attempt, ok, live, bundle, store, authority, gatewayVars, ready, exit>>

Submit ==
    /\ Stepping("mutate") /\ live
    /\ op' = [op EXCEPT ![Step.of] = "accepted"]
    /\ NextStep
    /\ UNCHANGED <<phase, root, disk, ok, live, heldVars, gatewayVars, ready, exit>>

\* Mutant: a poll takes every successful mutation status for the end.
PollsDoneEarly ==
    CASE Step.do = "wait" -> op[Step.of] \in {"accepted", "succeeded"}
      [] Step.do = "ready" -> ready
      [] Step.do = "read" -> TRUE

\* What ends a poll or a read; anything unfinished is asked again.
PollsDone ==
    CASE Step.do = "wait" -> op[Step.of] = "succeeded"
      [] Step.do = "ready" -> ready
      [] Step.do = "read" -> TRUE

Poll ==
    /\ Stepping("wait") \/ Stepping("ready") \/ Stepping("read")
    /\ live
    /\ \/ PollsDone /\ NextStep
       \/ (~PollsDone \/ Step.do = "read") /\ Retry
    /\ UNCHANGED <<phase, root, disk, ok, live, heldVars, gatewayVars, providerVars, exit>>

\* Discovery, and the look at the context before a bind.
Checked ==
    /\ Stepping("discover") \/ Stepping("live")
    /\ live /\ NextStep
    /\ UNCHANGED <<phase, root, disk, ok, live, heldVars, gatewayVars, providerVars, exit>>

\* The bind does not look at the context; it may be durable and reported failed.
BindStage ==
    /\ Stepping("bind") /\ disk' = Step.stage
    /\ \/ NextStep /\ UNCHANGED access
       \/ Fail /\ access' = AllClosed /\ UNCHANGED <<at, attempt>>
    /\ UNCHANGED <<phase, root, ok, live, bundle, store, authority, gatewayVars, providerVars, exit>>

\* Run returns: in the initial phase the authority owns controller A's access.
RunReturns ==
    /\ pc = "steps" /\ at > Len(Script)
    /\ \/ /\ phase = "initial"
          /\ authority' = "bound" /\ access' = [access EXCEPT !["b"] = "closed"]
          /\ Goto("check")
       \/ /\ phase = "reconstruction"
          /\ access' = AllClosed /\ UNCHANGED authority
          /\ Goto("stop")
    /\ UNCHANGED <<phase, root, disk, at, attempt, ok, live, bundle, store, gatewayVars, providerVars, exit>>

-----------------------------------------------------------------------------
(* Coordinate after the Provider phase                                       *)

\* The stage, the plan and ValidateUnchanged.
CheckState ==
    /\ pc = "check"
    /\ (disk = TerminalBound /\ Goto("backend")) \/ Fail
    /\ UNCHANGED <<phase, root, disk, at, attempt, ok, live, heldVars, gatewayVars, providerVars, exit>>

SetBackend ==
    /\ pc = "backend"
    /\ \/ live /\ gateway = "running" /\ backend' = TRUE /\ Goto("grant")
       \/ Fail /\ UNCHANGED backend
    /\ UNCHANGED <<phase, root, disk, at, attempt, ok, live, heldVars, gateway, clean, grant, dial, providerVars, exit>>

\* The Gateway issues the grant; its reply or its token may be unusable.
IssueGrant ==
    /\ pc = "grant"
    /\ \/ gateway = "running" /\ grant' = "issued" /\ ((live /\ Goto("revoke")) \/ Fail)
       \/ Fail /\ UNCHANGED grant
    /\ UNCHANGED <<phase, root, disk, at, attempt, ok, live, heldVars, gateway, clean, backend, dial, providerVars, exit>>

Revoke ==
    /\ pc = "revoke"
    /\ \/ gateway = "running" /\ grant' = "revoked" /\ ((live /\ Goto("stop")) \/ Fail)
       \/ Fail /\ UNCHANGED grant
    /\ UNCHANGED <<phase, root, disk, at, attempt, ok, live, heldVars, gateway, clean, backend, dial, providerVars, exit>>

\* Stop sends the command, reads the reply and EOF and reaps.
Stop ==
    /\ pc = "stop"
    /\ \/ live /\ gateway = "running" /\ gateway' = "exiting" /\ Goto("stopping")
       \/ Fail /\ UNCHANGED gateway
    /\ UNCHANGED <<phase, root, disk, at, attempt, ok, live, heldVars, clean, backend, grant, dial, providerVars, exit>>

StopReturns ==
    /\ pc = "stopping"
    /\ \/ gateway = "reaped" /\ clean' = TRUE /\ Goto("final")
       \/ Fail /\ UNCHANGED clean
    /\ UNCHANGED <<phase, root, disk, at, attempt, ok, live, heldVars, gateway, backend, grant, dial, providerVars, exit>>

\* The last look at the state, and the close of the store, which may fail.
FinalCheck ==
    /\ pc = "final"
    /\ \/ /\ disk = IF phase = "initial" THEN TerminalBound ELSE root
          /\ store' = FALSE /\ ok' = TRUE
       \/ UNCHANGED <<store, ok>>
    /\ Goto("close-authority")
    /\ UNCHANGED <<phase, root, disk, at, attempt, live, bundle, access, authority, gatewayVars, providerVars, exit>>

\* terminal.Close(): the authority's closer closes controller A's access.
CloseAuthority ==
    /\ pc = "close-authority"
    /\ \/ authority = "bound" /\ authority' = "closed" /\ access' = [access EXCEPT !["a"] = "closed"]
       \/ authority # "bound" /\ UNCHANGED <<authority, access>>
    /\ Goto("reap")
    /\ UNCHANGED <<phase, root, disk, at, attempt, ok, live, bundle, store, gatewayVars, providerVars, exit>>

\* Mutant: the deferred call cancels and does not wait.
ReapCancelsOnly ==
    /\ pc = "reap" /\ live' = FALSE /\ Goto("close-store")
    /\ UNCHANGED <<phase, root, disk, at, attempt, ok, heldVars, gatewayVars, providerVars, exit>>

\* Mutant: the deferred call waits and does not cancel.
ReapWaitsOnly ==
    /\ pc = "reap" /\ gateway \in {"none", "reaped"} /\ Goto("close-store")
    /\ UNCHANGED <<phase, root, disk, at, attempt, ok, live, heldVars, gatewayVars, providerVars, exit>>

\* cancel(), then service.Wait() unless Stop has reaped the service or none started.
Reap ==
    /\ pc = "reap"
    /\ live' = FALSE
    /\ Goto(IF gateway \in {"none", "reaped"} THEN "close-store" ELSE "reap")
    /\ UNCHANGED <<phase, root, disk, at, attempt, ok, heldVars, gatewayVars, providerVars, exit>>

CloseStore ==
    /\ pc = "close-store" /\ store' = FALSE /\ Goto("result")
    /\ UNCHANGED <<phase, root, disk, at, attempt, ok, live, bundle, access, authority, gatewayVars, providerVars, exit>>

\* RunWithCoordinator destroys the bundle and writes the result.
WriteResult ==
    /\ pc = "result" /\ bundle' = "destroyed" /\ Goto("exited")
    /\ exit' \in IF ok THEN {ExitSuccess, ExitData, ExitIO} ELSE {ExitSoftware}
    /\ UNCHANGED <<phase, root, disk, at, attempt, ok, live, store, access, authority, gatewayVars, providerVars>>

-----------------------------------------------------------------------------
(* The context, the Gateway, the bridge's goroutine and the Provider          *)

ContextEnds ==
    /\ live /\ pc # "exited" /\ live' = FALSE
    /\ UNCHANGED <<phase, root, disk, pc, at, attempt, ok, heldVars, gatewayVars, providerVars, exit>>

\* The child's Serve returns, or watchParent kills it when the context ends.
GatewayExits ==
    /\ gateway = "running" /\ gateway' = "exiting"
    /\ UNCHANGED <<phase, root, disk, pc, at, attempt, ok, live, heldVars, clean, backend, grant, dial, providerVars, exit>>

\* waitProcess closes the bridge, and waits for its goroutine, before done.
GatewayReaped ==
    /\ gateway = "exiting" /\ dial \in {"idle", "over"} /\ gateway' = "reaped"
    /\ UNCHANGED <<phase, root, disk, pc, at, attempt, ok, live, heldVars, clean, backend, grant, dial, providerVars, exit>>

\* Authority.Open: its checks; the opener is looked up under the mutex, and called
\* after it is released.
AuthorityOpen ==
    /\ dial = "idle" /\ gateway = "running" /\ grant = "issued" /\ backend
    /\ (authority = "bound" /\ dial' = "opening") \/ dial' = "over"
    /\ UNCHANGED <<phase, root, disk, pc, at, attempt, ok, live, heldVars, gateway, clean, backend, grant, providerVars, exit>>

\* The opener signs an admission with controller A's key, unless it is destroyed.
OpenerSigns ==
    /\ dial = "opening"
    /\ (access["a"] = "open" /\ dial' = "dialling") \/ dial' = "over"
    /\ UNCHANGED <<phase, root, disk, pc, at, attempt, ok, live, heldVars, gateway, clean, backend, grant, providerVars, exit>>

\* The handshake may have been made before the certificates were cleared.
OpenerDials ==
    /\ dial = "dialling" /\ dial' \in {"open", "over"}
    /\ UNCHANGED <<phase, root, disk, pc, at, attempt, ok, live, heldVars, gateway, clean, backend, grant, providerVars, exit>>

StreamEnds ==
    /\ dial = "open" /\ dial' = "over"
    /\ UNCHANGED <<phase, root, disk, pc, at, attempt, ok, live, heldVars, gateway, clean, backend, grant, providerVars, exit>>

OperationEnds(o) ==
    /\ op[o] = "accepted"
    /\ op' \in {[op EXCEPT ![o] = s] : s \in {"succeeded", "failed"}}
    /\ UNCHANGED <<phase, root, disk, pc, at, attempt, ok, live, heldVars, gatewayVars, ready, exit>>

SandboxReady ==
    /\ op["create"] = "succeeded" /\ ~ready /\ ready' = TRUE
    /\ UNCHANGED <<phase, root, disk, pc, at, attempt, ok, live, heldVars, gatewayVars, op, exit>>

-----------------------------------------------------------------------------
Answered == Submit \/ SubmitLost \/ Poll \/ Checked \/ BindStage

Coordinating ==
    \/ ReadRequest \/ OpenStore \/ StartGateway \/ InstallPolicy
    \/ \E c \in Controllers : BuildAccess(c)
    \/ StepFails \/ RunReturns \/ CheckState \/ SetBackend \/ IssueGrant \/ Revoke
    \/ Stop \/ StopReturns \/ FinalCheck

Deferred == CloseAuthority \/ Reap \/ CloseStore \/ WriteResult

BridgeEnds == OpenerSigns \/ OpenerDials \/ StreamEnds

Next ==
    \/ Coordinating \/ Answered \/ Deferred
    \/ ContextEnds \/ GatewayExits \/ GatewayReaped \/ AuthorityOpen \/ BridgeEnds
    \/ (\E o \in Ops : OperationEnds(o)) \/ SandboxReady

\* The caller's own steps are fair; a call of Coordinate that waits for somebody
\* else returns once the context has ended.  Then the service is killed and its
\* bridge closed.  Neither the deadline nor an answer nor the request is assumed
\* to come.
Fairness ==
    /\ WF_vars(Deferred) /\ WF_vars(~live /\ pc # "request" /\ Coordinating)
    /\ WF_vars(~live /\ GatewayExits) /\ WF_vars(GatewayReaped)
    /\ WF_vars(gateway = "exiting" /\ BridgeEnds)

Spec == Init /\ [][Next]_vars
FairSpec == Spec /\ Fairness

-----------------------------------------------------------------------------
(* Properties *)

\* What is durable and what exit status 0 claims was earned: this run's stages
\* follow the Provider's effects, a root that was not empty keeps its stage, and
\* success means a complete phase, a revoked grant and a service that Stop reaped.
CompletionIsEarned ==
    /\ root # Empty => disk = root
    /\ root = Empty /\ disk >= LifecycleBound => op["create"] = "succeeded" /\ ready
    /\ root = Empty /\ disk >= ExecBound => op["exec"] = "succeeded"
    /\ root = Empty /\ disk >= TerminalBound => op["session"] = "succeeded"
    /\ exit = ExitSuccess =>
          /\ clean /\ disk = IF phase = "initial" THEN TerminalBound ELSE InitialComplete
          /\ phase = "initial" => grant = "revoked"

\* Whichever step failed, the process exits with the Gateway reaped, no stream to
\* the Provider open or being opened (not by an opener that was looked up before
\* the authority closed either), the store closed, the credentials destroyed and
\* the accesses closed; only the first access of a phase whose second one could
\* not be built is left open.
NothingLeftBehind ==
    pc = "exited" =>
        /\ gateway \in {"none", "reaped"} /\ dial \in {"idle", "over"}
        /\ ~store /\ bundle # "held"
        /\ \A c \in Controllers :
              access[c] = "open" => phase = "initial" /\ c = "a" /\ access["b"] = "none"

\* Once the request has been read and the context has ended, or a deferred call
\* has begun, the process exits: the cancelled service is reaped without waiting
\* for the phase's deadline.
PhaseReturns == ((~live /\ pc # "request") \/ pc = "close-authority") ~> (pc = "exited")

=============================================================================
