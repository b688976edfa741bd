--------------------------- MODULE CallerScenarios ---------------------------
(***************************************************************************)
(* The external caller: callerapp.RunWithScenarios and the executor it       *)
(* drives (internal/callerprovider, the InitialScenarioExecutor).            *)
(*                                                                         *)
(* One caller process runs the cases of one phase, in order, each under the  *)
(* deadline of its command.  A case is the script of what its Go function    *)
(* does: sign admissions, call the Provider with retries and polls, drive    *)
(* the Gateway, check and bind the durable state.  A second process then     *)
(* reconstructs everything from the state the first one left on disk.        *)
(*                                                                         *)
(* The Provider and the Gateway service are outside: the Provider turns      *)
(* requests away, consumes admissions without effect, dispatches without     *)
(* recording, answers late or never, and may wrongly dispatch what it should *)
(* refuse.  A request identity (JTI) is its operation and the number of the  *)
(* admission it was signed with.  Documents keep only whether they are the   *)
(* ones the caller bound; time keeps only how close the deadline is.         *)
(***************************************************************************)
EXTENDS Integers, Sequences, FiniteSets

CONSTANT MaxPollAttempts  \* maxPollAttempts: attempts of one read or poll

ASSUME PollAssumption == MaxPollAttempts \in Nat \ {0, 1}

Phases == {"initial", "reconstruction"}

\* Durable stages; a stage is also the store's revision.  0: no state yet.
Planned == 1
CapabilitiesBound == 2
LifecycleBound == 3
ExecBound == 4
TerminalBound == 5
InitialComplete == 6

\* Mutations the caller submits; "stale" and "cross" are to be refused.
Ops == {"create", "exec", "stale", "cancellable", "cancel", "terminal", "artifact", "cross"}
\* Documents the caller reads.
Docs == {"capability", "result", "usage", "cancelled", "handoff", "artifact"}
\* What a document belongs to; capabilities belong to no operation.
OwnerOf == [result |-> "exec", usage |-> "exec", cancelled |-> "cancellable",
            handoff |-> "terminal", artifact |-> "artifact"]

\* Exit codes of the caller process; Running before it exits.
Running == -1
ExitSuccess == 0
ExitData == 65
ExitSoftware == 70
ExitIO == 74

VARIABLES
    phase,      \* phase of the running (or last) caller process
    pc,         \* where RunWithScenarios is
    next,       \* InitialScenarioExecutor.next: cases executed
    at,         \* position in the script of the case being executed
    attempt,    \* attempt of the current call
    left,       \* time to the case's deadline: 2 more than a second, 0 none
    wire,       \* the HTTP exchange of the current call
    answer,     \* its answer
    kept,       \* what the executor holds between cases
    mine,       \* what the case being executed holds
    adm,        \* admissions signed for each mutation
    retried,    \* the stale request saw a retryable answer
    disk,       \* revision of the caller's durable state
    reported,   \* results written to the adapter, by phase
    exit,       \* exit code, by phase
    stopFailed, \* some Gateway could not be stopped
    late,       \* requests given up on that the Provider may still handle
    used,       \* Provider: admissions consumed
    ops,        \* Provider: status of each recorded operation
    dispatched, \* Provider: times each mutation reached the runtime
    altered,    \* Provider: document that differs or expired after its restart
    gateways    \* Gateway service processes alive

caseVars == <<next, at, attempt, left, wire, answer>>
callerVars == <<phase, pc, caseVars, kept, mine, adm, retried, disk, reported, exit, stopFailed>>
providerVars == <<used, ops, dispatched, altered>>
vars == <<callerVars, late, providerVars, gateways>>

-----------------------------------------------------------------------------
(* Provider calls.  A call ends well on a "good" answer and is repeated, with *)
(* the same admission for a mutation and a new one for a read, on an "again"  *)
(* answer while attempts remain; any other answer fails the case.             *)

Mutation(op, good, again) ==
    [do |-> "call", sort |-> "mutation", of |-> op, good |-> good, again |-> again, tries |-> 2]
Read(sort, of, good, again) ==
    [do |-> "call", sort |-> sort, of |-> of, good |-> good, again |-> again,
     tries |-> MaxPollAttempts]

SuccessfulMutationStatus == {"accepted", "running", "succeeded"}
Throttled == {"429", "503"}

\* submitCreate and what executeCreate and executeReplay accept of its answer
SubmitCreate == Mutation("create", SuccessfulMutationStatus, Throttled)
\* submitCreateReplay: only a conflict ends it well
SubmitCreateReplay == Mutation("create", {"409"}, Throttled)
\* submitExec
SubmitExec(op, good) == Mutation(op, good, Throttled)
\* submitRejectedExec
SubmitRejectedExec == Mutation("stale", {"409"}, Throttled)
\* submitCancelExec
SubmitCancelExec == Mutation("cancel", SuccessfulMutationStatus, {"503"})
\* submitRuntimeSession
SubmitRuntimeSession == Mutation("terminal", SuccessfulMutationStatus, Throttled)
\* submitArtifact
SubmitArtifact == Mutation("artifact", SuccessfulMutationStatus, {"503"})
\* submitCrossTenantArtifact: controller B's admission for controller A's request
SubmitCrossTenantArtifact == Mutation("cross", {"403"}, {"503"})

\* Mutant: an operation the Provider has only accepted ends the poll.
PollAcceptsUnfinished(op, want) ==
    Read("operation", op, {want, "accepted"}, {"running", "503"})

\* pollExpectedOperationStatus and retryableReadOutcome
PollExpectedOperationStatus(op, want) ==
    Read("operation", op, {want}, {"accepted", "running", "503"})
\* pollReadySandbox
PollReadySandbox == Read("sandbox", "create", {"ready"}, {"provisioning", "503"})
\* readScenarioRetained and the validator of the document it reads
ReadScenarioRetained(doc) == Read("document", doc, {"document"}, {"503"})
\* readCrossTenantArtifactOperation
ReadCrossTenantArtifactOperation == Read("wrong-tenant", "artifact", {"404"}, {"503"})
\* readSandboxWithWrongMTLSCaller
ReadSandboxWithWrongMTLSCaller == Read("wrong-caller", "create", {"403"}, {"503"})
\* discoverCapabilities: needs no admission, and a refused one counts when denied
DiscoverAdmittedCapabilities == Read("discovery", "capability", {"document"}, {"503"})
DiscoverUnadmittedCapabilities == Read("denied-discovery", "capability", {"403"}, {"503"})

\* Reads whose every attempt is signed with a new admission (readAdmission).
SignedReads == {"operation", "sandbox", "document", "wrong-tenant", "wrong-caller"}

-----------------------------------------------------------------------------
(* The other steps of a case.                                                *)

Enter(stage, holding) == [do |-> "enter", stage |-> stage, holding |-> holding]
BuildAccess(actor) == [do |-> "build", actor |-> actor]  \* closed when the case returns
KeepAccess(actor) == [do |-> "keep", actor |-> actor]    \* kept in the executor
Sign(op) == [do |-> "sign", of |-> op]                   \* request and admission
ValidateUnchanged == [do |-> "check"]
NotExpired == [do |-> "live"]                            \* ctx.Err() = nil
Bind(stage) == [do |-> "bind", stage |-> stage]
StartGateway == [do |-> "start"]
Gateway(call) == [do |-> "gateway", call |-> call]       \* a Gateway or tunnel operation
StopGateway == [do |-> "stop"]
KeepGateway == [do |-> "own"]                            \* gateway and access of the case

\* What the scenario does with the Gateway before it can be dialled.
OpenGateway == <<StartGateway, Gateway("policy"), Gateway("backend"), Gateway("grant")>>

-----------------------------------------------------------------------------
(* The cases of the initial phase, in order.                                 *)

\* runCapabilityDiscoveryScenario
CapabilityDiscovery ==
    <<Enter(Planned, {}), BuildAccess("controller_a"), BuildAccess("controller_b"),
      BuildAccess("same_ca_unadmitted"), DiscoverAdmittedCapabilities,
      DiscoverAdmittedCapabilities, DiscoverUnadmittedCapabilities,
      Bind(CapabilitiesBound), ValidateUnchanged>>
\* executeCreate
Create == <<Enter(CapabilitiesBound, {}), KeepAccess("controller_a"), Sign("create"),
            SubmitCreate, ValidateUnchanged>>
\* executeReplay: the same admission again, then a new one for the same request
Replay == <<Enter(CapabilitiesBound, {"controller_a"}), SubmitCreateReplay, Sign("create"),
            SubmitCreate, ValidateUnchanged>>
\* executeLifecycleCompletion
LifecycleCompletion ==
    <<Enter(CapabilitiesBound, {"controller_a"}),
      PollExpectedOperationStatus("create", "succeeded"), PollReadySandbox,
      ValidateUnchanged, Bind(LifecycleBound)>>
\* executeExecResultUsage
ExecResultUsage ==
    <<Enter(LifecycleBound, {"controller_a"}), Sign("exec"),
      SubmitExec("exec", SuccessfulMutationStatus),
      PollExpectedOperationStatus("exec", "succeeded"), ReadScenarioRetained("result"),
      ReadScenarioRetained("usage"), ValidateUnchanged, NotExpired, Bind(ExecBound)>>
\* executeStaleFencing
StaleFencing ==
    <<Enter(ExecBound, {"controller_a"}), Sign("stale"), SubmitRejectedExec,
      ValidateUnchanged, NotExpired>>
\* executeExecCancellation
ExecCancellation ==
    <<Enter(ExecBound, {"controller_a"}), Sign("cancellable"),
      SubmitExec("cancellable", {"accepted", "running"}), Sign("cancel"), SubmitCancelExec,
      PollExpectedOperationStatus("cancel", "succeeded"),
      PollExpectedOperationStatus("cancellable", "cancelled"),
      ReadScenarioRetained("cancelled"), ValidateUnchanged, NotExpired>>
\* executeTerminalSession
TerminalSession ==
    <<Enter(ExecBound, {"controller_a"}), Sign("terminal"), SubmitRuntimeSession,
      PollExpectedOperationStatus("terminal", "succeeded"), ReadScenarioRetained("handoff"),
      ValidateUnchanged, NotExpired, Bind(TerminalBound)>>
\* executeGatewayRoundTrip
GatewayRoundTrip ==
    <<Enter(TerminalBound, {"controller_a"})>> \o OpenGateway \o
    <<Gateway("dial"), Gateway("challenge"), Gateway("hang-up"), NotExpired, StopGateway,
      ValidateUnchanged>>
\* executeGatewayAuthorityRejections
GatewayAuthorityRejections ==
    <<Enter(TerminalBound, {"controller_a"})>> \o OpenGateway \o
    <<Gateway("anonymous-refused"), NotExpired, Gateway("controller-b-refused"), NotExpired,
      StopGateway, ValidateUnchanged>>
\* executeGatewayGrantExpiry
GatewayGrantExpiry ==
    <<Enter(TerminalBound, {"controller_a"})>> \o OpenGateway \o
    <<Gateway("dial"), Gateway("challenge"), Gateway("closed-on-expiry"),
      Gateway("no-bytes"), NotExpired, StopGateway, ValidateUnchanged>>
\* executeGatewayRevocation
GatewayRevocation ==
    <<Enter(TerminalBound, {"controller_a"})>> \o OpenGateway \o
    <<Gateway("dial"), Gateway("challenge"), Gateway("revoke"), Gateway("closed"),
      Gateway("no-bytes"), NotExpired, StopGateway, ValidateUnchanged>>
\* executeArtifactStaging
ArtifactStaging ==
    <<Enter(TerminalBound, {"controller_a"}), Sign("artifact"), SubmitArtifact,
      PollExpectedOperationStatus("artifact", "succeeded"), ReadScenarioRetained("artifact"),
      ValidateUnchanged, NotExpired, Bind(InitialComplete)>>
\* executeCrossTenantArtifactRejection
CrossTenantArtifactRejection ==
    <<Enter(InitialComplete, {"controller_a"}), KeepAccess("controller_b"), Sign("cross"),
      SubmitCrossTenantArtifact, ReadCrossTenantArtifactOperation, ValidateUnchanged,
      NotExpired>>
\* executeMTLSCallerBindingRejection
MTLSCallerBindingRejection ==
    <<Enter(InitialComplete, {"controller_a", "controller_b"}), ReadSandboxWithWrongMTLSCaller,
      ValidateUnchanged, NotExpired>>

(* The cases of the reconstruction phase, in order.                          *)

\* executeReconstructionCapability
ReconstructionCapability ==
    <<Enter(InitialComplete, {}), BuildAccess("controller_a"), DiscoverAdmittedCapabilities,
      StartGateway, Gateway("policy"), ValidateUnchanged, NotExpired, KeepGateway>>
\* executeReconstructionLifecycle
ReconstructionLifecycle ==
    <<Enter(InitialComplete, {"controller_a", "gateway"}),
      PollExpectedOperationStatus("create", "succeeded"), PollReadySandbox,
      ValidateUnchanged, NotExpired>>
\* executeReconstructionEvidence
ReconstructionEvidence ==
    <<Enter(InitialComplete, {"controller_a", "gateway"}), ReadScenarioRetained("result"),
      ReadScenarioRetained("usage"), ReadScenarioRetained("artifact"), ValidateUnchanged,
      NotExpired>>
\* executeReconstructionHandoff
ReconstructionHandoff ==
    <<Enter(InitialComplete, {"controller_a", "gateway"}), ReadScenarioRetained("handoff"),
      NotExpired, ValidateUnchanged>>
\* executeReconstructionReconnect
ReconstructionReconnect ==
    <<Enter(InitialComplete, {"controller_a", "gateway"}), Gateway("backend"),
      Gateway("grant"), Gateway("dial"), Gateway("challenge"), Gateway("hang-up"), NotExpired,
      ValidateUnchanged>>

\* InitialScenarioExecutor.Execute and privateContinuationCases: the cases of a
\* phase, and the stage runScenario requires after each of them.
Cases ==
    [initial |->
        <<CapabilityDiscovery, Create, Replay, LifecycleCompletion, ExecResultUsage,
          StaleFencing, ExecCancellation, TerminalSession, GatewayRoundTrip,
          GatewayAuthorityRejections, GatewayGrantExpiry, GatewayRevocation,
          ArtifactStaging, CrossTenantArtifactRejection, MTLSCallerBindingRejection>>,
     reconstruction |->
        <<ReconstructionCapability, ReconstructionLifecycle, ReconstructionEvidence,
          ReconstructionHandoff, ReconstructionReconnect>>]
StageAfter ==
    [initial |-> <<2, 2, 2, 3, 4, 4, 4, 5, 5, 5, 5, 5, 6, 6, 6>>,
     reconstruction |-> [i \in 1..5 |-> InitialComplete]]

Script == Cases[phase][next + 1]
Step == Script[at]
InCase(do) == pc = "case" /\ at <= Len(Script) /\ Step.do \in do
IsMutation == Step.do = "call" /\ Step.sort = "mutation"

-----------------------------------------------------------------------------
\* Every variable has its type, and attempts stay within the call's bound.
TypeOK ==
    /\ phase \in Phases
    /\ pc \in {"start", "case", "report", "await", "finish", "exited"}
    /\ next \in 0..Len(Cases[phase])
    /\ pc = "case" => at \in 1..(Len(Script) + 1)
    /\ attempt \in 1..MaxPollAttempts
    /\ InCase({"call"}) => attempt <= Step.tries
    /\ left \in 0..2
    /\ wire \in {"idle", "sent", "answered"}
    /\ kept \cup mine \subseteq
          {"bundle", "controller_a", "controller_b", "same_ca_unadmitted", "gateway"}
    /\ adm \in [Ops -> 0..2]
    /\ retried \in BOOLEAN
    /\ disk \in 0..InitialComplete
    /\ reported \in [Phases -> Nat] /\ \A p \in Phases : reported[p] <= Len(Cases[p])
    /\ exit \in [Phases -> {Running, ExitSuccess, ExitData, ExitSoftware, ExitIO}]
    /\ stopFailed \in BOOLEAN
    /\ late \subseteq Ops \X (1..2)
    /\ used \subseteq Ops \X (1..2)
    /\ ops \in [Ops -> {"none", "accepted", "running", "succeeded", "failed", "cancelled"}]
    /\ dispatched \in [Ops -> Nat]
    /\ altered \in Docs \cup {"none"}
    /\ gateways \in Nat

Init ==
    /\ phase = "initial"
    /\ pc = "start"
    /\ next = 0 /\ at = 1 /\ attempt = 1 /\ left = 2
    /\ wire = "idle" /\ answer = "none"
    /\ kept = {} /\ mine = {}
    /\ adm = [op \in Ops |-> 0]
    /\ retried = FALSE
    /\ disk = 0
    /\ reported = [p \in Phases |-> 0]
    /\ exit = [p \in Phases |-> Running]
    /\ stopFailed = FALSE
    /\ late = {} /\ used = {}
    /\ ops = [op \in Ops |-> "none"]
    /\ dispatched = [op \in Ops |-> 0]
    /\ altered = "none"
    /\ gateways = 0

-----------------------------------------------------------------------------
(* Leaving the process, and the steps of a case.                             *)

\* Mutant: the process exits without stopping the Gateway the case started.
LeaveAtOnce(code) ==
    /\ exit' = [exit EXCEPT ![phase] = code]
    /\ pc' = "exited"
    /\ kept' = {} /\ mine' = {}
    /\ next' = 0 /\ at' = 1 /\ attempt' = 1 /\ left' = 2 /\ wire' = "idle" /\ answer' = "none"
    /\ UNCHANGED <<gateways, stopFailed>>

\* The process exits through the deferred cleanup of the case, of the executor
\* and of RunWithScenarios: the Gateway held is stopped (stopScenarioGateway,
\* Close), the accesses closed, the bundle destroyed.  stopScenarioGateway
\* ignores a Stop that fails; the final Close turns it into ExitSoftware.
Leave(code) ==
    /\ \E stopped \in IF "gateway" \in kept \cup mine THEN BOOLEAN ELSE {TRUE} :
         /\ gateways' = IF stopped /\ "gateway" \in kept \cup mine THEN gateways - 1 ELSE gateways
         /\ stopFailed' = (stopFailed \/ ~stopped)
         /\ exit' = [exit EXCEPT ![phase] =
                        IF code = ExitSuccess /\ ~stopped THEN ExitSoftware ELSE code]
    /\ pc' = "exited"
    /\ kept' = {} /\ mine' = {}
    /\ next' = 0 /\ at' = 1 /\ attempt' = 1 /\ left' = 2 /\ wire' = "idle" /\ answer' = "none"

\* Left alone by a case that fails without a request under way.
FailUnchanged == UNCHANGED <<phase, adm, retried, disk, reported, late, providerVars>>

\* One step of the script is done.
Advance == at' = at + 1 /\ attempt' = 1 /\ UNCHANGED <<next, left>>

\* A local step succeeds: what each changes, and what it needs.  Signing builds
\* the request (createRequest, execRequest, ...) and a new admission for it.
LocalStep ==
    /\ InCase({"enter", "build", "keep", "sign", "check", "live", "bind", "own"})
    /\ Step.do = "enter" => /\ disk = Step.stage /\ Step.holding \subseteq kept
                            /\ left = 2 \/ (Step.stage = Planned /\ left > 0)
    /\ Step.do \in {"sign", "live"} => left > 0
    /\ adm' = IF Step.do = "sign" THEN [adm EXCEPT ![Step.of] = @ + 1] ELSE adm
    /\ disk' = IF Step.do = "bind" THEN Step.stage ELSE disk
    /\ kept' = CASE Step.do = "keep" -> kept \cup {Step.actor}
                 [] Step.do = "own"  -> kept \cup mine
                 [] OTHER            -> kept
    /\ mine' = CASE Step.do = "build" -> mine \cup {Step.actor}
                 [] Step.do = "own"   -> {}
                 [] OTHER             -> mine
    /\ Advance
    /\ UNCHANGED <<phase, pc, wire, answer, retried, reported, exit, stopFailed, late,
                   providerVars, gateways>>

\* A local step fails, or a request is refused before it is sent: a missing
\* access, an expired admission, lease or deadline, a changed store.  A failed
\* Bind may already be durable.
StepFails ==
    /\ InCase({"enter", "build", "keep", "sign", "check", "live", "bind", "own", "call"})
    /\ wire = "idle"
    /\ disk' \in IF Step.do = "bind" THEN {disk, Step.stage} ELSE {disk}
    /\ Leave(ExitSoftware)
    /\ UNCHANGED <<phase, adm, retried, reported, late, providerVars>>

\* The request of this attempt goes out.  A signed read needs an admission of
\* its own, which readAdmission refuses within a second of the deadline.
Call ==
    /\ InCase({"call"})
    /\ wire = "idle"
    /\ left > 0 /\ (Step.sort \in SignedReads => left = 2)
    /\ wire' = "sent"
    /\ UNCHANGED <<phase, pc, next, at, attempt, left, answer, kept, mine, adm, retried, disk,
                   reported, exit, stopFailed, late, providerVars, gateways>>

\* The answer has arrived, is well formed, correlates with the request
\* (operationMatches, execUsageMatches, ...) and says what the case expects.
ReceiveGood ==
    /\ InCase({"call"}) /\ wire = "answered" /\ answer \in Step.good
    /\ wire' = "idle" /\ answer' = "none"
    /\ Advance
    /\ UNCHANGED <<phase, pc, kept, mine, adm, retried, disk, reported, exit, stopFailed, late,
                   providerVars, gateways>>

\* Mutant: the retry of a mutation is signed anew, with a JTI of its own.
AgainSigned(op) == adm' = [adm EXCEPT ![op] = @ + 1]

\* The admission of a mutation is reused by its retry.
AgainAdmission(op) == UNCHANGED adm

\* A retryable or unfinished answer: wait and try again.
ReceiveAgain ==
    /\ InCase({"call"}) /\ wire = "answered"
    /\ answer \in Step.again /\ attempt < Step.tries
    /\ attempt' = attempt + 1
    /\ wire' = "idle" /\ answer' = "none"
    /\ IF IsMutation THEN AgainAdmission(Step.of) ELSE UNCHANGED adm
    /\ retried' = (retried \/ Step.of = "stale")
    /\ UNCHANGED <<phase, pc, next, at, left, kept, mine, disk, reported, exit, stopFailed, late,
                   providerVars, gateways>>

\* Any other answer, or a retryable one to the last attempt, fails the case.
ReceiveBad ==
    /\ InCase({"call"}) /\ wire = "answered"
    /\ answer \notin Step.good
    /\ answer \in Step.again => attempt = Step.tries
    /\ Leave(ExitSoftware)
    /\ FailUnchanged

\* The request under way, if it is a mutation nobody has answered yet.
Unanswered == IF InCase({"call"}) /\ IsMutation /\ wire = "sent"
              THEN {<<Step.of, adm[Step.of]>>} ELSE {}

\* The transport fails, or the answer is no contract document: never retried,
\* whether or not the Provider has handled, or will handle, the request.
CallErrors ==
    /\ InCase({"call"}) /\ wire # "idle"
    /\ Leave(ExitSoftware)
    /\ late' = late \cup Unanswered
    /\ UNCHANGED <<phase, adm, retried, disk, reported, providerVars>>

-----------------------------------------------------------------------------
(* Gateway operations wait for the service, the tunnel or the peer.          *)

GatewayStep ==
    /\ InCase({"start", "gateway", "stop"})
    /\ left > 0
    /\ gateways' = gateways + (IF Step.do = "start" THEN 1 ELSE IF Step.do = "stop" THEN -1 ELSE 0)
    /\ mine' = CASE Step.do = "start" -> mine \cup {"gateway"}
                 [] Step.do = "stop"  -> mine \ {"gateway"}
                 [] OTHER             -> mine
    /\ Advance
    /\ UNCHANGED <<phase, pc, wire, answer, kept, adm, retried, disk, reported, exit, stopFailed,
                   late, providerVars>>

\* It fails or observes what the case does not expect; the deferred Stop runs.
GatewayFails ==
    /\ InCase({"start", "gateway", "stop"})
    /\ Leave(ExitSoftware)
    /\ FailUnchanged

-----------------------------------------------------------------------------
(* The case's deadline.                                                      *)

Tick ==
    /\ pc = "case" /\ left > 0
    /\ left' = left - 1
    /\ UNCHANGED <<phase, pc, next, at, attempt, wire, answer, kept, mine, adm, retried, disk,
                   reported, exit, stopFailed, late, providerVars, gateways>>

\* Mutant: the deadline is looked at between requests, not while one waits.
GiveUpBetween ==
    /\ InCase({"call", "start", "gateway", "stop"})
    /\ left = 0 /\ wire = "idle"
    /\ Leave(ExitSoftware)
    /\ late' = late \cup Unanswered
    /\ UNCHANGED <<phase, adm, retried, disk, reported, providerVars>>

\* The deadline has passed: whatever the case waits for ends in an error.
GiveUp ==
    /\ InCase({"call", "start", "gateway", "stop"})
    /\ left = 0
    /\ Leave(ExitSoftware)
    /\ late' = late \cup Unanswered
    /\ UNCHANGED <<phase, adm, retried, disk, reported, providerVars>>

-----------------------------------------------------------------------------
(* callerapp.RunWithScenarios around the cases.                              *)

\* Input, credentials and the state store; a new store is saved as planned.
Start ==
    /\ pc = "start"
    /\ \/ /\ Leave(ExitData)                      \* request or credentials refused
          /\ UNCHANGED disk
       \/ /\ Leave(ExitSoftware)                  \* CreateInitial, OpenReconstruction
          /\ disk' \in IF phase = "initial" THEN {disk, Planned} ELSE {disk}
       \/ /\ IF phase = "initial" THEN disk' = Planned
                                  ELSE disk = InitialComplete /\ UNCHANGED disk
          /\ pc' = "case"
          /\ left' \in {1, 2}
          /\ kept' = {"bundle"}
          /\ UNCHANGED <<next, at, attempt, wire, answer, mine, exit, stopFailed, gateways>>
    /\ UNCHANGED <<phase, adm, retried, reported, late, providerVars>>

\* Execute returns the result: the case's own accesses are closed.
Executed ==
    /\ pc = "case" /\ at > Len(Script)
    /\ pc' = "report"
    /\ next' = next + 1
    /\ at' = 1
    /\ mine' = {}
    /\ UNCHANGED <<phase, attempt, left, wire, answer, kept, adm, retried, disk, reported, exit,
                   stopFailed, late, providerVars, gateways>>

\* The rest of runScenario: the durable state is where the case leaves it and
\* unchanged since, and the result is written.
Report ==
    /\ pc = "report"
    /\ \/ \E code \in {ExitSoftware, ExitData, ExitIO} :
             Leave(code) /\ UNCHANGED reported
       \/ /\ disk = StageAfter[phase][next]
          /\ reported' = [reported EXCEPT ![phase] = next]
          /\ pc' = IF next = Len(Cases[phase]) THEN "finish" ELSE "await"
          /\ UNCHANGED <<caseVars, kept, mine, exit, stopFailed, gateways>>
    /\ UNCHANGED <<phase, adm, retried, disk, late, providerVars>>

\* The next command names the next case; anything else is refused.
NextCommand ==
    /\ pc = "await"
    /\ \/ Leave(ExitData)
       \/ /\ pc' = "case"
          /\ left' \in {1, 2}
          /\ UNCHANGED <<next, at, attempt, wire, answer, kept, mine, exit, stopFailed, gateways>>
    /\ UNCHANGED <<phase, adm, retried, disk, reported, late, providerVars>>

\* End of input, executor.Close and a last look at the store.
Finish ==
    /\ pc = "finish"
    /\ \E code \in {ExitData, ExitSoftware, ExitSuccess} : Leave(code)
    /\ FailUnchanged

\* A new caller process for the reconstruction phase, after the Provider has
\* restarted: one document may no longer be what the caller bound.
Reconstruct ==
    /\ pc = "exited" /\ phase = "initial"
    /\ phase' = "reconstruction"
    /\ pc' = "start"
    /\ altered' \in Docs \cup {"none"}
    /\ UNCHANGED <<caseVars, kept, mine, adm, retried, disk, reported, exit, stopFailed, late,
                   used, ops, dispatched, gateways>>

-----------------------------------------------------------------------------
(* The Provider (external).                                                  *)

Refusal(op) == IF op = "stale" THEN "409" ELSE "403"

\* The Provider handles a mutation: it turns it away, refuses a used admission,
\* or consumes the admission and then fails, refuses, answers with the operation
\* it has recorded, or dispatches it, recording it or not.
Handle(op, n, reply) ==
    \/ /\ reply \in Throttled
       /\ UNCHANGED <<used, ops, dispatched>>
    \/ /\ <<op, n>> \in used /\ reply = "409"
       /\ UNCHANGED <<used, ops, dispatched>>
    \/ /\ <<op, n>> \notin used /\ used' = used \cup {<<op, n>>}
       /\ \/ /\ reply \in {"503", Refusal(op)}
             /\ UNCHANGED <<ops, dispatched>>
          \/ /\ ops[op] # "none" /\ reply = ops[op]
             /\ UNCHANGED <<ops, dispatched>>
          \/ /\ ops[op] = "none"
             /\ dispatched' = [dispatched EXCEPT ![op] = @ + 1]
             /\ \/ reply \in {"accepted", "503"} /\ ops' = [ops EXCEPT ![op] = "accepted"]
                \/ reply = "503" /\ UNCHANGED ops

Answers == SuccessfulMutationStatus \cup Throttled \cup
           {"failed", "cancelled", "409", "403", "404", "ready", "provisioning", "document", "changed"}

\* What the Provider may answer to a read.
ReadAnswers ==
    {"503"} \cup
    CASE Step.sort = "operation" -> IF ops[Step.of] = "none" THEN {"404"} ELSE {ops[Step.of]}
      [] Step.sort = "sandbox"   -> IF ops[Step.of] = "succeeded" THEN {"ready", "provisioning"}
                                                                  ELSE {"provisioning", "failed"}
      [] Step.sort \in {"document", "discovery"} ->
            IF altered = Step.of THEN {"changed"} ELSE {"document", "404"}
      [] Step.sort = "wrong-tenant" -> {"403", "404", ops[Step.of]}
      [] OTHER -> {"403", "404", "document"}

\* A retained document exists once its operation is over.
DocumentExists ==
    Step.sort = "document" => ops[OwnerOf[Step.of]] \in {"succeeded", "cancelled"}

ProviderAnswers ==
    /\ InCase({"call"}) /\ wire = "sent"
    /\ wire' = "answered"
    /\ \E reply \in Answers :
         /\ answer' = reply
         /\ IF IsMutation
              THEN Handle(Step.of, adm[Step.of], reply)
              ELSE /\ reply \in ReadAnswers
                   /\ reply = "document" => DocumentExists
                   /\ UNCHANGED <<used, ops, dispatched>>
    /\ UNCHANGED <<phase, pc, next, at, attempt, left, kept, mine, adm, retried, disk, reported,
                   exit, stopFailed, late, altered, gateways>>

\* A request the caller gave up on is handled after all; nobody sees the answer.
LateHandled ==
    \E r \in late :
        /\ \E reply \in Answers : Handle(r[1], r[2], reply)
        /\ late' = late \ {r}
        /\ UNCHANGED <<callerVars, altered, gateways>>

\* A recorded operation moves on; a dispatched cancellation ends its target.
ProviderAdvances ==
    \E op \in Ops :
        /\ \/ ops[op] = "accepted" /\ ops' = [ops EXCEPT ![op] = "running"]
           \/ ops[op] = "running" /\ \E s \in {"succeeded", "failed"} : ops' = [ops EXCEPT ![op] = s]
           \/ /\ op = "cancellable" /\ ops[op] \in {"accepted", "running"}
              /\ dispatched["cancel"] > 0
              /\ ops' = [ops EXCEPT ![op] = "cancelled"]
        /\ UNCHANGED <<callerVars, late, used, dispatched, altered, gateways>>

-----------------------------------------------------------------------------
\* The caller's own steps.
CallerStep == \/ LocalStep \/ StepFails \/ Call \/ ReceiveGood \/ ReceiveAgain \/ ReceiveBad
              \/ GiveUp \/ Executed

\* Everything ends with the second process.
Done == pc = "exited" /\ phase = "reconstruction" /\ UNCHANGED vars

Next ==
    \/ CallerStep \/ Tick
    \/ CallErrors \/ GatewayStep \/ GatewayFails
    \/ Start \/ Report \/ NextCommand \/ Finish \/ Reconstruct
    \/ ProviderAnswers \/ LateHandled \/ ProviderAdvances
    \/ Done

\* The caller's goroutine is scheduled and time passes.  Nothing is assumed of
\* the Provider, the Gateway or the adapter.
Spec == Init /\ [][Next]_vars /\ WF_vars(CallerStep) /\ WF_vars(Tick)

-----------------------------------------------------------------------------
(* Properties.                                                               *)

\* No mutation reaches the runtime twice, whatever the Provider loses, however
\* requests are retried, replayed with a new admission, or handled late:
\* "Mutations are never silently repeated after an unknown outcome"
\* (callerprovider/exec_terminal.go:232).
SingleDispatch == \A op \in Ops : dispatched[op] <= 1

Reported(p, c) == \E i \in 1..reported[p] : Cases[p][i] = c

\* A reported case is true of the Provider: its operations reached the status
\* the case claims, and what it claims to be rejected was not dispatched (a
\* stale request whose retry was refused may owe that to its used admission).
ReportedOperations ==
    /\ Reported("initial", Replay) => {"create"} \X {1, 2} \subseteq used
    /\ Reported("initial", LifecycleCompletion) => ops["create"] = "succeeded"
    /\ Reported("initial", ExecResultUsage) => ops["exec"] = "succeeded"
    /\ Reported("initial", StaleFencing) /\ ~retried => dispatched["stale"] = 0
    /\ Reported("initial", ExecCancellation) =>
          ops["cancel"] = "succeeded" /\ ops["cancellable"] = "cancelled"
    /\ Reported("initial", TerminalSession) => ops["terminal"] = "succeeded"
    /\ Reported("initial", ArtifactStaging) => ops["artifact"] = "succeeded"
    /\ Reported("initial", CrossTenantArtifactRejection) => dispatched["cross"] = 0

\* A reported case is durable before its result is written.
ReportedStages == reported["initial"] > 0 => disk >= StageAfter["initial"][reported["initial"]]

\* Reconstruction is reported only from complete durable state, and only of
\* documents that are still the ones bound in the first phase.
ReportedContinuity ==
    /\ reported["reconstruction"] > 0 => disk = InitialComplete
    /\ Reported("reconstruction", ReconstructionCapability) => altered # "capability"
    /\ Reported("reconstruction", ReconstructionEvidence) =>
          altered \notin {"result", "usage", "artifact"}
    /\ Reported("reconstruction", ReconstructionHandoff) => altered # "handoff"

\* Exit code 0 means that every case of the phase was reported.
SuccessReportsAll ==
    \A p \in Phases : exit[p] = ExitSuccess => reported[p] = Len(Cases[p])

\* What the caller reports, and a zero exit, are true of the Provider, of the
\* durable state and of the documents, at the time and ever after.
ReportedIsTrue == ReportedOperations /\ ReportedStages /\ ReportedContinuity /\ SuccessReportsAll

\* At most one Gateway service runs, over both processes; a running one is held
\* by the case or the executor, unless stopping it failed, and then no process
\* that left it behind exits with 0.
GatewaysAreOwned ==
    /\ gateways <= 1
    /\ gateways = 1 /\ ~stopFailed => "gateway" \in kept \cup mine
    /\ stopFailed => \E p \in Phases : exit[p] \notin {Running, ExitSuccess}
    /\ pc = "exited" => kept = {} /\ mine = {}

\* A case never outlasts its deadline: it reports or the process exits, even if
\* neither the Provider nor the Gateway ever answers.
CaseEnds == pc = "case" ~> pc # "case"

=============================================================================
