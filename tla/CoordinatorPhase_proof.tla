----------------------- MODULE CoordinatorPhase_proof -----------------------
(***************************************************************************)
(* Proofs about CoordinatorPhase for any number of poll attempts.            *)
(***************************************************************************)
EXTENDS CoordinatorPhase, TLAPS

\* Where Coordinate stands between the open of the store and its last return.
BeforeRun  == {"start", "policy", "access-a"}
AfterRun   == {"check", "backend", "grant", "revoke", "stop", "stopping", "final"}
Working    == BeforeRun \cup {"access-b", "steps"} \cup AfterRun
Unwinding  == {"close-authority", "reap", "close-store", "result", "exited"}

\* The exit code is written last, and only a phase that came to its last return
\* claims success.
ExitComesLast ==
    /\ pc # "exited" => exit = Running
    /\ exit = ExitSuccess => ok
    /\ ok => pc \in Unwinding

\* The credentials and the store between their first and last use.
BundleAndStore ==
    /\ pc = "request" => bundle = "none"
    /\ pc \notin {"request", "exited"} => bundle = "held"
    /\ pc = "exited" => bundle # "held"
    /\ pc \in {"request", "coordinate", "result", "exited"} => ~store

\* The bridge's goroutine is over before the service is reaped, and the deferred
\* calls pass service.Wait only without a service.
ServiceOutlivesDial ==
    /\ pc \in {"request", "coordinate", "start"} => gateway = "none"
    /\ gateway \in {"none", "reaped"} => dial \in {"idle", "over"}
    /\ pc \in {"close-store", "result", "exited"} => gateway \in {"none", "reaped"}

\* Only the first access of a phase whose second one failed has no owner.
Unowned ==
    \A c \in Controllers :
        access[c] = "open" => phase = "initial" /\ c = "a" /\ access["b"] = "none"

\* Who has to close which access.
Owned ==
    /\ pc \in {"request", "coordinate"} \cup BeforeRun =>
           authority = "none" /\ access["a"] = "none" /\ access["b"] = "none"
    /\ pc = "access-b" => phase = "initial" /\ authority = "none" /\ access["b"] = "none"
    /\ pc = "steps" => authority = "none" /\ (access["b"] = "open" <=> phase = "initial")
    /\ pc \in AfterRun => IF phase = "initial" THEN authority = "bound" /\ access["b"] = "closed"
                          ELSE authority = "none" /\ Unowned
    /\ pc = "close-authority" => (authority = "bound" /\ access["b"] = "closed") \/ Unowned
    /\ pc \in Unwinding \ {"close-authority"} => Unowned

\* The stage that the script has made durable before its i-th step.
StageAt(i) ==
    CASE i <= 3 -> Planned [] i \in 4..7 -> CapabilitiesBound [] i \in 8..13 -> LifecycleBound
      [] i \in 14..18 -> ExecBound [] OTHER -> TerminalBound

\* What a phase that has not failed has made durable, and what the Provider did
\* for it.
Progress ==
    /\ pc \in {"request", "coordinate"} => disk = root /\ at = 1
    /\ pc \in Working => root = IF phase = "initial" THEN Empty ELSE InitialComplete
    /\ pc \in BeforeRun \cup {"access-b"} => at = 1
    /\ pc \in BeforeRun \cup {"access-b", "steps"} /\ phase = "initial" =>
           /\ disk = StageAt(at)
           /\ at >= 6 => op["create"] = "succeeded"
           /\ at >= 7 => ready
           /\ at >= 10 => op["exec"] = "succeeded"
           /\ at >= 16 => op["session"] = "succeeded"

\* What the last return claims, from where it becomes true.
Settled ==
    /\ pc \in {"stop", "stopping", "final"} /\ phase = "initial" => grant = "revoked"
    /\ pc = "final" => clean
    /\ ok => /\ clean /\ disk = IF phase = "initial" THEN TerminalBound ELSE InitialComplete
             /\ phase = "initial" => grant = "revoked"

\* This run's stages follow the Provider's effects.
Effects ==
    /\ root # Empty => disk = root
    /\ root = Empty /\ disk >= LifecycleBound => op["create"] = "succeeded" /\ ready
    /\ root = Empty /\ disk >= ExecBound => op["exec"] = "succeeded"
    /\ root = Empty /\ disk >= TerminalBound => op["session"] = "succeeded"

IInv ==
    /\ TypeOK
    /\ ExitComesLast /\ BundleAndStore /\ ServiceOutlivesDial /\ Owned
    /\ Progress /\ Settled /\ Effects

-----------------------------------------------------------------------------
(* The script *)

\* Every entry of the two scripts.
LEMMA ScriptEntries ==
    /\ Len(RunInitial) = 18 /\ Len(RunReconstruction) = 3
    /\ RunInitial[1] = Discover /\ RunInitial[2] = Discover
    /\ RunInitial[3] = Bind(CapabilitiesBound)
    /\ RunInitial[4] = Mutate("create") /\ RunInitial[5] = WaitOperation("create")
    /\ RunInitial[6] = WaitSandboxReady /\ RunInitial[7] = Bind(LifecycleBound)
    /\ RunInitial[8] = Mutate("exec") /\ RunInitial[9] = WaitOperation("exec")
    /\ RunInitial[10] = ReadRetained /\ RunInitial[11] = ReadRetained
    /\ RunInitial[12] = NotEnded /\ RunInitial[13] = Bind(ExecBound)
    /\ RunInitial[14] = Mutate("session") /\ RunInitial[15] = WaitOperation("session")
    /\ RunInitial[16] = ReadRetained /\ RunInitial[17] = NotEnded
    /\ RunInitial[18] = Bind(TerminalBound)
    /\ RunReconstruction[1] = Discover /\ RunReconstruction[2] = WaitOperation("create")
    /\ RunReconstruction[3] = WaitSandboxReady
<1> DEFINE head == <<Discover, Discover, Bind(CapabilitiesBound), Mutate("create"),
                     WaitOperation("create"), WaitSandboxReady, Bind(LifecycleBound)>>
<1>1. Len(head) = 7 /\ Len(RunExecTerminal) = 11 /\ Len(RunReconstruction) = 3
  BY DEF RunExecTerminal, RunReconstruction
<1>2. \A i \in 1..18 : RunInitial[i] = IF i <= 7 THEN head[i] ELSE RunExecTerminal[i - 7]
  BY <1>1 DEF RunInitial, RunExecTerminal
<1>3. Len(RunInitial) = 18
  BY <1>1 DEF RunInitial, RunExecTerminal
<1> QED
  BY <1>1, <1>2, <1>3 DEF RunExecTerminal, RunReconstruction

\* What the scripts bind, mutate and wait for, and where.
LEMMA ScriptFacts ==
    ASSUME NEW i \in 1..Len(Script), phase \in Phases
    PROVE  /\ Script[i].do = "bind" =>
                /\ phase = "initial" /\ Script[i].stage = StageAt(i + 1)
                /\ i \in {3, 7, 13, 18}
           /\ Script[i].do # "bind" /\ phase = "initial" => StageAt(i + 1) = StageAt(i)
           /\ Script[i].do = "mutate" =>
                /\ phase = "initial" /\ Script[i].of \in Ops
                /\ i = (CASE Script[i].of = "create" -> 4 [] Script[i].of = "exec" -> 8
                          [] Script[i].of = "session" -> 14)
           /\ phase = "initial" => /\ i \in {5, 9, 15} <=> Script[i].do = "wait"
                                   /\ i = 5 => Script[i].of = "create"
                                   /\ i = 9 => Script[i].of = "exec"
                                   /\ i = 15 => Script[i].of = "session"
                                   /\ i = 6 <=> Script[i].do = "ready"
<1> USE ScriptEntries DEF Discover, Mutate, WaitOperation, WaitSandboxReady, ReadRetained,
        NotEnded, Bind, Script, StageAt, Planned, CapabilitiesBound, LifecycleBound, ExecBound,
        TerminalBound, Ops
<1>1. CASE phase = "initial"
  <2>1. i \in 1..18
    BY <1>1
  <2>2. \/ i = 1 \/ i = 2 \/ i = 3 \/ i = 4 \/ i = 5 \/ i = 6 \/ i = 7 \/ i = 8 \/ i = 9
        \/ i = 10 \/ i = 11 \/ i = 12 \/ i = 13 \/ i = 14 \/ i = 15 \/ i = 16 \/ i = 17 \/ i = 18
    BY <2>1
  <2> QED
    BY <1>1, <2>2
<1>2. CASE phase = "reconstruction"
  <2>1. i \in 1..3
    <3>1. Len(Script) = 3
      BY <1>2
    <3> QED
      BY <3>1
  <2>2. i = 1 \/ i = 2 \/ i = 3
    BY <2>1
  <2> QED
    BY <1>2, <2>2
<1> QED
  BY <1>1, <1>2 DEF Phases

-----------------------------------------------------------------------------
(* Every step *)

USE DEF heldVars, gatewayVars, providerVars, Goto, Fail

\* Only WriteResult writes an exit code of a phase, only FinalCheck sets ok.
LEMMA ExitStep ==
    ASSUME IInv, [Next]_vars
    PROVE  ExitComesLast'
<1> USE DEF IInv, ExitComesLast, Unwinding, Running, ExitSuccess, ExitUsage, ExitData,
        ExitSoftware, ExitIO
<1>1. CASE Coordinating
  BY <1>1 DEF Coordinating, ReadRequest, OpenStore, StartGateway, InstallPolicy, BuildAccess,
     AccessOf, Controllers, StepFails, RunReturns, CheckState, SetBackend, IssueGrant,
     Revoke, Stop, StopReturns, FinalCheck
<1>2. CASE Answered
  BY <1>2 DEF Answered, SubmitLost, Submit, Poll, Checked, BindStage, Stepping, NextStep, Retry
<1>3. CASE Deferred
  BY <1>3 DEF Deferred, CloseAuthority, Reap, CloseStore, WriteResult
<1>4. CASE ContextEnds \/ GatewayExits \/ GatewayReaped \/ AuthorityOpen \/ BridgeEnds
  BY <1>4 DEF ContextEnds, GatewayExits, GatewayReaped, AuthorityOpen, BridgeEnds, OpenerSigns,
     OpenerDials, StreamEnds
<1>5. CASE (\E o \in Ops : OperationEnds(o)) \/ SandboxReady \/ UNCHANGED vars
  BY <1>5 DEF OperationEnds, SandboxReady, vars
<1> QED
  BY <1>1, <1>2, <1>3, <1>4, <1>5 DEF Next

\* The bundle is held from ReadRequest to WriteResult; FinalCheck or CloseStore
\* closes the store.
LEMMA BundleStep ==
    ASSUME IInv, [Next]_vars
    PROVE  BundleAndStore'
<1> USE DEF IInv, BundleAndStore, TypeOK
<1>1. CASE Coordinating
  BY <1>1 DEF Coordinating, ReadRequest, OpenStore, StartGateway, InstallPolicy, BuildAccess,
     AccessOf, Controllers, StepFails, RunReturns, CheckState, SetBackend, IssueGrant,
     Revoke, Stop, StopReturns, FinalCheck
<1>2. CASE Answered
  BY <1>2 DEF Answered, SubmitLost, Submit, Poll, Checked, BindStage, Stepping, NextStep, Retry
<1>3. CASE Deferred
  BY <1>3 DEF Deferred, CloseAuthority, Reap, CloseStore, WriteResult
<1>4. CASE ContextEnds \/ GatewayExits \/ GatewayReaped \/ AuthorityOpen \/ BridgeEnds
  BY <1>4 DEF ContextEnds, GatewayExits, GatewayReaped, AuthorityOpen, BridgeEnds, OpenerSigns,
     OpenerDials, StreamEnds
<1>5. CASE (\E o \in Ops : OperationEnds(o)) \/ SandboxReady \/ UNCHANGED vars
  BY <1>5 DEF OperationEnds, SandboxReady, vars
<1> QED
  BY <1>1, <1>2, <1>3, <1>4, <1>5 DEF Next

\* Only StartGateway makes a service, GatewayReaped waits for the bridge, and
\* Reap for the service.
LEMMA ServiceStep ==
    ASSUME IInv, [Next]_vars
    PROVE  ServiceOutlivesDial'
<1> USE DEF IInv, ServiceOutlivesDial
<1>1. CASE Coordinating
  BY <1>1 DEF Coordinating, ReadRequest, OpenStore, StartGateway, InstallPolicy, BuildAccess,
     AccessOf, Controllers, StepFails, RunReturns, CheckState, SetBackend, IssueGrant,
     Revoke, Stop, StopReturns, FinalCheck
<1>2. CASE Answered
  BY <1>2 DEF Answered, SubmitLost, Submit, Poll, Checked, BindStage, Stepping, NextStep, Retry
<1>3. CASE Deferred
  BY <1>3 DEF Deferred, CloseAuthority, Reap, CloseStore, WriteResult
<1>4. CASE ContextEnds \/ GatewayExits \/ GatewayReaped \/ AuthorityOpen \/ BridgeEnds
  BY <1>4 DEF ContextEnds, GatewayExits, GatewayReaped, AuthorityOpen, BridgeEnds, OpenerSigns,
     OpenerDials, StreamEnds
<1>5. CASE (\E o \in Ops : OperationEnds(o)) \/ SandboxReady \/ UNCHANGED vars
  BY <1>5 DEF OperationEnds, SandboxReady, vars
<1> QED
  BY <1>1, <1>2, <1>3, <1>4, <1>5 DEF Next

\* An access passes from Run to the authority, or is closed where it is dropped.
LEMMA OwnedStep ==
    ASSUME IInv, [Next]_vars
    PROVE  Owned'
<1> USE DEF IInv, Owned, Unowned, TypeOK, BeforeRun, AfterRun, Unwinding, Controllers, Phases
<1>1. CASE Coordinating
  BY <1>1 DEF Coordinating, ReadRequest, OpenStore, StartGateway, InstallPolicy, BuildAccess,
     AccessOf, Controllers, StepFails, AllClosed, RunReturns, CheckState, SetBackend, IssueGrant,
     Revoke, Stop, StopReturns, FinalCheck
<1>2. CASE Answered
  BY <1>2 DEF Answered, SubmitLost, Submit, Poll, Checked, BindStage, Stepping, NextStep, Retry,
     AllClosed
<1>3. CASE Deferred
  BY <1>3 DEF Deferred, CloseAuthority, Reap, CloseStore, WriteResult
<1>4. CASE ContextEnds \/ GatewayExits \/ GatewayReaped \/ AuthorityOpen \/ BridgeEnds
  BY <1>4 DEF ContextEnds, GatewayExits, GatewayReaped, AuthorityOpen, BridgeEnds, OpenerSigns,
     OpenerDials, StreamEnds
<1>5. CASE (\E o \in Ops : OperationEnds(o)) \/ SandboxReady \/ UNCHANGED vars
  BY <1>5 DEF OperationEnds, SandboxReady, vars
<1> QED
  BY <1>1, <1>2, <1>3, <1>4, <1>5 DEF Next

\* Revoke, Stop and FinalCheck come in this order.
LEMMA SettledStep ==
    ASSUME IInv, [Next]_vars
    PROVE  Settled'
<1> USE DEF IInv, Settled, ExitComesLast, Progress, Working, AfterRun, Unwinding, Phases, TypeOK,
        Empty, Planned, CapabilitiesBound, LifecycleBound, ExecBound, TerminalBound, InitialComplete
<1>1. CASE Coordinating
  BY <1>1 DEF Coordinating, ReadRequest, OpenStore, StartGateway, InstallPolicy, BuildAccess,
     AccessOf, Controllers, StepFails, RunReturns, CheckState, SetBackend, IssueGrant,
     Revoke, Stop, StopReturns, FinalCheck
<1>2. CASE Answered
  BY <1>2 DEF Answered, SubmitLost, Submit, Poll, Checked, BindStage, Stepping, NextStep, Retry
<1>3. CASE Deferred
  BY <1>3 DEF Deferred, CloseAuthority, Reap, CloseStore, WriteResult
<1>4. CASE ContextEnds \/ GatewayExits \/ GatewayReaped \/ AuthorityOpen \/ BridgeEnds
  BY <1>4 DEF ContextEnds, GatewayExits, GatewayReaped, AuthorityOpen, BridgeEnds, OpenerSigns,
     OpenerDials, StreamEnds
<1>5. CASE (\E o \in Ops : OperationEnds(o)) \/ SandboxReady \/ UNCHANGED vars
  BY <1>5 DEF OperationEnds, SandboxReady, vars
<1> QED
  BY <1>1, <1>2, <1>3, <1>4, <1>5 DEF Next

\* The script has a step to take.
LEMMA StepExists ==
    ASSUME IInv, NEW what, Stepping(what)
    PROVE  pc = "steps" /\ at \in 1..Len(Script) /\ Script[at].do = what /\ phase \in Phases
<1>1. Len(Script) \in Nat
  BY ScriptEntries DEF Script
<1> QED
  BY <1>1 DEF IInv, TypeOK, Stepping, Step

\* A bind follows the effect it records, and nothing undoes an effect.
LEMMA EffectsStep ==
    ASSUME IInv, [Next]_vars
    PROVE  Effects'
<1> USE DEF IInv, Effects, Progress, BeforeRun, Working, AfterRun, Phases, TypeOK, Ops,
        Empty, Planned, CapabilitiesBound, LifecycleBound, ExecBound, TerminalBound, InitialComplete
<1>1. CASE Coordinating
  BY <1>1 DEF Coordinating, ReadRequest, OpenStore, StartGateway, InstallPolicy, BuildAccess,
     OpensStore, AccessOf, Controllers, StepFails, RunReturns, CheckState, SetBackend, IssueGrant,
     Revoke, Stop, StopReturns, FinalCheck
<1>2. CASE Answered
  <2>1. CASE Submit \/ SubmitLost
    <3>1. /\ pc = "steps" /\ phase = "initial" /\ Script[at].of \in Ops
          /\ at = CASE Script[at].of = "create" -> 4 [] Script[at].of = "exec" -> 8
                    [] Script[at].of = "session" -> 14
      BY <2>1, StepExists, ScriptFacts DEF Submit, SubmitLost
    <3>2. UNCHANGED <<root, disk, ready>> /\ op' = [op EXCEPT ![Script[at].of] = "accepted"]
      BY <2>1 DEF Submit, SubmitLost, Step
    <3>3. disk = StageAt(at)
      BY <3>1
    <3> QED
      BY <3>1, <3>2, <3>3 DEF StageAt
  <2>2. CASE Poll \/ Checked
    BY <2>2 DEF Poll, Checked
  <2>3. CASE BindStage
    <3>1. Stepping("bind") /\ disk' = Script[at].stage /\ UNCHANGED <<phase, root, op, ready>>
      BY <2>3 DEF BindStage, Step
    <3>2. phase = "initial" /\ at \in {3, 7, 13, 18} /\ disk' = StageAt(at + 1) /\ pc = "steps"
      BY <3>1, StepExists, ScriptFacts
    <3>3. root = Empty
      BY <3>2
    <3> QED
      BY <3>1, <3>2, <3>3 DEF StageAt
  <2> QED
    BY <1>2, <2>1, <2>2, <2>3 DEF Answered
<1>3. CASE Deferred
  BY <1>3 DEF Deferred, CloseAuthority, Reap, CloseStore, WriteResult
<1>4. CASE ContextEnds \/ GatewayExits \/ GatewayReaped \/ AuthorityOpen \/ BridgeEnds
  BY <1>4 DEF ContextEnds, GatewayExits, GatewayReaped, AuthorityOpen, BridgeEnds, OpenerSigns,
     OpenerDials, StreamEnds
<1>5. CASE (\E o \in Ops : OperationEnds(o)) \/ SandboxReady \/ UNCHANGED vars
  BY <1>5 DEF OperationEnds, SandboxReady, vars
<1> QED
  BY <1>1, <1>2, <1>3, <1>4, <1>5 DEF Next

\* The script is taken one step at a time.
LEMMA ProgressStep ==
    ASSUME IInv, [Next]_vars
    PROVE  Progress'
<1> USE DEF IInv, Progress, BeforeRun, Working, AfterRun, Phases, TypeOK, Ops,
        Empty, Planned, CapabilitiesBound, LifecycleBound, ExecBound, TerminalBound, InitialComplete
<1>1. CASE Coordinating
  <2>1. CASE OpenStore
    <3>1. CASE pc' = "close-authority"
      BY <3>1
    <3>2. CASE pc' = "start"
      <4>1. at = 1
        BY <2>1 DEF OpenStore
      <4>2. root' = IF phase' = "initial" THEN Empty ELSE InitialComplete
        BY <2>1, <3>2 DEF OpenStore, OpensStore
      <4>3. phase' = "initial" => disk' = StageAt(1) /\ at' = 1
        BY <2>1, <3>2, <4>1 DEF OpenStore, StageAt
      <4> QED
        BY <2>1, <3>2, <4>1, <4>2, <4>3 DEF OpenStore
    <3> QED
      BY <2>1, <3>1, <3>2 DEF OpenStore
  <2>2. CASE StartGateway \/ InstallPolicy \/ \E c \in Controllers : BuildAccess(c)
    BY <2>2 DEF StartGateway, InstallPolicy, BuildAccess, AccessOf, Controllers
  <2>3. CASE ReadRequest \/ StepFails
    BY <2>3 DEF ReadRequest, StepFails
  <2>4. CASE \/ RunReturns \/ CheckState \/ SetBackend \/ IssueGrant \/ Revoke
             \/ Stop \/ StopReturns \/ FinalCheck
    BY <2>4 DEF RunReturns, CheckState, SetBackend, IssueGrant, Revoke, Stop, StopReturns, FinalCheck
  <2> QED
    BY <1>1, <2>1, <2>2, <2>3, <2>4 DEF Coordinating
<1>2. CASE Answered
  <2>1. CASE pc' = "close-authority"
    BY <2>1
  <2>2. CASE Submit
    <3>1. /\ pc = "steps" /\ phase = "initial" /\ Script[at].of \in Ops
          /\ at = CASE Script[at].of = "create" -> 4 [] Script[at].of = "exec" -> 8
                    [] Script[at].of = "session" -> 14
          /\ StageAt(at + 1) = StageAt(at)
      BY <2>2, StepExists, ScriptFacts DEF Submit
    <3>2. /\ op' = [op EXCEPT ![Script[at].of] = "accepted"] /\ at' = at + 1 /\ pc' = "steps"
          /\ UNCHANGED <<phase, root, disk, ready>>
      BY <2>2 DEF Submit, NextStep, Step
    <3> QED
      BY <3>1, <3>2
  <2>3. CASE Poll /\ at' = at
    BY <2>3 DEF Poll, NextStep, Retry, Stepping
  <2>4. CASE Poll /\ PollsDone /\ NextStep
    <3>1. PICK what \in {"wait", "ready", "read"} : Stepping(what)
      BY <2>4 DEF Poll
    <3>2. /\ pc = "steps" /\ at \in 1..Len(Script) /\ Script[at].do = what
          /\ phase = "initial" =>
                /\ StageAt(at + 1) = StageAt(at)
                /\ at \in {5, 9, 15} <=> what = "wait"
                /\ at = 5 => Script[at].of = "create"
                /\ at = 9 => Script[at].of = "exec"
                /\ at = 15 => Script[at].of = "session"
                /\ at = 6 <=> what = "ready"
      BY <3>1, StepExists, ScriptFacts
    <3>3. /\ at' = at + 1 /\ pc' = "steps" /\ UNCHANGED <<phase, root, disk, op, ready>>
      BY <2>4 DEF Poll, NextStep
    <3>4. /\ what = "wait" => op[Script[at].of] = "succeeded"
          /\ what = "ready" => ready
      BY <2>4, <3>2 DEF PollsDone, Step
    <3> QED
      BY <3>2, <3>3, <3>4
  <2>5. CASE Checked
    <3>1. PICK what \in {"discover", "live"} : Stepping(what)
      BY <2>5 DEF Checked
    <3>2. /\ pc = "steps" /\ at \in 1..Len(Script)
          /\ phase = "initial" => StageAt(at + 1) = StageAt(at) /\ at \notin {5, 6, 9, 15}
      BY <3>1, StepExists, ScriptFacts
    <3>3. /\ at' = at + 1 /\ pc' = "steps" /\ UNCHANGED <<phase, root, disk, op, ready>>
      BY <2>5 DEF Checked, NextStep
    <3> QED
      BY <3>2, <3>3
  <2>6. CASE BindStage /\ NextStep
    <3>1. /\ Stepping("bind") /\ disk' = Script[at].stage /\ at' = at + 1 /\ pc' = "steps"
          /\ UNCHANGED <<phase, root, op, ready>>
      BY <2>6 DEF BindStage, Step, NextStep
    <3>2. phase = "initial" /\ at \in {3, 7, 13, 18} /\ disk' = StageAt(at + 1) /\ pc = "steps"
      BY <3>1, StepExists, ScriptFacts
    <3> QED
      BY <3>1, <3>2
  <2> QED
    BY <1>2, <2>1, <2>2, <2>3, <2>4, <2>5, <2>6
       DEF Answered, SubmitLost, Poll, BindStage, Retry
<1>3. CASE Deferred
  BY <1>3 DEF Deferred, CloseAuthority, Reap, CloseStore, WriteResult
<1>4. CASE ContextEnds \/ GatewayExits \/ GatewayReaped \/ AuthorityOpen \/ BridgeEnds
  BY <1>4 DEF ContextEnds, GatewayExits, GatewayReaped, AuthorityOpen, BridgeEnds, OpenerSigns,
     OpenerDials, StreamEnds
<1>5. CASE (\E o \in Ops : OperationEnds(o)) \/ SandboxReady \/ UNCHANGED vars
  BY <1>5 DEF OperationEnds, SandboxReady, vars
<1> QED
  BY <1>1, <1>2, <1>3, <1>4, <1>5 DEF Next

\* Every action assigns values of the types.
LEMMA TypeStep ==
    ASSUME IInv, [Next]_vars
    PROVE  TypeOK'
<1> USE DEF IInv, TypeOK
<1>1. /\ ok' \in BOOLEAN /\ live' \in BOOLEAN /\ store' \in BOOLEAN
      /\ clean' \in BOOLEAN /\ backend' \in BOOLEAN /\ ready' \in BOOLEAN
  <2>1. CASE Coordinating
    BY <2>1, Zenon DEF Coordinating, ReadRequest, OpenStore, StartGateway, InstallPolicy, BuildAccess,
       StepFails, RunReturns, CheckState, SetBackend, IssueGrant, Revoke, Stop, StopReturns, FinalCheck
  <2>2. CASE Answered
    BY <2>2, Zenon DEF Answered, SubmitLost, Submit, Poll, Checked, BindStage
  <2>3. CASE Deferred
    BY <2>3, Zenon DEF Deferred, CloseAuthority, Reap, CloseStore, WriteResult
  <2>4. CASE ContextEnds \/ GatewayExits \/ GatewayReaped \/ AuthorityOpen \/ BridgeEnds
    BY <2>4, Zenon DEF ContextEnds, GatewayExits, GatewayReaped, AuthorityOpen, BridgeEnds, OpenerSigns,
       OpenerDials, StreamEnds
  <2>5. CASE (\E o \in Ops : OperationEnds(o)) \/ SandboxReady \/ UNCHANGED vars
    BY <2>5, Zenon DEF OperationEnds, SandboxReady, vars
  <2> QED
    BY <2>1, <2>2, <2>3, <2>4, <2>5 DEF Next

<1>2. access' \in [Controllers -> {"none", "open", "closed"}]
  <2>1. CASE Coordinating
    BY <2>1 DEF Coordinating, ReadRequest, OpenStore, StartGateway, InstallPolicy, BuildAccess,
       StepFails, AllClosed, RunReturns, CheckState, SetBackend, IssueGrant, Revoke, Stop, StopReturns,
       FinalCheck, Controllers
  <2>2. CASE Answered
    BY <2>2 DEF Answered, SubmitLost, Submit, Poll, Checked, BindStage, AllClosed, Controllers
  <2>3. CASE Deferred
    BY <2>3 DEF Deferred, CloseAuthority, Reap, CloseStore, WriteResult, Controllers
  <2>4. CASE UNCHANGED access
    BY <2>4
  <2> QED
    BY <2>1, <2>2, <2>3, <2>4 DEF Next, ContextEnds, GatewayExits, GatewayReaped, AuthorityOpen,
       BridgeEnds, OpenerSigns, OpenerDials, StreamEnds, OperationEnds, SandboxReady, vars
<1>3. op' \in [Ops -> {"none", "accepted", "succeeded", "failed"}]
  <2>1. CASE Submit \/ SubmitLost
    BY <2>1 DEF Submit, SubmitLost
  <2>2. ASSUME NEW o \in Ops, OperationEnds(o)
        PROVE  op' \in [Ops -> {"none", "accepted", "succeeded", "failed"}]
    BY <2>2 DEF OperationEnds
  <2>3. CASE UNCHANGED op
    BY <2>3
  <2>4. Coordinating \/ Deferred \/ Poll \/ Checked \/ BindStage => UNCHANGED op
    BY DEF Coordinating, ReadRequest, OpenStore, StartGateway, InstallPolicy, BuildAccess,
       StepFails, RunReturns, CheckState, SetBackend, IssueGrant, Revoke, Stop, StopReturns,
       FinalCheck, Poll, Checked, BindStage, Deferred, CloseAuthority, Reap, CloseStore, WriteResult
  <2> QED
    BY <2>1, <2>2, <2>3, <2>4 DEF Next, Answered, ContextEnds, GatewayExits, GatewayReaped,
       AuthorityOpen, BridgeEnds, OpenerSigns, OpenerDials, StreamEnds, SandboxReady, vars
<1>4. /\ phase' \in Phases /\ root' \in Empty..InitialComplete
      /\ at' \in Nat \ {0} /\ attempt' \in 1..MaxPollAttempts
  <2>1. UNCHANGED <<phase, root>>
    BY DEF Next, Coordinating, ReadRequest, OpenStore, StartGateway, InstallPolicy, BuildAccess,
       StepFails, RunReturns, CheckState, SetBackend, IssueGrant, Revoke, Stop, StopReturns,
       FinalCheck, Answered, Submit, SubmitLost, Poll, Checked, BindStage, Deferred, CloseAuthority,
       Reap, CloseStore, WriteResult, ContextEnds, GatewayExits, GatewayReaped,
       AuthorityOpen, BridgeEnds, OpenerSigns, OpenerDials, StreamEnds, OperationEnds, SandboxReady, vars
  <2>2. CASE Answered
    BY <2>1, <2>2, PollAssumption DEF Answered, Submit, SubmitLost, Poll, Checked, BindStage, NextStep, Retry
  <2>3. ~Answered => UNCHANGED <<at, attempt>>
    BY DEF Next, Coordinating, ReadRequest, OpenStore, StartGateway, InstallPolicy, BuildAccess,
       StepFails, RunReturns, CheckState, SetBackend, IssueGrant, Revoke, Stop, StopReturns,
       FinalCheck, Deferred, CloseAuthority,
       Reap, CloseStore, WriteResult, ContextEnds, GatewayExits, GatewayReaped,
       AuthorityOpen, BridgeEnds, OpenerSigns, OpenerDials, StreamEnds, OperationEnds, SandboxReady, vars
  <2> QED
    BY <2>1, <2>2, <2>3
<1> DEFINE Typed ==
      /\ pc \in {"request", "coordinate", "start", "policy", "access-a", "access-b", "steps", "check",
                 "backend", "grant", "revoke", "stop", "stopping", "final",
                 "close-authority", "reap", "close-store", "result", "exited"}
      /\ disk \in Empty..InitialComplete
      /\ bundle \in {"none", "held", "destroyed"}
      /\ authority \in {"none", "bound", "closed"}
      /\ gateway \in {"none", "running", "exiting", "reaped"}
      /\ grant \in {"none", "issued", "revoked"}
      /\ dial \in {"idle", "opening", "dialling", "open", "over"}
      /\ exit \in {Running, ExitSuccess, ExitUsage, ExitData, ExitSoftware, ExitIO}
<1>5. Typed'
  <2>1. CASE Coordinating
    BY <2>1 DEF Coordinating, ReadRequest, OpenStore, StartGateway, InstallPolicy, BuildAccess,
       AccessOf, Controllers, StepFails, RunReturns, CheckState, SetBackend, IssueGrant, Revoke, Stop,
       StopReturns, FinalCheck, Empty, InitialComplete, Planned
  <2>2. CASE Answered
    <3>1. disk' \in Empty..InitialComplete
      <4>1. CASE BindStage
        <5>1. disk' = Script[at].stage /\ Stepping("bind")
          BY <4>1 DEF BindStage, Step
        <5>2. disk' = StageAt(at + 1) /\ at \in {3, 7, 13, 18}
          BY <5>1, StepExists, ScriptFacts
        <5> QED
          BY <5>2 DEF StageAt, Empty, Planned, CapabilitiesBound, LifecycleBound, ExecBound,
             TerminalBound, InitialComplete
      <4> QED
        BY <2>2, <4>1 DEF Answered, Submit, SubmitLost, Poll, Checked
    <3> QED
      BY <2>2, <3>1 DEF Answered, Submit, SubmitLost, Poll, Checked, BindStage, NextStep, Retry
  <2>3. CASE Deferred
    BY <2>3 DEF Deferred, CloseAuthority, Reap, CloseStore, WriteResult
  <2>4. CASE ContextEnds \/ GatewayExits \/ GatewayReaped \/ AuthorityOpen \/ BridgeEnds
    BY <2>4 DEF ContextEnds, GatewayExits, GatewayReaped, AuthorityOpen, BridgeEnds, OpenerSigns,
       OpenerDials, StreamEnds
  <2>5. CASE (\E o \in Ops : OperationEnds(o)) \/ SandboxReady \/ UNCHANGED vars
    BY <2>5 DEF OperationEnds, SandboxReady, vars
  <2> QED
    BY <2>1, <2>2, <2>3, <2>4, <2>5 DEF Next
<1> QED
  BY <1>1, <1>2, <1>3, <1>4, <1>5

\* What a phase starts with.
LEMMA InitEstablishes ==
    ASSUME Init
    PROVE  IInv
<1> USE DEF Init, IInv
<1>1. TypeOK
  <2>1. ok \in BOOLEAN /\ live \in BOOLEAN /\ store \in BOOLEAN
        /\ clean \in BOOLEAN /\ backend \in BOOLEAN /\ ready \in BOOLEAN
    BY Zenon
  <2>2. access \in [Controllers -> {"none", "open", "closed"}]
    OBVIOUS
  <2>3. op \in [Ops -> {"none", "accepted", "succeeded", "failed"}]
    OBVIOUS
  <2> QED
    BY <2>1, <2>2, <2>3, PollAssumption DEF TypeOK
<1>2. ExitComesLast /\ BundleAndStore /\ ServiceOutlivesDial /\ Settled
  BY DEF ExitComesLast, BundleAndStore, ServiceOutlivesDial, Settled, Running, ExitSuccess
<1>3. Owned /\ Progress
  BY DEF Owned, Progress, Controllers, BeforeRun, AfterRun, Working, Unwinding
<1>4. Effects
  BY DEF Effects, Empty, LifecycleBound, ExecBound, TerminalBound
<1> QED
  BY <1>1, <1>2, <1>3, <1>4

-----------------------------------------------------------------------------
(* Theorems *)

\* The inductive invariant holds in every reachable state.
THEOREM Invariance == Spec => []IInv
<1>1. Init => IInv
  BY InitEstablishes
<1>2. IInv /\ [Next]_vars => IInv'
  BY TypeStep, ExitStep, BundleStep, ServiceStep, OwnedStep, SettledStep, EffectsStep, ProgressStep
     DEF IInv
<1> QED
  BY <1>1, <1>2, PTL DEF Spec

\* The variables of a caller phase keep their types.
THEOREM TypeCorrect == Spec => []TypeOK
<1>1. IInv => TypeOK
  BY DEF IInv
<1> QED
  BY <1>1, Invariance, PTL

\* For any number of poll attempts: callerprovider.Run makes a stage durable only
\* after the Provider effect it stands for, a root that was not empty keeps its
\* stage, and Coordinate's success means a complete phase, a revoked grant and a
\* service that Stop reaped, whatever is lost, late, killed or reported failed.
THEOREM CompletionIsAlwaysEarned == Spec => []CompletionIsEarned
<1>1. IInv => CompletionIsEarned
  BY DEF IInv, Effects, Settled, ExitComesLast, CompletionIsEarned
<1> QED
  BY <1>1, Invariance, PTL

\* Whichever step failed, the deferred calls of Coordinate and RunWithCoordinator
\* give back the service, the bridge's stream, the store, the credentials and the
\* accesses before the process exits.
THEOREM NothingIsLeftBehind == Spec => []NothingLeftBehind
<1>1. IInv => NothingLeftBehind
  BY DEF IInv, BundleAndStore, ServiceOutlivesDial, Owned, Unowned, Unwinding, NothingLeftBehind
<1> QED
  BY <1>1, Invariance, PTL

=============================================================================
