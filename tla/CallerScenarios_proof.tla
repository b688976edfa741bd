------------------------ MODULE CallerScenarios_proof ------------------------
(***************************************************************************)
(* Proofs about CallerScenarios for any bound on the attempts of a read: the *)
(* order of the steps of every case, whatever the Provider and the Gateway   *)
(* answer and however long they take.                                        *)
(***************************************************************************)
EXTENDS CallerScenarios, TLAPS

\* Where in the initial phase each request is signed; Replay signs create again.
CaseOf == [create |-> 2, exec |-> 5, stale |-> 6, cancellable |-> 7, cancel |-> 7,
           terminal |-> 8, artifact |-> 13, cross |-> 14]
SpotOf == [create |-> 3, exec |-> 2, stale |-> 2, cancellable |-> 2, cancel |-> 4,
           terminal |-> 2, artifact |-> 2, cross |-> 3]
AdmissionOf(k, i) == IF k = 3 /\ i > 3 THEN 2 ELSE 1

\* The execution has gone beyond step i of case k.
Past(k, i) == next + 1 > k \/ (next + 1 = k /\ at > i)

IsCall(step, sort) == step.do = "call" /\ step.sort = sort

\* A case has started a Gateway before step i and neither stopped nor kept it.
Opens(script, i) ==
    /\ \E j \in 1..(i - 1) : script[j].do = "start"
    /\ \A j \in 1..(i - 1) : script[j].do \notin {"stop", "own"}

\* Where RunWithScenarios is, and what it has reported.
Flow ==
    /\ pc \in {"case", "await"} => next < Len(Cases[phase]) /\ reported[phase] = next
    /\ pc = "report" => next >= 1 /\ reported[phase] = next - 1
    /\ pc = "finish" => reported[phase] = Len(Cases[phase])
    /\ pc = "start" => reported[phase] = 0
    /\ pc \in {"start", "exited"} => next = 0 /\ kept = {}
    /\ pc # "case" => at = 1 /\ wire = "idle" /\ mine = {}
    /\ wire # "idle" => InCase({"call"})
    /\ pc # "exited" => exit[phase] = Running
    /\ phase = "initial" => reported["reconstruction"] = 0 /\ exit["reconstruction"] = Running
    /\ phase = "initial" => altered = "none"
    /\ late # {} => pc = "exited" \/ phase = "reconstruction"

\* How far the durable state is.
Stages ==
    /\ pc = "case" /\ at > 1 /\ (\A i \in 1..(at - 1) : Script[i].do # "bind") => disk = Script[1].stage
    /\ pc = "case" => \A i \in 1..(at - 1) : Script[i].do = "bind" => disk = Script[i].stage
    /\ phase = "initial" /\ pc = "start" => disk = 0
    /\ phase = "reconstruction" /\ pc \notin {"start", "exited"} => disk = InitialComplete
    /\ reported["reconstruction"] > 0 => disk = InitialComplete

\* Who holds the Gateway, and that one left behind ends everything.
Held ==
    /\ pc = "case" => ("gateway" \in mine <=> Opens(Script, at))
    /\ "gateway" \in kept => /\ phase = "reconstruction" /\ "gateway" \notin mine
                             /\ next >= 1 \/ at > Len(ReconstructionCapability)
    /\ ~stopFailed => gateways = IF "gateway" \in kept \cup mine THEN 1 ELSE 0
    /\ stopFailed => /\ gateways = 1 /\ "gateway" \notin kept \cup mine
                     /\ pc = "exited" \/ (pc = "start" /\ phase = "reconstruction")
                     /\ disk = InitialComplete => phase = "reconstruction" /\ pc = "exited"
                     /\ \E p \in Phases : exit[p] \notin {Running, ExitSuccess}

\* How often each request has been signed.
Admissions ==
    /\ \A op \in Ops : adm[op] <= 1 \/ op = "create"
    /\ phase = "initial" /\ pc # "exited" =>
          \A op \in Ops :
              /\ ~Past(CaseOf[op], SpotOf[op]) => adm[op] = 0
              /\ Past(CaseOf[op], SpotOf[op]) /\ (op = "create" => ~Past(3, 3)) => adm[op] = 1
              /\ op = "create" /\ Past(3, 3) => adm[op] = 2

\* What the Provider has seen: a dispatch consumed an admission, and a second
\* admission is signed only for a request the Provider has recorded.
Seen ==
    /\ \A op \in Ops, n \in 1..2 : <<op, n>> \in used \cup late => n <= adm[op]
    /\ \A op \in Ops :
          /\ dispatched[op] \in {0, 1}
          /\ dispatched[op] = 1 => \E n \in 1..2 : <<op, n>> \in used
          /\ adm[op] = 2 => ops[op] # "none"

\* What an answer that has arrived tells of the Provider.
Told ==
    InCase({"call"}) =>
        /\ IsMutation /\ Step.of = "stale" =>
              (wire # "answered" /\ ~retried => <<"stale", 1>> \notin used) /\ (attempt > 1 => retried)
        /\ wire = "answered" /\ IsMutation =>
              /\ answer \notin Throttled => <<Step.of, adm[Step.of]>> \in used
              /\ answer \in SuccessfulMutationStatus => ops[Step.of] # "none"
              /\ answer = "403" /\ Step.of = "cross" => dispatched["cross"] = 0
              /\ answer = "409" /\ Step.of = "stale" /\ ~retried => dispatched["stale"] = 0
        /\ wire = "answered" /\ Step.sort = "operation" /\ answer \in {"succeeded", "cancelled"} =>
              ops[Step.of] = answer
        /\ wire = "answered" /\ Step.sort \in {"document", "discovery"} /\ answer = "document" =>
              altered # Step.of

\* What a step that has been passed says of the Provider, from then on.
StepTrue(p, k, i) ==
    LET step == Cases[p][k][i] IN
    /\ IsCall(step, "mutation") => /\ <<step.of, AdmissionOf(k, i)>> \in used
                                   /\ step.good = SuccessfulMutationStatus => ops[step.of] # "none"
                                   /\ step.of = "cross" => dispatched["cross"] = 0
                                   /\ step.of = "stale" /\ ~retried => dispatched["stale"] = 0
    /\ IsCall(step, "operation") => ops[step.of] \in step.good
    /\ p = "reconstruction" /\ (IsCall(step, "document") \/ IsCall(step, "discovery")) =>
          altered # step.of

CaseTrue(p, k) == \A i \in 1..Len(Cases[p][k]) : StepTrue(p, k, i)

\* Every step passed was as the case claims, in this case and the ones before it.
Claims ==
    /\ \A p \in Phases : \A k \in 1..reported[p] : CaseTrue(p, k)
    /\ pc = "report" => CaseTrue(phase, next)
    /\ pc = "case" => \A i \in 1..(at - 1) : StepTrue(phase, next + 1, i)

IInv == /\ TypeOK /\ Flow /\ Stages /\ Held /\ Admissions /\ Seen /\ Told /\ Claims
        /\ ReportedStages /\ SuccessReportsAll

-----------------------------------------------------------------------------
(* What the scripts are *)

\* Each kind of step is well formed.
SoundStep(step) ==
    /\ step.do \in {"enter", "build", "keep", "sign", "check", "live", "bind", "own", "call",
                    "start", "gateway", "stop"}
    /\ step.do = "build" => step.actor \in {"controller_a", "controller_b", "same_ca_unadmitted"}
    /\ step.do = "keep" => step.actor \in {"controller_a", "controller_b"}
    /\ step.do = "sign" => step.of \in Ops
    /\ step.do = "call" => step.tries \in 1..MaxPollAttempts
    /\ IsCall(step, "mutation") =>
          /\ step.of \in Ops /\ \A answered \in step.good : answered \notin Throttled
          /\ step.of = "cross" => step.good = {"403"}
          /\ step.of = "stale" => step.good = {"409"}
    /\ IsCall(step, "operation") => step.of \in Ops /\ step.good \in {{"succeeded"}, {"cancelled"}}
    /\ IsCall(step, "document") \/ IsCall(step, "discovery") => step.good = {"document"}

\* A script enters its case once, and stops or keeps the Gateway it starts.
Sound(script) ==
    /\ Len(script) \in Nat \ {0}
    /\ \A i \in 1..Len(script) : SoundStep(script[i])
    /\ \A i \in 1..Len(script) : script[i].do = "enter" <=> i = 1
    /\ \/ \A i \in 1..Len(script) : script[i].do \notin {"start", "stop", "own"}
       \/ \E first, last \in 1..Len(script) :
             /\ first < last
             /\ \A i \in 1..Len(script) : /\ script[i].do = "start" <=> i = first
                                          /\ script[i].do \in {"stop", "own"} <=> i = last

LEMMA StepsAreSound ==
    /\ \A stage, holding : SoundStep(Enter(stage, holding))
    /\ \A actor \in {"controller_a", "controller_b", "same_ca_unadmitted"} : SoundStep(BuildAccess(actor))
    /\ \A actor \in {"controller_a", "controller_b"} : SoundStep(KeepAccess(actor))
    /\ \A op \in Ops : SoundStep(Sign(op))
    /\ SoundStep(ValidateUnchanged) /\ SoundStep(NotExpired) /\ \A stage : SoundStep(Bind(stage))
    /\ SoundStep(StartGateway) /\ SoundStep(StopGateway) /\ SoundStep(KeepGateway)
    /\ \A call : SoundStep(Gateway(call))
<1> USE DEF SoundStep, IsCall
<1>1. \A stage, holding : SoundStep(Enter(stage, holding))
  BY DEF Enter
<1>2. /\ \A actor \in {"controller_a", "controller_b", "same_ca_unadmitted"} : SoundStep(BuildAccess(actor))
      /\ \A actor \in {"controller_a", "controller_b"} : SoundStep(KeepAccess(actor))
  BY DEF BuildAccess, KeepAccess
<1>3. (\A op \in Ops : SoundStep(Sign(op))) /\ \A stage : SoundStep(Bind(stage))
  BY DEF Sign, Bind
<1>4. SoundStep(ValidateUnchanged) /\ SoundStep(NotExpired)
  BY DEF ValidateUnchanged, NotExpired
<1>5. SoundStep(StartGateway) /\ SoundStep(StopGateway) /\ SoundStep(KeepGateway)
  BY DEF StartGateway, StopGateway, KeepGateway
<1>6. \A call : SoundStep(Gateway(call))
  BY DEF Gateway
<1> QED
  BY <1>1, <1>2, <1>3, <1>4, <1>5, <1>6

LEMMA CallsAreSound ==
    /\ SoundStep(SubmitCreate) /\ SoundStep(SubmitCreateReplay)
    /\ \A op \in {"exec", "cancellable"} : /\ SoundStep(SubmitExec(op, SuccessfulMutationStatus))
                                           /\ SoundStep(SubmitExec(op, {"accepted", "running"}))
    /\ SoundStep(SubmitRejectedExec) /\ SoundStep(SubmitCancelExec) /\ SoundStep(SubmitRuntimeSession)
    /\ SoundStep(SubmitArtifact) /\ SoundStep(SubmitCrossTenantArtifact)
    /\ \A op \in Ops, want \in {"succeeded", "cancelled"} : SoundStep(PollExpectedOperationStatus(op, want))
    /\ SoundStep(PollReadySandbox) /\ \A doc : SoundStep(ReadScenarioRetained(doc))
    /\ SoundStep(ReadCrossTenantArtifactOperation) /\ SoundStep(ReadSandboxWithWrongMTLSCaller)
    /\ SoundStep(DiscoverAdmittedCapabilities) /\ SoundStep(DiscoverUnadmittedCapabilities)
<1>0. 2 \in 1..MaxPollAttempts /\ MaxPollAttempts \in 1..MaxPollAttempts
  BY PollAssumption
<1> USE <1>0 DEF SoundStep, IsCall, Mutation, Read, Ops, Throttled
<1>1. SoundStep(SubmitCreate) /\ SoundStep(SubmitCreateReplay) /\ SoundStep(SubmitRejectedExec)
  BY DEF SubmitCreate, SubmitCreateReplay, SubmitRejectedExec, SuccessfulMutationStatus
<1>2. \A op \in {"exec", "cancellable"} : /\ SoundStep(SubmitExec(op, SuccessfulMutationStatus))
                                           /\ SoundStep(SubmitExec(op, {"accepted", "running"}))
  BY DEF SubmitExec, SuccessfulMutationStatus
<1>3. SoundStep(SubmitCancelExec) /\ SoundStep(SubmitRuntimeSession)
  BY DEF SubmitCancelExec, SubmitRuntimeSession, SuccessfulMutationStatus
<1>4. SoundStep(SubmitArtifact) /\ SoundStep(SubmitCrossTenantArtifact)
  BY DEF SubmitArtifact, SubmitCrossTenantArtifact, SuccessfulMutationStatus
<1>5. \A op \in Ops, want \in {"succeeded", "cancelled"} : SoundStep(PollExpectedOperationStatus(op, want))
  BY DEF PollExpectedOperationStatus
<1>6. SoundStep(PollReadySandbox) /\ \A doc : SoundStep(ReadScenarioRetained(doc))
  BY DEF PollReadySandbox, ReadScenarioRetained
<1>7. SoundStep(ReadCrossTenantArtifactOperation) /\ SoundStep(ReadSandboxWithWrongMTLSCaller)
  BY DEF ReadCrossTenantArtifactOperation, ReadSandboxWithWrongMTLSCaller
<1>8. SoundStep(DiscoverAdmittedCapabilities) /\ SoundStep(DiscoverUnadmittedCapabilities)
  BY DEF DiscoverAdmittedCapabilities, DiscoverUnadmittedCapabilities
<1> QED
  BY <1>1, <1>2, <1>3, <1>4, <1>5, <1>6, <1>7, <1>8

\* What each step does.
LEMMA StepKinds ==
    /\ \A stage, holding : Enter(stage, holding).do = "enter" /\ Enter(stage, holding).stage = stage
    /\ \A actor : BuildAccess(actor).do = "build" /\ KeepAccess(actor).do = "keep"
    /\ \A op : Sign(op).do = "sign" /\ Sign(op).of = op
    /\ ValidateUnchanged.do = "check" /\ NotExpired.do = "live"
    /\ \A stage : Bind(stage).do = "bind" /\ Bind(stage).stage = stage
    /\ StartGateway.do = "start" /\ StopGateway.do = "stop" /\ KeepGateway.do = "own"
    /\ \A call : Gateway(call).do = "gateway"
    /\ \A op, good, again : /\ Mutation(op, good, again).do = "call"
                            /\ Mutation(op, good, again).sort = "mutation"
                            /\ Mutation(op, good, again).of = op
                            /\ Mutation(op, good, again).good = good
    /\ \A sort, of, good, again : /\ Read(sort, of, good, again).do = "call"
                                  /\ Read(sort, of, good, again).sort = sort
                                  /\ Read(sort, of, good, again).of = of
                                  /\ Read(sort, of, good, again).good = good
  BY DEF Enter, BuildAccess, KeepAccess, Sign, ValidateUnchanged, NotExpired, Bind, StartGateway,
     StopGateway, KeepGateway, Gateway, Mutation, Read

LEMMA CallKinds ==
    /\ SubmitCreate.do = "call" /\ SubmitCreateReplay.do = "call" /\ SubmitRejectedExec.do = "call"
    /\ \A op, good : SubmitExec(op, good).do = "call"
    /\ SubmitCancelExec.do = "call" /\ SubmitRuntimeSession.do = "call"
    /\ SubmitArtifact.do = "call" /\ SubmitCrossTenantArtifact.do = "call"
    /\ \A op, want : PollExpectedOperationStatus(op, want).do = "call"
    /\ PollReadySandbox.do = "call" /\ \A doc : ReadScenarioRetained(doc).do = "call"
    /\ ReadCrossTenantArtifactOperation.do = "call" /\ ReadSandboxWithWrongMTLSCaller.do = "call"
    /\ DiscoverAdmittedCapabilities.do = "call" /\ DiscoverUnadmittedCapabilities.do = "call"
  BY StepKinds DEF SubmitCreate, SubmitCreateReplay, SubmitRejectedExec, SubmitExec, SubmitCancelExec,
     SubmitRuntimeSession, SubmitArtifact, SubmitCrossTenantArtifact, PollExpectedOperationStatus,
     PollReadySandbox, ReadScenarioRetained, ReadCrossTenantArtifactOperation,
     ReadSandboxWithWrongMTLSCaller, DiscoverAdmittedCapabilities, DiscoverUnadmittedCapabilities

LEMMA ScriptsAreSound ==
    /\ Sound(CapabilityDiscovery) /\ Sound(Create) /\ Sound(Replay) /\ Sound(LifecycleCompletion)
    /\ Sound(ExecResultUsage) /\ Sound(StaleFencing) /\ Sound(ExecCancellation) /\ Sound(TerminalSession)
    /\ Sound(GatewayRoundTrip) /\ Sound(GatewayAuthorityRejections) /\ Sound(GatewayGrantExpiry)
    /\ Sound(GatewayRevocation) /\ Sound(ArtifactStaging) /\ Sound(CrossTenantArtifactRejection)
    /\ Sound(MTLSCallerBindingRejection) /\ Sound(ReconstructionCapability)
    /\ Sound(ReconstructionLifecycle) /\ Sound(ReconstructionEvidence) /\ Sound(ReconstructionHandoff)
    /\ Sound(ReconstructionReconnect)
<1>1. Sound(CapabilityDiscovery)
  BY StepsAreSound, CallsAreSound, StepKinds, CallKinds DEF CapabilityDiscovery, Sound, Ops
<1>2. Sound(Create)
  BY StepsAreSound, CallsAreSound, StepKinds, CallKinds DEF Create, Sound, Ops
<1>3. Sound(Replay)
  BY StepsAreSound, CallsAreSound, StepKinds, CallKinds DEF Replay, Sound, Ops
<1>4. Sound(LifecycleCompletion)
  BY StepsAreSound, CallsAreSound, StepKinds, CallKinds DEF LifecycleCompletion, Sound, Ops
<1>5. Sound(ExecResultUsage)
  BY StepsAreSound, CallsAreSound, StepKinds, CallKinds DEF ExecResultUsage, Sound, Ops
<1>6. Sound(StaleFencing)
  BY StepsAreSound, CallsAreSound, StepKinds, CallKinds DEF StaleFencing, Sound, Ops
<1>7. Sound(ExecCancellation)
  BY StepsAreSound, CallsAreSound, StepKinds, CallKinds DEF ExecCancellation, Sound, Ops
<1>8. Sound(TerminalSession)
  BY StepsAreSound, CallsAreSound, StepKinds, CallKinds DEF TerminalSession, Sound, Ops
<1>9. Sound(ArtifactStaging)
  BY StepsAreSound, CallsAreSound, StepKinds, CallKinds DEF ArtifactStaging, Sound, Ops
<1>10. Sound(CrossTenantArtifactRejection)
  BY StepsAreSound, CallsAreSound, StepKinds, CallKinds DEF CrossTenantArtifactRejection, Sound, Ops
<1>11. Sound(MTLSCallerBindingRejection)
  BY StepsAreSound, CallsAreSound, StepKinds, CallKinds DEF MTLSCallerBindingRejection, Sound, Ops
<1>12. Sound(ReconstructionLifecycle)
  BY StepsAreSound, CallsAreSound, StepKinds, CallKinds DEF ReconstructionLifecycle, Sound, Ops
<1>13. Sound(ReconstructionEvidence)
  BY StepsAreSound, CallsAreSound, StepKinds, CallKinds DEF ReconstructionEvidence, Sound, Ops
<1>14. Sound(ReconstructionHandoff)
  BY StepsAreSound, CallsAreSound, StepKinds, CallKinds DEF ReconstructionHandoff, Sound, Ops
<1>15. Sound(ReconstructionReconnect)
  BY StepsAreSound, CallsAreSound, StepKinds, CallKinds DEF ReconstructionReconnect, Sound, Ops
<1>16. Sound(GatewayRoundTrip)
  <2>1. Len(GatewayRoundTrip) = 11 /\ \A i \in 1..11 : SoundStep(GatewayRoundTrip[i])
    BY StepsAreSound, CallsAreSound DEF GatewayRoundTrip, OpenGateway
  <2>2. \A i \in 1..11 : GatewayRoundTrip[i].do = "enter" <=> i = 1
    BY StepKinds, CallKinds DEF GatewayRoundTrip, OpenGateway
  <2>3. \A i \in 1..11 : GatewayRoundTrip[i].do = "start" <=> i = 2
    BY StepKinds, CallKinds DEF GatewayRoundTrip, OpenGateway
  <2>4. \A i \in 1..11 : GatewayRoundTrip[i].do \in {"stop", "own"} <=> i = 10
    BY StepKinds, CallKinds DEF GatewayRoundTrip, OpenGateway
  <2> QED
    BY <2>1, <2>2, <2>3, <2>4 DEF Sound
<1>17. Sound(GatewayAuthorityRejections)
  <2>1. Len(GatewayAuthorityRejections) = 11 /\ \A i \in 1..11 : SoundStep(GatewayAuthorityRejections[i])
    BY StepsAreSound, CallsAreSound DEF GatewayAuthorityRejections, OpenGateway
  <2>2. \A i \in 1..11 : GatewayAuthorityRejections[i].do = "enter" <=> i = 1
    BY StepKinds, CallKinds DEF GatewayAuthorityRejections, OpenGateway
  <2>3. \A i \in 1..11 : GatewayAuthorityRejections[i].do = "start" <=> i = 2
    BY StepKinds, CallKinds DEF GatewayAuthorityRejections, OpenGateway
  <2>4. \A i \in 1..11 : GatewayAuthorityRejections[i].do \in {"stop", "own"} <=> i = 10
    BY StepKinds, CallKinds DEF GatewayAuthorityRejections, OpenGateway
  <2> QED
    BY <2>1, <2>2, <2>3, <2>4 DEF Sound
<1>18. Sound(GatewayGrantExpiry)
  <2>1. Len(GatewayGrantExpiry) = 12 /\ \A i \in 1..12 : SoundStep(GatewayGrantExpiry[i])
    BY StepsAreSound, CallsAreSound DEF GatewayGrantExpiry, OpenGateway
  <2>2. \A i \in 1..12 : GatewayGrantExpiry[i].do = "enter" <=> i = 1
    BY StepKinds, CallKinds DEF GatewayGrantExpiry, OpenGateway
  <2>3. \A i \in 1..12 : GatewayGrantExpiry[i].do = "start" <=> i = 2
    BY StepKinds, CallKinds DEF GatewayGrantExpiry, OpenGateway
  <2>4. \A i \in 1..12 : GatewayGrantExpiry[i].do \in {"stop", "own"} <=> i = 11
    BY StepKinds, CallKinds DEF GatewayGrantExpiry, OpenGateway
  <2> QED
    BY <2>1, <2>2, <2>3, <2>4 DEF Sound
<1>19. Sound(GatewayRevocation)
  <2>1. Len(GatewayRevocation) = 13 /\ \A i \in 1..13 : SoundStep(GatewayRevocation[i])
    BY StepsAreSound, CallsAreSound DEF GatewayRevocation, OpenGateway
  <2>2. \A i \in 1..13 : GatewayRevocation[i].do = "enter" <=> i = 1
    BY StepKinds, CallKinds DEF GatewayRevocation, OpenGateway
  <2>3. \A i \in 1..13 : GatewayRevocation[i].do = "start" <=> i = 2
    BY StepKinds, CallKinds DEF GatewayRevocation, OpenGateway
  <2>4. \A i \in 1..13 : GatewayRevocation[i].do \in {"stop", "own"} <=> i = 12
    BY StepKinds, CallKinds DEF GatewayRevocation, OpenGateway
  <2> QED
    BY <2>1, <2>2, <2>3, <2>4 DEF Sound
<1>20. Sound(ReconstructionCapability)
  <2>1. /\ SoundStep(BuildAccess("controller_a")) /\ SoundStep(Gateway("policy"))
        /\ SoundStep(DiscoverAdmittedCapabilities) /\ SoundStep(Enter(InitialComplete, {}))
        /\ SoundStep(StartGateway) /\ SoundStep(ValidateUnchanged) /\ SoundStep(NotExpired)
        /\ SoundStep(KeepGateway)
    BY StepsAreSound, CallsAreSound
  <2>5. Len(ReconstructionCapability) = 8 /\ \A i \in 1..8 : SoundStep(ReconstructionCapability[i])
    BY <2>1 DEF ReconstructionCapability
  <2>2. \A i \in 1..8 : ReconstructionCapability[i].do = "enter" <=> i = 1
    BY StepKinds, CallKinds DEF ReconstructionCapability
  <2>3. \A i \in 1..8 : ReconstructionCapability[i].do = "start" <=> i = 4
    BY StepKinds, CallKinds DEF ReconstructionCapability
  <2>4. \A i \in 1..8 : ReconstructionCapability[i].do \in {"stop", "own"} <=> i = 8
    BY StepKinds, CallKinds DEF ReconstructionCapability
  <2> QED
    BY <2>2, <2>3, <2>4, <2>5 DEF Sound
<1> QED
  BY <1>1, <1>2, <1>3, <1>4, <1>5, <1>6, <1>7, <1>8, <1>9, <1>10,
     <1>11, <1>12, <1>13, <1>14, <1>15, <1>16, <1>17, <1>18, <1>19, <1>20


-----------------------------------------------------------------------------
(* Where the scripts sign, submit, bind and start a Gateway *)

SignedAt(op, k, i) ==
    (k = CaseOf[op] /\ i = SpotOf[op]) \/ (op = "create" /\ k = 3 /\ i = 3)

SubmittedAt(op, k, i) ==
    IF op = "create" THEN (k = 2 /\ i = 4) \/ (k = 3 /\ i \in {2, 4})
    ELSE k = CaseOf[op] /\ i = SpotOf[op] + 1

\* A script of the initial phase signs before it submits, binds once, to a later
\* stage and without a Gateway, and needs a Gateway only when the terminal is bound.
InitialScript(k, script) ==
    /\ script[1].stage \in 1..InitialComplete
    /\ \A i \in 1..Len(script) :
          /\ script[i].do # "own"
          /\ script[i].do = "sign" => SignedAt(script[i].of, k, i)
          /\ IsCall(script[i], "mutation") => SubmittedAt(script[i].of, k, i)
          /\ script[i].do = "start" => script[1].stage = TerminalBound
          /\ script[i].do = "bind" =>
                /\ script[i].stage \in 1..InitialComplete /\ script[1].stage < script[i].stage
                /\ \A j \in 1..Len(script) :
                      script[j].do # "start" /\ (script[j].do = "bind" => j = i)

\* A script of the reconstruction phase changes nothing; the first starts and
\* keeps the Gateway.
ReconstructionScript(k, script) ==
    /\ script[1].stage = InitialComplete
    /\ \A i \in 1..Len(script) :
          /\ script[i].do \notin {"sign", "bind", "keep", "stop"} /\ ~IsCall(script[i], "mutation")
          /\ script[i].do \in {"start", "own"} => k = 1
          /\ script[i].do = "own" => i = Len(script)

\* The mutations and the other calls by what they ask for.
LEMMA Calls ==
    /\ IsCall(SubmitCreate, "mutation") /\ SubmitCreate.of = "create"
    /\ IsCall(SubmitCreateReplay, "mutation") /\ SubmitCreateReplay.of = "create"
    /\ IsCall(SubmitRejectedExec, "mutation") /\ SubmitRejectedExec.of = "stale"
    /\ \A op, good : IsCall(SubmitExec(op, good), "mutation") /\ SubmitExec(op, good).of = op
    /\ IsCall(SubmitCancelExec, "mutation") /\ SubmitCancelExec.of = "cancel"
    /\ IsCall(SubmitRuntimeSession, "mutation") /\ SubmitRuntimeSession.of = "terminal"
    /\ IsCall(SubmitArtifact, "mutation") /\ SubmitArtifact.of = "artifact"
    /\ IsCall(SubmitCrossTenantArtifact, "mutation") /\ SubmitCrossTenantArtifact.of = "cross"
    /\ \A op, want : ~IsCall(PollExpectedOperationStatus(op, want), "mutation")
    /\ ~IsCall(PollReadySandbox, "mutation") /\ \A doc : ~IsCall(ReadScenarioRetained(doc), "mutation")
    /\ ~IsCall(ReadCrossTenantArtifactOperation, "mutation")
    /\ ~IsCall(ReadSandboxWithWrongMTLSCaller, "mutation")
    /\ ~IsCall(DiscoverAdmittedCapabilities, "mutation")
    /\ ~IsCall(DiscoverUnadmittedCapabilities, "mutation")
<1>1. \A op, good, again : /\ IsCall(Mutation(op, good, again), "mutation")
                           /\ Mutation(op, good, again).of = op
  BY StepKinds DEF IsCall
<1>2. \A sort, of, good, again : IsCall(Read(sort, of, good, again), "mutation") => sort = "mutation"
  BY StepKinds DEF IsCall
<1>3. /\ IsCall(SubmitCreate, "mutation") /\ SubmitCreate.of = "create"
      /\ IsCall(SubmitCreateReplay, "mutation") /\ SubmitCreateReplay.of = "create"
      /\ IsCall(SubmitRejectedExec, "mutation") /\ SubmitRejectedExec.of = "stale"
  BY <1>1 DEF SubmitCreate, SubmitCreateReplay, SubmitRejectedExec
<1>4. \A op, good : IsCall(SubmitExec(op, good), "mutation") /\ SubmitExec(op, good).of = op
  BY <1>1 DEF SubmitExec
<1>5. /\ IsCall(SubmitCancelExec, "mutation") /\ SubmitCancelExec.of = "cancel"
      /\ IsCall(SubmitRuntimeSession, "mutation") /\ SubmitRuntimeSession.of = "terminal"
      /\ IsCall(SubmitArtifact, "mutation") /\ SubmitArtifact.of = "artifact"
      /\ IsCall(SubmitCrossTenantArtifact, "mutation") /\ SubmitCrossTenantArtifact.of = "cross"
  BY <1>1 DEF SubmitCancelExec, SubmitRuntimeSession, SubmitArtifact, SubmitCrossTenantArtifact
<1>6. \A op, want : ~IsCall(PollExpectedOperationStatus(op, want), "mutation")
  BY <1>2 DEF PollExpectedOperationStatus
<1>7. ~IsCall(PollReadySandbox, "mutation") /\ \A doc : ~IsCall(ReadScenarioRetained(doc), "mutation")
  BY <1>2 DEF PollReadySandbox, ReadScenarioRetained
<1>8. /\ ~IsCall(ReadCrossTenantArtifactOperation, "mutation")
      /\ ~IsCall(ReadSandboxWithWrongMTLSCaller, "mutation")
      /\ ~IsCall(DiscoverAdmittedCapabilities, "mutation")
      /\ ~IsCall(DiscoverUnadmittedCapabilities, "mutation")
  BY <1>2 DEF ReadCrossTenantArtifactOperation, ReadSandboxWithWrongMTLSCaller,
     DiscoverAdmittedCapabilities, DiscoverUnadmittedCapabilities
<1> QED
  BY <1>3, <1>4, <1>5, <1>6, <1>7, <1>8

\* Steps that are no calls.
LEMMA NoCalls ==
    \A step : step.do # "call" => ~IsCall(step, "mutation")
  BY DEF IsCall

LEMMA InitialScripts ==
    /\ InitialScript(1, CapabilityDiscovery) /\ InitialScript(2, Create) /\ InitialScript(3, Replay)
    /\ InitialScript(4, LifecycleCompletion) /\ InitialScript(5, ExecResultUsage)
    /\ InitialScript(6, StaleFencing) /\ InitialScript(7, ExecCancellation)
    /\ InitialScript(8, TerminalSession) /\ InitialScript(9, GatewayRoundTrip)
    /\ InitialScript(10, GatewayAuthorityRejections) /\ InitialScript(11, GatewayGrantExpiry)
    /\ InitialScript(12, GatewayRevocation) /\ InitialScript(13, ArtifactStaging)
    /\ InitialScript(14, CrossTenantArtifactRejection) /\ InitialScript(15, MTLSCallerBindingRejection)
<1>1. InitialScript(1, CapabilityDiscovery)
  BY StepKinds, CallKinds, Calls, NoCalls DEF CapabilityDiscovery, InitialScript, SignedAt, SubmittedAt,
     CaseOf, SpotOf, Planned, CapabilitiesBound, LifecycleBound, ExecBound, TerminalBound, InitialComplete
<1>2. InitialScript(2, Create)
  BY StepKinds, CallKinds, Calls, NoCalls DEF Create, InitialScript, SignedAt, SubmittedAt,
     CaseOf, SpotOf, Planned, CapabilitiesBound, LifecycleBound, ExecBound, TerminalBound, InitialComplete
<1>3. InitialScript(3, Replay)
  BY StepKinds, CallKinds, Calls, NoCalls DEF Replay, InitialScript, SignedAt, SubmittedAt,
     CaseOf, SpotOf, Planned, CapabilitiesBound, LifecycleBound, ExecBound, TerminalBound, InitialComplete
<1>4. InitialScript(4, LifecycleCompletion)
  BY StepKinds, CallKinds, Calls, NoCalls DEF LifecycleCompletion, InitialScript, SignedAt, SubmittedAt,
     CaseOf, SpotOf, Planned, CapabilitiesBound, LifecycleBound, ExecBound, TerminalBound, InitialComplete
<1>5. InitialScript(5, ExecResultUsage)
  BY StepKinds, CallKinds, Calls, NoCalls DEF ExecResultUsage, InitialScript, SignedAt, SubmittedAt,
     CaseOf, SpotOf, Planned, CapabilitiesBound, LifecycleBound, ExecBound, TerminalBound, InitialComplete
<1>6. InitialScript(6, StaleFencing)
  BY StepKinds, CallKinds, Calls, NoCalls DEF StaleFencing, InitialScript, SignedAt, SubmittedAt,
     CaseOf, SpotOf, Planned, CapabilitiesBound, LifecycleBound, ExecBound, TerminalBound, InitialComplete
<1>7. InitialScript(7, ExecCancellation)
  BY StepKinds, CallKinds, Calls, NoCalls DEF ExecCancellation, InitialScript, SignedAt, SubmittedAt,
     CaseOf, SpotOf, Planned, CapabilitiesBound, LifecycleBound, ExecBound, TerminalBound, InitialComplete
<1>8. InitialScript(8, TerminalSession)
  BY StepKinds, CallKinds, Calls, NoCalls DEF TerminalSession, InitialScript, SignedAt, SubmittedAt,
     CaseOf, SpotOf, Planned, CapabilitiesBound, LifecycleBound, ExecBound, TerminalBound, InitialComplete
<1>9. InitialScript(9, GatewayRoundTrip)
  <2>1. GatewayRoundTrip[1].stage = TerminalBound /\ Len(GatewayRoundTrip) = 11
    BY StepKinds DEF GatewayRoundTrip, OpenGateway
  <2>2. \A i \in 1..11 : GatewayRoundTrip[i].do \notin {"sign", "bind", "own", "call"}
    BY StepKinds DEF GatewayRoundTrip, OpenGateway
  <2> QED
    BY <2>1, <2>2, NoCalls DEF InitialScript, TerminalBound, InitialComplete
<1>10. InitialScript(10, GatewayAuthorityRejections)
  <2>1. GatewayAuthorityRejections[1].stage = TerminalBound /\ Len(GatewayAuthorityRejections) = 11
    BY StepKinds DEF GatewayAuthorityRejections, OpenGateway
  <2>2. \A i \in 1..11 : GatewayAuthorityRejections[i].do \notin {"sign", "bind", "own", "call"}
    BY StepKinds DEF GatewayAuthorityRejections, OpenGateway
  <2> QED
    BY <2>1, <2>2, NoCalls DEF InitialScript, TerminalBound, InitialComplete
<1>11. InitialScript(11, GatewayGrantExpiry)
  <2>1. GatewayGrantExpiry[1].stage = TerminalBound /\ Len(GatewayGrantExpiry) = 12
    BY StepKinds DEF GatewayGrantExpiry, OpenGateway
  <2>2. \A i \in 1..12 : GatewayGrantExpiry[i].do \notin {"sign", "bind", "own", "call"}
    BY StepKinds DEF GatewayGrantExpiry, OpenGateway
  <2> QED
    BY <2>1, <2>2, NoCalls DEF InitialScript, TerminalBound, InitialComplete
<1>12. InitialScript(12, GatewayRevocation)
  <2>1. GatewayRevocation[1].stage = TerminalBound /\ Len(GatewayRevocation) = 13
    BY StepKinds DEF GatewayRevocation, OpenGateway
  <2>2. \A i \in 1..13 : GatewayRevocation[i].do \notin {"sign", "bind", "own", "call"}
    BY StepKinds DEF GatewayRevocation, OpenGateway
  <2> QED
    BY <2>1, <2>2, NoCalls DEF InitialScript, TerminalBound, InitialComplete
<1>13. InitialScript(13, ArtifactStaging)
  BY StepKinds, CallKinds, Calls, NoCalls DEF ArtifactStaging, InitialScript, SignedAt, SubmittedAt,
     CaseOf, SpotOf, Planned, CapabilitiesBound, LifecycleBound, ExecBound, TerminalBound, InitialComplete
<1>14. InitialScript(14, CrossTenantArtifactRejection)
  BY StepKinds, CallKinds, Calls, NoCalls DEF CrossTenantArtifactRejection, InitialScript, SignedAt,
     SubmittedAt, CaseOf, SpotOf, Planned, CapabilitiesBound, LifecycleBound, ExecBound, TerminalBound,
     InitialComplete
<1>15. InitialScript(15, MTLSCallerBindingRejection)
  BY StepKinds, CallKinds, Calls, NoCalls DEF MTLSCallerBindingRejection, InitialScript, SignedAt,
     SubmittedAt, CaseOf, SpotOf, Planned, CapabilitiesBound, LifecycleBound, ExecBound, TerminalBound,
     InitialComplete
<1> QED
  BY <1>1, <1>2, <1>3, <1>4, <1>5, <1>6, <1>7, <1>8, <1>9, <1>10, <1>11, <1>12, <1>13, <1>14, <1>15

LEMMA ReconstructionScripts ==
    /\ ReconstructionScript(1, ReconstructionCapability)
    /\ ReconstructionScript(2, ReconstructionLifecycle)
    /\ ReconstructionScript(3, ReconstructionEvidence)
    /\ ReconstructionScript(4, ReconstructionHandoff)
    /\ ReconstructionScript(5, ReconstructionReconnect)
<1>1. ReconstructionScript(1, ReconstructionCapability)
  BY StepKinds, CallKinds, Calls, NoCalls DEF ReconstructionCapability, ReconstructionScript
<1>2. ReconstructionScript(2, ReconstructionLifecycle)
  BY StepKinds, CallKinds, Calls, NoCalls DEF ReconstructionLifecycle, ReconstructionScript
<1>3. ReconstructionScript(3, ReconstructionEvidence)
  BY StepKinds, CallKinds, Calls, NoCalls DEF ReconstructionEvidence, ReconstructionScript
<1>4. ReconstructionScript(4, ReconstructionHandoff)
  BY StepKinds, CallKinds, Calls, NoCalls DEF ReconstructionHandoff, ReconstructionScript
<1>5. ReconstructionScript(5, ReconstructionReconnect)
  BY StepKinds, CallKinds, Calls, NoCalls DEF ReconstructionReconnect, ReconstructionScript
<1> QED
  BY <1>1, <1>2, <1>3, <1>4, <1>5

\* The cases of each phase by their number.
LEMMA CaseNames ==
    /\ Len(Cases["initial"]) = 15 /\ Len(Cases["reconstruction"]) = 5
    /\ Cases["initial"][1] = CapabilityDiscovery /\ Cases["initial"][2] = Create
    /\ Cases["initial"][3] = Replay /\ Cases["initial"][4] = LifecycleCompletion
    /\ Cases["initial"][5] = ExecResultUsage /\ Cases["initial"][6] = StaleFencing
    /\ Cases["initial"][7] = ExecCancellation /\ Cases["initial"][8] = TerminalSession
    /\ Cases["initial"][9] = GatewayRoundTrip /\ Cases["initial"][10] = GatewayAuthorityRejections
    /\ Cases["initial"][11] = GatewayGrantExpiry /\ Cases["initial"][12] = GatewayRevocation
    /\ Cases["initial"][13] = ArtifactStaging /\ Cases["initial"][14] = CrossTenantArtifactRejection
    /\ Cases["initial"][15] = MTLSCallerBindingRejection
    /\ Cases["reconstruction"][1] = ReconstructionCapability
    /\ Cases["reconstruction"][2] = ReconstructionLifecycle
    /\ Cases["reconstruction"][3] = ReconstructionEvidence
    /\ Cases["reconstruction"][4] = ReconstructionHandoff
    /\ Cases["reconstruction"][5] = ReconstructionReconnect
  BY DEF Cases

\* Every case is a sound script of its phase.
LEMMA CaseFacts ==
    /\ \A k \in 1..15 : Sound(Cases["initial"][k]) /\ InitialScript(k, Cases["initial"][k])
    /\ \A k \in 1..5 : Sound(Cases["reconstruction"][k])
                         /\ ReconstructionScript(k, Cases["reconstruction"][k])
<1>1. Sound(Cases["initial"][1]) /\ InitialScript(1, Cases["initial"][1])
  BY CaseNames, ScriptsAreSound, InitialScripts
<1>2. Sound(Cases["initial"][2]) /\ InitialScript(2, Cases["initial"][2])
  BY CaseNames, ScriptsAreSound, InitialScripts
<1>3. Sound(Cases["initial"][3]) /\ InitialScript(3, Cases["initial"][3])
  BY CaseNames, ScriptsAreSound, InitialScripts
<1>4. Sound(Cases["initial"][4]) /\ InitialScript(4, Cases["initial"][4])
  BY CaseNames, ScriptsAreSound, InitialScripts
<1>5. Sound(Cases["initial"][5]) /\ InitialScript(5, Cases["initial"][5])
  BY CaseNames, ScriptsAreSound, InitialScripts
<1>6. Sound(Cases["initial"][6]) /\ InitialScript(6, Cases["initial"][6])
  BY CaseNames, ScriptsAreSound, InitialScripts
<1>7. Sound(Cases["initial"][7]) /\ InitialScript(7, Cases["initial"][7])
  BY CaseNames, ScriptsAreSound, InitialScripts
<1>8. Sound(Cases["initial"][8]) /\ InitialScript(8, Cases["initial"][8])
  BY CaseNames, ScriptsAreSound, InitialScripts
<1>9. Sound(Cases["initial"][9]) /\ InitialScript(9, Cases["initial"][9])
  BY CaseNames, ScriptsAreSound, InitialScripts
<1>10. Sound(Cases["initial"][10]) /\ InitialScript(10, Cases["initial"][10])
  BY CaseNames, ScriptsAreSound, InitialScripts
<1>11. Sound(Cases["initial"][11]) /\ InitialScript(11, Cases["initial"][11])
  BY CaseNames, ScriptsAreSound, InitialScripts
<1>12. Sound(Cases["initial"][12]) /\ InitialScript(12, Cases["initial"][12])
  BY CaseNames, ScriptsAreSound, InitialScripts
<1>13. Sound(Cases["initial"][13]) /\ InitialScript(13, Cases["initial"][13])
  BY CaseNames, ScriptsAreSound, InitialScripts
<1>14. Sound(Cases["initial"][14]) /\ InitialScript(14, Cases["initial"][14])
  BY CaseNames, ScriptsAreSound, InitialScripts
<1>15. Sound(Cases["initial"][15]) /\ InitialScript(15, Cases["initial"][15])
  BY CaseNames, ScriptsAreSound, InitialScripts
<1>16. Sound(Cases["reconstruction"][1]) /\ ReconstructionScript(1, Cases["reconstruction"][1])
  BY CaseNames, ScriptsAreSound, ReconstructionScripts
<1>17. Sound(Cases["reconstruction"][2]) /\ ReconstructionScript(2, Cases["reconstruction"][2])
  BY CaseNames, ScriptsAreSound, ReconstructionScripts
<1>18. Sound(Cases["reconstruction"][3]) /\ ReconstructionScript(3, Cases["reconstruction"][3])
  BY CaseNames, ScriptsAreSound, ReconstructionScripts
<1>19. Sound(Cases["reconstruction"][4]) /\ ReconstructionScript(4, Cases["reconstruction"][4])
  BY CaseNames, ScriptsAreSound, ReconstructionScripts
<1>20. Sound(Cases["reconstruction"][5]) /\ ReconstructionScript(5, Cases["reconstruction"][5])
  BY CaseNames, ScriptsAreSound, ReconstructionScripts
<1>21. \A k \in 1..15 : Sound(Cases["initial"][k]) /\ InitialScript(k, Cases["initial"][k])
  <2> SUFFICES ASSUME NEW k \in 1..15
               PROVE  Sound(Cases["initial"][k]) /\ InitialScript(k, Cases["initial"][k])
    OBVIOUS
  <2>1. \/ k = 1 \/ k = 2 \/ k = 3 \/ k = 4 \/ k = 5 \/ k = 6 \/ k = 7 \/ k = 8 \/ k = 9 \/ k = 10
        \/ k = 11 \/ k = 12 \/ k = 13 \/ k = 14 \/ k = 15
    OBVIOUS
  <2> QED
    BY <2>1, <1>1, <1>2, <1>3, <1>4, <1>5, <1>6, <1>7, <1>8, <1>9, <1>10,
       <1>11, <1>12, <1>13, <1>14, <1>15, Zenon
<1>22. \A k \in 1..5 : /\ Sound(Cases["reconstruction"][k])
                      /\ ReconstructionScript(k, Cases["reconstruction"][k])
  <2> SUFFICES ASSUME NEW k \in 1..5
               PROVE  Sound(Cases["reconstruction"][k]) /\ ReconstructionScript(k, Cases["reconstruction"][k])
    OBVIOUS
  <2>1. k = 1 \/ k = 2 \/ k = 3 \/ k = 4 \/ k = 5
    OBVIOUS
  <2> QED
    BY <2>1, <1>16, <1>17, <1>18, <1>19, <1>20, Zenon
<1> QED
  BY <1>21, <1>22

\* Each request is signed at its place, and create once more by Replay.
LEMMA SignPlaces ==
    /\ \A op \in Ops : /\ CaseOf[op] \in 1..15 /\ SpotOf[op] \in 1..Len(Cases["initial"][CaseOf[op]])
                        /\ Cases["initial"][CaseOf[op]][SpotOf[op]] = Sign(op)
    /\ Len(Cases["initial"][2]) = 5 /\ Len(Cases["initial"][3]) = 5
    /\ Cases["initial"][3][3] = Sign("create")
<1>1. /\ CaseOf["create"] \in 1..15 /\ SpotOf["create"] \in 1..Len(Cases["initial"][CaseOf["create"]])
      /\ Cases["initial"][CaseOf["create"]][SpotOf["create"]] = Sign("create")
  <2>1. CaseOf["create"] = 2 /\ SpotOf["create"] \in 1..4
    BY DEF CaseOf, SpotOf
  <2>2. Cases["initial"][2] = Create
    BY CaseNames
  <2>3. Len(Create) >= 4 /\ Create[SpotOf["create"]] = Sign("create")
    BY DEF Create, SpotOf
  <2> QED
    BY <2>1, <2>2, <2>3
<1>2. /\ CaseOf["exec"] \in 1..15 /\ SpotOf["exec"] \in 1..Len(Cases["initial"][CaseOf["exec"]])
      /\ Cases["initial"][CaseOf["exec"]][SpotOf["exec"]] = Sign("exec")
  <2>1. CaseOf["exec"] = 5 /\ SpotOf["exec"] \in 1..4
    BY DEF CaseOf, SpotOf
  <2>2. Cases["initial"][5] = ExecResultUsage
    BY CaseNames
  <2>3. Len(ExecResultUsage) >= 4 /\ ExecResultUsage[SpotOf["exec"]] = Sign("exec")
    BY DEF ExecResultUsage, SpotOf
  <2> QED
    BY <2>1, <2>2, <2>3
<1>3. /\ CaseOf["stale"] \in 1..15 /\ SpotOf["stale"] \in 1..Len(Cases["initial"][CaseOf["stale"]])
      /\ Cases["initial"][CaseOf["stale"]][SpotOf["stale"]] = Sign("stale")
  <2>1. CaseOf["stale"] = 6 /\ SpotOf["stale"] \in 1..4
    BY DEF CaseOf, SpotOf
  <2>2. Cases["initial"][6] = StaleFencing
    BY CaseNames
  <2>3. Len(StaleFencing) >= 4 /\ StaleFencing[SpotOf["stale"]] = Sign("stale")
    BY DEF StaleFencing, SpotOf
  <2> QED
    BY <2>1, <2>2, <2>3
<1>4. /\ CaseOf["cancellable"] \in 1..15
      /\ SpotOf["cancellable"] \in 1..Len(Cases["initial"][CaseOf["cancellable"]])
      /\ Cases["initial"][CaseOf["cancellable"]][SpotOf["cancellable"]] = Sign("cancellable")
  <2>1. CaseOf["cancellable"] = 7 /\ SpotOf["cancellable"] \in 1..4
    BY DEF CaseOf, SpotOf
  <2>2. Cases["initial"][7] = ExecCancellation
    BY CaseNames
  <2>3. Len(ExecCancellation) >= 4 /\ ExecCancellation[SpotOf["cancellable"]] = Sign("cancellable")
    BY DEF ExecCancellation, SpotOf
  <2> QED
    BY <2>1, <2>2, <2>3
<1>5. /\ CaseOf["cancel"] \in 1..15 /\ SpotOf["cancel"] \in 1..Len(Cases["initial"][CaseOf["cancel"]])
      /\ Cases["initial"][CaseOf["cancel"]][SpotOf["cancel"]] = Sign("cancel")
  <2>1. CaseOf["cancel"] = 7 /\ SpotOf["cancel"] \in 1..4
    BY DEF CaseOf, SpotOf
  <2>2. Cases["initial"][7] = ExecCancellation
    BY CaseNames
  <2>3. Len(ExecCancellation) >= 4 /\ ExecCancellation[SpotOf["cancel"]] = Sign("cancel")
    BY DEF ExecCancellation, SpotOf
  <2> QED
    BY <2>1, <2>2, <2>3
<1>6. /\ CaseOf["terminal"] \in 1..15 /\ SpotOf["terminal"] \in 1..Len(Cases["initial"][CaseOf["terminal"]])
      /\ Cases["initial"][CaseOf["terminal"]][SpotOf["terminal"]] = Sign("terminal")
  <2>1. CaseOf["terminal"] = 8 /\ SpotOf["terminal"] \in 1..4
    BY DEF CaseOf, SpotOf
  <2>2. Cases["initial"][8] = TerminalSession
    BY CaseNames
  <2>3. Len(TerminalSession) >= 4 /\ TerminalSession[SpotOf["terminal"]] = Sign("terminal")
    BY DEF TerminalSession, SpotOf
  <2> QED
    BY <2>1, <2>2, <2>3
<1>7. /\ CaseOf["artifact"] \in 1..15 /\ SpotOf["artifact"] \in 1..Len(Cases["initial"][CaseOf["artifact"]])
      /\ Cases["initial"][CaseOf["artifact"]][SpotOf["artifact"]] = Sign("artifact")
  <2>1. CaseOf["artifact"] = 13 /\ SpotOf["artifact"] \in 1..4
    BY DEF CaseOf, SpotOf
  <2>2. Cases["initial"][13] = ArtifactStaging
    BY CaseNames
  <2>3. Len(ArtifactStaging) >= 4 /\ ArtifactStaging[SpotOf["artifact"]] = Sign("artifact")
    BY DEF ArtifactStaging, SpotOf
  <2> QED
    BY <2>1, <2>2, <2>3
<1>8. /\ CaseOf["cross"] \in 1..15 /\ SpotOf["cross"] \in 1..Len(Cases["initial"][CaseOf["cross"]])
      /\ Cases["initial"][CaseOf["cross"]][SpotOf["cross"]] = Sign("cross")
  <2>1. CaseOf["cross"] = 14 /\ SpotOf["cross"] \in 1..4
    BY DEF CaseOf, SpotOf
  <2>2. Cases["initial"][14] = CrossTenantArtifactRejection
    BY CaseNames
  <2>3. /\ Len(CrossTenantArtifactRejection) >= 4
        /\ CrossTenantArtifactRejection[SpotOf["cross"]] = Sign("cross")
    BY DEF CrossTenantArtifactRejection, SpotOf
  <2> QED
    BY <2>1, <2>2, <2>3
<1>9. /\ Len(Cases["initial"][2]) = 5 /\ Len(Cases["initial"][3]) = 5
      /\ Cases["initial"][3][3] = Sign("create")
  BY CaseNames DEF Create, Replay
<1> QED
  BY <1>1, <1>2, <1>3, <1>4, <1>5, <1>6, <1>7, <1>8, <1>9 DEF Ops


-----------------------------------------------------------------------------
(* The script under way *)

\* A Gateway is open from the step after its start up to the step that stops or
\* keeps it.
LEMMA OpensAlong ==
    ASSUME NEW script, Sound(script), NEW i \in 1..Len(script)
    PROVE  /\ ~Opens(script, 1) /\ ~Opens(script, Len(script) + 1)
           /\ script[i].do = "start" => ~Opens(script, i) /\ Opens(script, i + 1)
           /\ script[i].do \in {"stop", "own"} => Opens(script, i) /\ ~Opens(script, i + 1)
           /\ script[i].do \notin {"start", "stop", "own"} => (Opens(script, i + 1) <=> Opens(script, i))
           /\ Opens(script, i) => \E j \in 1..(i - 1) : script[j].do = "start"
<1>1. ~Opens(script, 1)
  BY DEF Opens
<1>2. CASE \A j \in 1..Len(script) : script[j].do \notin {"start", "stop", "own"}
  BY <1>1, <1>2 DEF Opens, Sound
<1>3. CASE \E first, last \in 1..Len(script) :
              /\ first < last
              /\ \A j \in 1..Len(script) : /\ script[j].do = "start" <=> j = first
                                           /\ script[j].do \in {"stop", "own"} <=> j = last
  <2>1. PICK first \in 1..Len(script), last \in 1..Len(script) :
              /\ first < last
              /\ \A j \in 1..Len(script) : /\ script[j].do = "start" <=> j = first
                                           /\ script[j].do \in {"stop", "own"} <=> j = last
    BY <1>3
  <2>2. \A j \in 1..(Len(script) + 1) : Opens(script, j) <=> first < j /\ j <= last
    <3> SUFFICES ASSUME NEW j \in 1..(Len(script) + 1)
                 PROVE  Opens(script, j) <=> first < j /\ j <= last
      OBVIOUS
    <3>0. Len(script) \in Nat
      BY DEF Sound
    <3>1. (\E m \in 1..(j - 1) : script[m].do = "start") <=> first < j
      BY <2>1, <3>0
    <3>2. (\A m \in 1..(j - 1) : script[m].do \notin {"stop", "own"}) <=> j <= last
      BY <2>1, <3>0
    <3> QED
      BY <3>1, <3>2 DEF Opens
  <2>3. Len(script) \in Nat
    BY DEF Sound
  <2>4. /\ i + 1 \in 1..(Len(script) + 1) /\ i \in 1..(Len(script) + 1)
        /\ Len(script) + 1 \in 1..(Len(script) + 1)
    BY <2>3
  <2>5. Opens(script, i) => \E j \in 1..(i - 1) : script[j].do = "start"
    BY DEF Opens
  <2>6. ~Opens(script, Len(script) + 1)
    BY <2>1, <2>2, <2>3, <2>4
  <2>7. script[i].do = "start" => ~Opens(script, i) /\ Opens(script, i + 1)
    BY <2>1, <2>2, <2>3, <2>4
  <2>8. script[i].do \in {"stop", "own"} => Opens(script, i) /\ ~Opens(script, i + 1)
    BY <2>1, <2>2, <2>3, <2>4
  <2>9. script[i].do \notin {"start", "stop", "own"} => (Opens(script, i + 1) <=> Opens(script, i))
    BY <2>1, <2>2, <2>3, <2>4
  <2> QED
    BY <1>1, <2>5, <2>6, <2>7, <2>8, <2>9
<1> QED
  BY <1>2, <1>3 DEF Sound

\* Types of the variables that say where the caller is.
LEMMA PhaseLength ==
    ASSUME TypeOK
    PROVE  /\ phase = "initial" => Len(Cases[phase]) = 15
           /\ phase = "reconstruction" => Len(Cases[phase]) = 5
           /\ phase \in {"initial", "reconstruction"}
  BY CaseNames DEF TypeOK, Phases

\* What is known of the script of the case being executed.
LEMMA InScript ==
    ASSUME TypeOK, Flow, pc = "case"
    PROVE  /\ next \in Nat /\ next + 1 \in 1..Len(Cases[phase])
           /\ Sound(Script) /\ Len(Script) \in Nat \ {0} /\ at \in 1..(Len(Script) + 1)
           /\ phase = "initial" => next + 1 \in 1..15 /\ InitialScript(next + 1, Script)
           /\ phase = "reconstruction" => next + 1 \in 1..5 /\ ReconstructionScript(next + 1, Script)
<1>1. /\ phase = "initial" => Len(Cases[phase]) = 15
      /\ phase = "reconstruction" => Len(Cases[phase]) = 5
      /\ phase \in {"initial", "reconstruction"}
  BY PhaseLength
<1>2. next \in 0..Len(Cases[phase]) /\ next < Len(Cases[phase]) /\ at \in 1..(Len(Script) + 1)
  BY DEF TypeOK, Flow
<1>3. CASE phase = "initial"
  <2>0. Len(Cases[phase]) = 15
    BY <1>1, <1>3
  <2>1. next \in Nat /\ next + 1 \in 1..15
    BY <1>2, <2>0
  <2>2. Sound(Script) /\ InitialScript(next + 1, Script)
    BY <2>1, <1>3, CaseFacts DEF Script
  <2>3. Len(Script) \in Nat \ {0}
    BY <2>2 DEF Sound
  <2> QED
    BY <1>2, <1>3, <2>0, <2>1, <2>2, <2>3
<1>4. CASE phase = "reconstruction"
  <2>0. Len(Cases[phase]) = 5
    BY <1>1, <1>4
  <2>1. next \in Nat /\ next + 1 \in 1..5
    BY <1>2, <2>0
  <2>2. Sound(Script) /\ ReconstructionScript(next + 1, Script)
    BY <2>1, <1>4, CaseFacts DEF Script
  <2>3. Len(Script) \in Nat \ {0}
    BY <2>2 DEF Sound
  <2> QED
    BY <1>2, <1>4, <2>0, <2>1, <2>2, <2>3
<1> QED
  BY <1>1, <1>3, <1>4

\* What is known of its current step.
LEMMA AtStep ==
    ASSUME TypeOK, Flow, NEW do, InCase(do)
    PROVE  /\ pc = "case" /\ at \in 1..Len(Script) /\ SoundStep(Step) /\ (Step.do = "enter" <=> at = 1)
           /\ Step.do \in do
           /\ phase = "reconstruction" =>
                 Step.do \notin {"sign", "bind", "keep", "stop"} /\ ~IsMutation
           /\ IsMutation => phase = "initial" /\ Step.of \in Ops /\ SubmittedAt(Step.of, next + 1, at)
<1>1. pc = "case" /\ at <= Len(Script) /\ Step.do \in do
  BY DEF InCase
<1>2. at \in 1..Len(Script)
  BY <1>1, InScript
<1>3. SoundStep(Step) /\ (Step.do = "enter" <=> at = 1)
  BY <1>1, <1>2, InScript DEF Sound, Step
<1>4. IsMutation <=> IsCall(Step, "mutation")
  BY DEF IsMutation, IsCall
<1>5. phase \in {"initial", "reconstruction"}
  BY PhaseLength
<1>6. phase = "reconstruction" => Step.do \notin {"sign", "bind", "keep", "stop"} /\ ~IsMutation
  BY <1>1, <1>2, <1>4, InScript DEF ReconstructionScript, Step
<1>7. IsMutation => phase = "initial"
  BY <1>5, <1>6
<1>8. IsMutation => Step.of \in Ops
  BY <1>3, <1>4 DEF SoundStep
<1>9. IsMutation => SubmittedAt(Step.of, next + 1, at)
  BY <1>1, <1>2, <1>4, <1>7, InScript DEF InitialScript, Step
<1> QED
  BY <1>1, <1>2, <1>3, <1>6, <1>7, <1>8, <1>9


\* A mutation is submitted with the admission signed last for its request.
LEMMA AdmissionNow ==
    ASSUME TypeOK, Flow, Admissions, NEW do, InCase(do), IsMutation
    PROVE  /\ adm[Step.of] = AdmissionOf(next + 1, at) /\ adm[Step.of] \in 1..2
           /\ Step.of # "create" => adm[Step.of] = 1
<1> DEFINE op == Step.of
<1>1. pc = "case" /\ phase = "initial" /\ op \in Ops /\ SubmittedAt(op, next + 1, at)
  BY AtStep
<1>2. next \in Nat /\ at \in Nat /\ next + 1 \in 1..15
  BY <1>1, InScript
<1>3. /\ Past(CaseOf[op], SpotOf[op]) /\ (op = "create" => ~Past(3, 3)) => adm[op] = 1
      /\ op = "create" /\ Past(3, 3) => adm[op] = 2
  BY <1>1 DEF Admissions
<1>4. CASE op = "create"
  <2>1. CaseOf[op] = 2 /\ SpotOf[op] = 3
    BY <1>4 DEF CaseOf, SpotOf
  <2>2. (next + 1 = 2 /\ at = 4) \/ (next + 1 = 3 /\ at \in {2, 4})
    BY <1>1, <1>4 DEF SubmittedAt
  <2> QED
    BY <1>2, <1>3, <1>4, <2>1, <2>2 DEF Past, AdmissionOf
<1>5. CASE op # "create"
  <2>1. CaseOf[op] \in Nat /\ CaseOf[op] # 3 /\ SpotOf[op] \in Nat
    BY <1>1, <1>5 DEF CaseOf, SpotOf, Ops
  <2>2. next + 1 = CaseOf[op] /\ at = SpotOf[op] + 1
    BY <1>1, <1>5 DEF SubmittedAt
  <2>3. adm[op] = 1
    BY <1>2, <1>3, <1>5, <2>1, <2>2 DEF Past
  <2> QED
    BY <1>2, <1>5, <2>1, <2>2, <2>3 DEF AdmissionOf
<1> QED
  BY <1>4, <1>5

-----------------------------------------------------------------------------
(* Leaving the process *)

Codes == {ExitSuccess, ExitData, ExitSoftware, ExitIO}

\* What every return of RunWithScenarios does.
Leaves ==
    /\ pc # "exited"
    /\ \E code \in Codes : Leave(code) /\ (code = ExitSuccess => pc = "finish")
    /\ UNCHANGED <<phase, adm, retried, reported, used, ops, dispatched, altered>>
    /\ late' \in {late, late \cup Unanswered}
    /\ \/ disk' = disk
       \/ pc = "start" /\ phase = "initial" /\ disk' = Planned
       \/ InCase({"bind"}) /\ disk' = Step.stage

LEMMA LeavingActions ==
    ASSUME StepFails \/ ReceiveBad \/ CallErrors \/ GiveUp \/ GatewayFails \/ Finish
    PROVE  Leaves
<1>1. CASE StepFails
  <2>1. pc = "case" /\ (disk' = disk \/ (InCase({"bind"}) /\ disk' = Step.stage))
    BY <1>1 DEF StepFails, InCase
  <2> QED
    BY <1>1, <2>1 DEF StepFails, Leaves, Codes, providerVars, ExitSoftware, ExitSuccess
<1>2. CASE ReceiveBad
  BY <1>2 DEF ReceiveBad, FailUnchanged, InCase, Leaves, Codes, providerVars, ExitSoftware, ExitSuccess
<1>3. CASE CallErrors
  BY <1>3 DEF CallErrors, InCase, Leaves, Codes, providerVars, ExitSoftware, ExitSuccess
<1>4. CASE GiveUp
  BY <1>4 DEF GiveUp, InCase, Leaves, Codes, providerVars, ExitSoftware, ExitSuccess
<1>5. CASE GatewayFails
  BY <1>5 DEF GatewayFails, FailUnchanged, InCase, Leaves, Codes, providerVars, ExitSoftware, ExitSuccess
<1>6. CASE Finish
  BY <1>6 DEF Finish, FailUnchanged, Leaves, Codes, providerVars
<1> QED
  BY <1>1, <1>2, <1>3, <1>4, <1>5, <1>6

\* What is left of the process, and of the Gateway it held.
LEMMA LeaveEffect ==
    ASSUME TypeOK, Flow, Held, Leaves
    PROVE  /\ pc' = "exited" /\ kept' = {} /\ mine' = {} /\ wire' = "idle"
           /\ next' = 0 /\ at' = 1 /\ attempt' = 1 /\ left' = 2
           /\ exit' \in [Phases -> {Running} \cup Codes]
           /\ \A p \in Phases : p # phase => exit'[p] = exit[p]
           /\ exit'[phase] # Running
           /\ exit'[phase] = ExitSuccess => pc = "finish"
           /\ \/ stopFailed' = stopFailed /\ gateways' = IF stopFailed THEN 1 ELSE 0
              \/ /\ ~stopFailed /\ stopFailed' /\ gateways' = 1 /\ "gateway" \in kept \cup mine
                 /\ exit'[phase] \notin {Running, ExitSuccess}
<1>1. PICK code \in Codes : Leave(code) /\ (code = ExitSuccess => pc = "finish")
  BY DEF Leaves
<1>2. PICK stopped \in (IF "gateway" \in kept \cup mine THEN BOOLEAN ELSE {TRUE}) :
         /\ gateways' = IF stopped /\ "gateway" \in kept \cup mine THEN gateways - 1 ELSE gateways
         /\ stopFailed' = (stopFailed \/ ~stopped)
         /\ exit' = [exit EXCEPT ![phase] =
                        IF code = ExitSuccess /\ ~stopped THEN ExitSoftware ELSE code]
  BY <1>1 DEF Leave
<1>3. /\ pc' = "exited" /\ kept' = {} /\ mine' = {} /\ wire' = "idle"
      /\ next' = 0 /\ at' = 1 /\ attempt' = 1 /\ left' = 2
  BY <1>1 DEF Leave
<1>4. /\ exit \in [Phases -> {Running} \cup Codes] /\ phase \in Phases /\ stopFailed \in BOOLEAN
  BY DEF TypeOK, Codes
<1>5. /\ exit' \in [Phases -> {Running} \cup Codes]
      /\ \A p \in Phases : p # phase => exit'[p] = exit[p]
      /\ exit'[phase] # Running
      /\ exit'[phase] = ExitSuccess => pc = "finish"
      /\ ~stopped => exit'[phase] \notin {Running, ExitSuccess}
  BY <1>1, <1>2, <1>4 DEF Codes, Running, ExitSuccess, ExitData, ExitSoftware, ExitIO
<1>6. stopped \in BOOLEAN /\ (stopFailed' <=> stopFailed \/ ~stopped)
      /\ ("gateway" \notin kept \cup mine => stopped)
  BY <1>2, Zenon
<1>7. /\ ~stopFailed => gateways = IF "gateway" \in kept \cup mine THEN 1 ELSE 0
      /\ stopFailed => gateways = 1 /\ "gateway" \notin kept \cup mine
  BY DEF Held
<1>8. gateways' = IF stopped /\ "gateway" \in kept \cup mine THEN gateways - 1 ELSE gateways
  BY <1>2
<1>9. stopFailed' \in BOOLEAN
  BY <1>2, <1>4, Zenon
<1>10. CASE stopped
  <2>1. stopFailed' = stopFailed
    BY <1>4, <1>6, <1>9, <1>10
  <2>2. gateways' = IF stopFailed THEN 1 ELSE 0
    BY <1>7, <1>8, <1>10
  <2> QED
    BY <1>3, <1>5, <2>1, <2>2
<1>11. CASE ~stopped
  <2>1. "gateway" \in kept \cup mine /\ stopFailed'
    BY <1>6, <1>11
  <2>2. ~stopFailed /\ gateways' = 1
    BY <1>7, <1>8, <1>11, <2>1
  <2> QED
    BY <1>3, <1>5, <1>11, <2>1, <2>2
<1> QED
  BY <1>10, <1>11

\* A case that holds a Gateway is at the stage of the bound terminal.
LEMMA HoldingStage ==
    ASSUME TypeOK, Flow, Stages, Held, phase = "initial", "gateway" \in kept \cup mine
    PROVE  disk = TerminalBound /\ ~InCase({"bind"}) /\ pc = "case"
<1>1. "gateway" \in mine /\ pc = "case"
  BY DEF Held, Flow
<1>2. Opens(Script, at)
  BY <1>1 DEF Held
<1>3. /\ Len(Script) \in Nat \ {0} /\ at \in 1..(Len(Script) + 1) /\ InitialScript(next + 1, Script)
  BY <1>1, InScript
<1>4. PICK j \in 1..(at - 1) : Script[j].do = "start"
  BY <1>2 DEF Opens
<1>5. j \in 1..Len(Script) /\ at > 1
  BY <1>3, <1>4
<1>6. Script[1].stage = TerminalBound /\ \A i \in 1..Len(Script) : Script[i].do # "bind"
  BY <1>3, <1>4, <1>5 DEF InitialScript
<1>7. \A i \in 1..(at - 1) : Script[i].do # "bind"
  BY <1>3, <1>6
<1>8. disk = TerminalBound
  BY <1>1, <1>5, <1>6, <1>7 DEF Stages
<1>9. ~InCase({"bind"})
  BY <1>3, <1>6 DEF InCase, Step
<1> QED
  BY <1>1, <1>8, <1>9


LEMMA LeavesKeep ==
    ASSUME IInv, Leaves
    PROVE  IInv'
<1> USE DEF IInv
<1>1. /\ pc' = "exited" /\ kept' = {} /\ mine' = {} /\ wire' = "idle"
      /\ next' = 0 /\ at' = 1 /\ attempt' = 1 /\ left' = 2
      /\ exit' \in [Phases -> {Running} \cup Codes]
      /\ \A p \in Phases : p # phase => exit'[p] = exit[p]
      /\ exit'[phase] # Running
      /\ exit'[phase] = ExitSuccess => pc = "finish"
  BY LeaveEffect
<1>2. \/ stopFailed' = stopFailed /\ gateways' = IF stopFailed THEN 1 ELSE 0
      \/ /\ ~stopFailed /\ stopFailed' /\ gateways' = 1 /\ "gateway" \in kept \cup mine
         /\ exit'[phase] \notin {Running, ExitSuccess}
  BY LeaveEffect
<1>3. /\ pc # "exited" /\ phase' = phase /\ adm' = adm /\ retried' = retried /\ reported' = reported
      /\ used' = used /\ ops' = ops /\ dispatched' = dispatched /\ altered' = altered
      /\ late' \in {late, late \cup Unanswered}
  BY DEF Leaves
<1>4. phase \in Phases /\ phase \in {"initial", "reconstruction"}
  BY PhaseLength DEF TypeOK
<1>5. /\ Unanswered \subseteq Ops \X (1..2)
      /\ \A op \in Ops, n \in 1..2 : <<op, n>> \in Unanswered => n <= adm[op]
  <2>1. CASE InCase({"call"}) /\ IsMutation
    <3>1. Step.of \in Ops /\ adm[Step.of] \in 1..2
      BY <2>1, AtStep, AdmissionNow
    <3>2. Unanswered \subseteq {<<Step.of, adm[Step.of]>>}
      BY DEF Unanswered
    <3> QED
      BY <3>1, <3>2
  <2>2. CASE ~(InCase({"call"}) /\ IsMutation)
    BY <2>2 DEF Unanswered
  <2> QED
    BY <2>1, <2>2
<1>6. /\ disk' \in 0..InitialComplete
      /\ phase = "reconstruction" => disk' = disk
      /\ disk' # disk => (phase = "initial" /\ pc = "start" /\ disk' = Planned /\ disk = 0)
                         \/ (phase = "initial" /\ InCase({"bind"}) /\ disk' = Step.stage /\ disk' > disk)
  <2>0. disk \in 0..InitialComplete
    BY DEF TypeOK
  <2>1. CASE disk' = disk
    BY <2>0, <2>1
  <2>2. CASE pc = "start" /\ phase = "initial" /\ disk' = Planned
    BY <2>2 DEF Stages, Planned, InitialComplete
  <2>3. CASE InCase({"bind"}) /\ disk' = Step.stage
    <3>1. phase = "initial" /\ at \in 1..Len(Script) /\ Step.do = "bind" /\ pc = "case" /\ at # 1
      BY <1>4, <2>3, AtStep
    <3>2. InitialScript(next + 1, Script)
      BY <3>1, InScript
    <3>3. /\ Step.stage \in 1..InitialComplete /\ Script[1].stage < Step.stage
          /\ \A j \in 1..Len(Script) : Script[j].do = "bind" => j = at
      BY <3>1, <3>2 DEF InitialScript, Step
    <3>4. at > 1 /\ \A i \in 1..(at - 1) : Script[i].do # "bind"
      <4>1. Len(Script) \in Nat
        BY <3>1, InScript
      <4> QED
        BY <3>1, <3>3, <4>1
    <3>5. disk = Script[1].stage
      BY <3>1, <3>4 DEF Stages
    <3> QED
      BY <2>0, <2>3, <3>1, <3>3, <3>5 DEF InitialComplete
  <2> QED
    BY <2>1, <2>2, <2>3 DEF Leaves
<1>7. TypeOK'
  <2>1. ~InCase({"call"})' /\ pc' # "case"
    BY <1>1 DEF InCase
  <2>2. 0 \in 0..Len(Cases[phase])
    BY <1>4, PhaseLength
  <2>3. 1 \in 1..MaxPollAttempts
    BY PollAssumption
  <2>4. late' \subseteq Ops \X (1..2)
    BY <1>3, <1>5 DEF TypeOK
  <2>5. stopFailed' \in BOOLEAN /\ gateways' \in Nat
    <3>1. stopFailed \in BOOLEAN
      BY DEF TypeOK
    <3>2. gateways' \in Nat
      BY <1>2
    <3>3. stopFailed' \in BOOLEAN
      BY DEF Leaves, Leave
    <3> QED
      BY <3>2, <3>3
  <2>6. exit' \in [Phases -> {Running, ExitSuccess, ExitData, ExitSoftware, ExitIO}]
    BY <1>1 DEF Codes
  <2>7. /\ next' \in 0..Len(Cases[phase'])
        /\ attempt' \in 1..MaxPollAttempts
        /\ left' \in 0..2 /\ wire' \in {"idle", "sent", "answered"}
        /\ kept' \cup mine' \subseteq
              {"bundle", "controller_a", "controller_b", "same_ca_unadmitted", "gateway"}
    BY <1>1, <1>3, <2>2, <2>3
  <2> QED
    BY <1>1, <1>3, <1>6, <2>1, <2>4, <2>5, <2>6, <2>7 DEF TypeOK
<1>8. Flow'
  <2>1. ~InCase({"call"})' /\ pc' = "exited"
    BY <1>1 DEF InCase
  <2>2. phase = "initial" => exit'["reconstruction"] = exit["reconstruction"]
    BY <1>1, <1>4 DEF Phases
  <2> QED
    BY <1>1, <1>3, <2>1, <2>2 DEF Flow
<1>9. Stages'
  BY <1>1, <1>3, <1>6, <1>4 DEF Stages, Flow
<1>10. Held'
  <2>1. CASE stopFailed' = stopFailed /\ gateways' = IF stopFailed THEN 1 ELSE 0
    <3>1. CASE ~stopFailed
      BY <1>1, <2>1, <3>1 DEF Held
    <3>2. CASE stopFailed
      <4>1. pc = "start" /\ phase = "reconstruction"
        BY <1>3, <3>2 DEF Held
      <4>2. disk' = disk /\ disk # InitialComplete
        BY <1>6, <3>2, <4>1 DEF Held
      <4>3. \E p \in Phases : exit'[p] \notin {Running, ExitSuccess}
        <5>1. PICK p \in Phases : exit[p] \notin {Running, ExitSuccess}
          BY <3>2 DEF Held
        <5>2. p # phase
          BY <1>3, <5>1 DEF Flow
        <5> QED
          BY <1>1, <5>1, <5>2
      <4> QED
        BY <1>1, <1>3, <2>1, <3>2, <4>1, <4>2, <4>3 DEF Held
    <3> QED
      BY <3>1, <3>2
  <2>2. CASE /\ ~stopFailed /\ stopFailed' /\ gateways' = 1 /\ "gateway" \in kept \cup mine
             /\ exit'[phase] \notin {Running, ExitSuccess}
    <3>1. phase = "initial" => disk' # InitialComplete
      <4> SUFFICES ASSUME phase = "initial" PROVE disk' # InitialComplete
        OBVIOUS
      <4>1. disk = TerminalBound /\ ~InCase({"bind"}) /\ pc = "case"
        BY <2>2, HoldingStage
      <4> QED
        BY <1>6, <4>1 DEF TerminalBound, InitialComplete
    <3> QED
      BY <1>1, <1>3, <1>4, <2>2, <3>1 DEF Held
  <2> QED
    BY <1>2, <2>1, <2>2
<1>11. Admissions'
  BY <1>1, <1>3 DEF Admissions
<1>12. Seen'
  BY <1>3, <1>5 DEF Seen
<1>13. Told'
  BY <1>1 DEF Told, InCase
<1>14. Claims'
  <2>1. \A p \in Phases : \A k \in 1..reported[p] : CaseTrue(p, k)'
    BY <1>3 DEF Claims, CaseTrue, StepTrue
  <2> QED
    BY <1>1, <1>3, <2>1 DEF Claims
<1>15. ReportedStages'
  <2>1. CASE disk' = disk
    BY <1>3, <2>1 DEF ReportedStages
  <2>2. CASE phase = "initial" /\ pc = "start"
    BY <1>3, <2>2 DEF ReportedStages, Flow
  <2>3. CASE disk' > disk
    <3>1. disk \in Nat /\ disk' \in Nat
      BY <1>6 DEF TypeOK, InitialComplete
    <3>2. StageAfter["initial"][reported["initial"]] \in Int \/ ~(reported["initial"] > 0)
      <4>1. reported["initial"] \in Nat /\ reported["initial"] <= 15
        BY CaseNames DEF TypeOK, Phases
      <4> QED
        BY <4>1 DEF StageAfter
    <3> QED
      BY <1>3, <2>3, <3>1, <3>2 DEF ReportedStages
  <2> QED
    BY <1>6, <2>1, <2>2, <2>3
<1>16. SuccessReportsAll'
  <2> SUFFICES ASSUME NEW p \in Phases, exit'[p] = ExitSuccess
               PROVE  reported[p] = Len(Cases[p])
    BY <1>3 DEF SuccessReportsAll
  <2>1. CASE p = phase
    BY <1>1, <2>1 DEF Flow
  <2>2. CASE p # phase
    BY <1>1, <2>2 DEF SuccessReportsAll
  <2> QED
    BY <2>1, <2>2
<1> QED
  BY <1>7, <1>8, <1>9, <1>10, <1>11, <1>12, <1>13, <1>14, <1>15, <1>16


-----------------------------------------------------------------------------
(* Steps that leave the caller where it is *)

Stays == UNCHANGED <<phase, pc, next, at, kept, mine, adm, disk, reported, exit, stopFailed,
                     altered, gateways>>

\* The Provider only ever learns more, and what is over stays as it is.
Grows ==
    /\ used \subseteq used'
    /\ \A op \in Ops : /\ ops[op] # "none" => ops'[op] # "none"
                       /\ ops[op] \in {"succeeded", "cancelled"} => ops'[op] = ops[op]
    /\ \A op \in {"cross", "stale"} : <<op, 1>> \in used => dispatched'[op] = dispatched[op]
    /\ retried => retried'
    /\ altered' = altered

LEMMA StepTrueStable ==
    ASSUME Grows, NEW p \in Phases, NEW k \in 1..Len(Cases[p]), NEW i \in 1..Len(Cases[p][k]),
           StepTrue(p, k, i)
    PROVE  StepTrue(p, k, i)'
<1> DEFINE step == Cases[p][k][i]
<1>1. /\ SoundStep(step)
      /\ IsCall(step, "mutation") => p = "initial" /\ SubmittedAt(step.of, k, i)
  <2>1. CASE p = "initial"
    <3>1. k \in 1..15
      BY <2>1, CaseNames
    <3>2. Sound(Cases[p][k]) /\ InitialScript(k, Cases[p][k])
      BY <2>1, <3>1, CaseFacts
    <3> QED
      BY <2>1, <3>2 DEF Sound, InitialScript
  <2>2. CASE p = "reconstruction"
    <3>1. k \in 1..5
      BY <2>2, CaseNames
    <3>2. Sound(Cases[p][k]) /\ ReconstructionScript(k, Cases[p][k])
      BY <2>2, <3>1, CaseFacts
    <3> QED
      BY <2>2, <3>2 DEF Sound, ReconstructionScript
  <2> QED
    BY <2>1, <2>2 DEF Phases
<1>2. ASSUME IsCall(step, "mutation")
      PROVE  /\ <<step.of, AdmissionOf(k, i)>> \in used'
             /\ step.good = SuccessfulMutationStatus => ops'[step.of] # "none"
             /\ step.of = "cross" => dispatched'["cross"] = 0
             /\ step.of = "stale" /\ ~retried' => dispatched'["stale"] = 0
  <2>1. step.of \in Ops
    BY <1>1, <1>2 DEF SoundStep
  <2>2. /\ <<step.of, AdmissionOf(k, i)>> \in used
        /\ step.good = SuccessfulMutationStatus => ops[step.of] # "none"
        /\ step.of = "cross" => dispatched["cross"] = 0
        /\ step.of = "stale" /\ ~retried => dispatched["stale"] = 0
    BY <1>2 DEF StepTrue
  <2>3. step.of \in {"cross", "stale"} => AdmissionOf(k, i) = 1
    BY <1>1, <1>2 DEF SubmittedAt, CaseOf, AdmissionOf
  <2>4. step.of = "cross" => dispatched'["cross"] = 0
    BY <2>2, <2>3 DEF Grows
  <2>5. step.of = "stale" /\ ~retried' => dispatched'["stale"] = 0
    BY <2>2, <2>3 DEF Grows
  <2> QED
    BY <2>1, <2>2, <2>4, <2>5 DEF Grows
<1>3. ASSUME IsCall(step, "operation")
      PROVE  ops'[step.of] \in step.good
  <2>1. step.of \in Ops /\ step.good \in {{"succeeded"}, {"cancelled"}}
    BY <1>1, <1>3 DEF SoundStep
  <2>2. ops[step.of] \in step.good
    BY <1>3 DEF StepTrue
  <2> QED
    BY <2>1, <2>2 DEF Grows
<1>4. ASSUME p = "reconstruction", IsCall(step, "document") \/ IsCall(step, "discovery")
      PROVE  altered' # step.of
  BY <1>4 DEF StepTrue, Grows
<1> QED
  BY <1>2, <1>3, <1>4 DEF StepTrue

\* The cases that were true stay true.
LEMMA CasesStayTrue ==
    ASSUME TypeOK, Claims, Grows, NEW p \in Phases, NEW k \in 1..reported[p]
    PROVE  CaseTrue(p, k)'
<1>1. k \in 1..Len(Cases[p]) /\ CaseTrue(p, k)
  <2>0. Len(Cases[p]) \in Nat
    BY CaseNames DEF Phases
  <2>1. reported[p] \in Nat /\ reported[p] <= Len(Cases[p]) /\ Len(Cases[p]) \in Nat
    BY <2>0 DEF TypeOK
  <2> QED
    BY <2>1 DEF Claims
<1> QED
  BY <1>1, StepTrueStable DEF CaseTrue

LEMMA ClaimsStay ==
    ASSUME TypeOK, Flow, Claims, Grows, UNCHANGED <<phase, pc, next, at, reported>>
    PROVE  Claims'
<1>1. \A p \in Phases : \A k \in 1..reported'[p] : CaseTrue(p, k)'
  BY CasesStayTrue
<1>2. phase \in Phases /\ next \in 0..Len(Cases[phase]) /\ Len(Cases[phase]) \in Nat
  BY PhaseLength DEF TypeOK
<1>3. ASSUME pc = "report" PROVE \A k \in {next} : CaseTrue(phase, k)'
  <2> SUFFICES ASSUME NEW k \in {next}, NEW i \in 1..Len(Cases[phase][k])
               PROVE  StepTrue(phase, k, i)'
    BY DEF CaseTrue
  <2>1. k \in 1..Len(Cases[phase]) /\ StepTrue(phase, k, i)
    BY <1>2, <1>3 DEF Claims, CaseTrue, Flow
  <2>2. \A p \in {phase} : StepTrue(p, k, i)'
    BY <1>2, <2>1, StepTrueStable
  <2> QED
    BY <2>2
<1>4. ASSUME pc = "case" PROVE \A k \in {next + 1}, i \in 1..(at - 1) : StepTrue(phase, k, i)'
  <2> SUFFICES ASSUME NEW k \in {next + 1}, NEW i \in 1..(at - 1)
               PROVE  StepTrue(phase, k, i)'
    OBVIOUS
  <2>1. /\ k \in 1..Len(Cases[phase]) /\ i \in 1..Len(Cases[phase][k])
    BY <1>4, InScript DEF Script
  <2>2. StepTrue(phase, k, i)
    BY <1>4 DEF Claims
  <2> QED
    BY <1>2, <2>1, <2>2, StepTrueStable
<1> QED
  BY <1>1, <1>3, <1>4 DEF Claims


\* What does not move the caller keeps what is said of its place.
LEMMA StaysKeep ==
    ASSUME IInv, Stays, late' \subseteq late, wire' # "idle" => InCase({"call"})
    PROVE  Flow' /\ Stages' /\ Held' /\ Admissions' /\ ReportedStages' /\ SuccessReportsAll'
<1> USE DEF IInv
<1>0. /\ phase' = phase /\ pc' = pc /\ next' = next /\ at' = at /\ kept' = kept /\ mine' = mine
      /\ adm' = adm /\ disk' = disk /\ reported' = reported /\ exit' = exit /\ stopFailed' = stopFailed
      /\ altered' = altered /\ gateways' = gateways
  BY DEF Stays
<1>1. Script' = Script /\ (InCase({"call"})' <=> InCase({"call"}))
  BY <1>0 DEF Script, InCase, Step
<1>2. Flow'
  BY <1>0, <1>1 DEF Flow, InCase
<1>3. Stages'
  BY <1>0, <1>1 DEF Stages
<1>4. Held'
  BY <1>0, <1>1 DEF Held, Opens
<1>5. Admissions'
  BY <1>0 DEF Admissions, Past
<1>6. ReportedStages' /\ SuccessReportsAll'
  BY <1>0 DEF ReportedStages, SuccessReportsAll
<1> QED
  BY <1>2, <1>3, <1>4, <1>5, <1>6

\* What handling a mutation does to the Provider, whoever waits for the answer.
LEMMA HandleEffect ==
    ASSUME TypeOK, Admissions, Seen, adm' = adm, late' \subseteq late,
           NEW op \in Ops, NEW n \in 1..2, n <= adm[op], NEW reply, Handle(op, n, reply)
    PROVE  /\ used' \subseteq Ops \X (1..2) /\ used \subseteq used'
           /\ used' \subseteq used \cup {<<op, n>>}
           /\ ops' \in [Ops -> {"none", "accepted", "running", "succeeded", "failed", "cancelled"}]
           /\ dispatched' \in [Ops -> Nat]
           /\ Seen'
           /\ \A o \in Ops : ops[o] # "none" => ops'[o] = ops[o]
           /\ \A o \in {"cross", "stale"} : <<o, 1>> \in used => dispatched'[o] = dispatched[o]
           /\ reply \notin Throttled => <<op, n>> \in used'
           /\ reply \in SuccessfulMutationStatus => ops'[op] # "none"
           /\ op = "cross" /\ reply = "403" => dispatched'[op] = 0
           /\ op = "stale" /\ reply = "409" /\ <<op, n>> \notin used => dispatched'[op] = 0
<1>0. /\ used \subseteq Ops \X (1..2) /\ adm \in [Ops -> 0..2] /\ dispatched \in [Ops -> Nat]
      /\ ops \in [Ops -> {"none", "accepted", "running", "succeeded", "failed", "cancelled"}]
  BY DEF TypeOK
<1>1. ASSUME <<op, n>> \notin used, ops[op] = "none" \/ op # "create"
      PROVE  n = 1 /\ dispatched[op] = 0
  <2>0. ops[op] = "none" => adm[op] # 2
    BY DEF Seen
  <2>4. op # "create" => adm[op] # 2
    BY <1>0 DEF Admissions
  <2>1. adm[op] # 2
    BY <1>1, <2>0, <2>4
  <2>2. adm[op] = 1 /\ n = 1
    BY <1>0, <2>1
  <2>3. \A m \in 1..2 : <<op, m>> \notin used
    BY <1>1, <2>2 DEF Seen
  <2> QED
    BY <2>2, <2>3 DEF Seen
<1>2. CASE reply \in Throttled /\ UNCHANGED <<used, ops, dispatched>>
  <2>1. used' = used /\ ops' = ops /\ dispatched' = dispatched
    BY <1>2
  <2>2. Seen'
    BY <2>1 DEF Seen
  <2> QED
    BY <1>0, <1>2, <2>1, <2>2 DEF Throttled, SuccessfulMutationStatus
<1>3. CASE <<op, n>> \in used /\ reply = "409" /\ UNCHANGED <<used, ops, dispatched>>
  <2>1. used' = used /\ ops' = ops /\ dispatched' = dispatched
    BY <1>3
  <2>2. Seen'
    BY <2>1 DEF Seen
  <2> QED
    BY <1>0, <1>3, <2>1, <2>2 DEF SuccessfulMutationStatus
<1>4. CASE /\ <<op, n>> \notin used /\ used' = used \cup {<<op, n>>}
           /\ reply \in {"503", Refusal(op)} \/ (ops[op] # "none" /\ reply = ops[op])
           /\ UNCHANGED <<ops, dispatched>>
  <2>1. ops' = ops /\ dispatched' = dispatched
    BY <1>4
  <2>2. Seen'
    BY <1>4, <2>1 DEF Seen
  <2>3. Refusal(op) \in {"409", "403"} /\ (op = "stale" <=> Refusal(op) = "409")
    BY DEF Refusal
  <2>4. op # "create" => dispatched[op] = 0
    BY <1>1, <1>4
  <2>5. reply \in SuccessfulMutationStatus => ops'[op] # "none"
    BY <1>4, <2>1, <2>3 DEF SuccessfulMutationStatus
  <2>6. (op = "cross" => dispatched'[op] = 0) /\ (op = "stale" => dispatched'[op] = 0)
    BY <2>1, <2>4
  <2>7. used' \subseteq Ops \X (1..2) /\ used \subseteq used' /\ <<op, n>> \in used'
    BY <1>0, <1>4
  <2> QED
    BY <1>0, <1>4, <2>1, <2>2, <2>5, <2>6, <2>7
<1>5. CASE /\ <<op, n>> \notin used /\ used' = used \cup {<<op, n>>}
           /\ ops[op] = "none" /\ dispatched' = [dispatched EXCEPT ![op] = @ + 1]
           /\ \/ reply \in {"accepted", "503"} /\ ops' = [ops EXCEPT ![op] = "accepted"]
              \/ reply = "503" /\ UNCHANGED ops
  <2>1. n = 1 /\ dispatched[op] = 0
    BY <1>1, <1>5
  <2>2. /\ dispatched' \in [Ops -> Nat] /\ dispatched'[op] = 1
        /\ \A o \in Ops \ {op} : dispatched'[o] = dispatched[o]
    BY <1>0, <1>5, <2>1
  <2>3. /\ ops' \in [Ops -> {"none", "accepted", "running", "succeeded", "failed", "cancelled"}]
        /\ \A o \in Ops \ {op} : ops'[o] = ops[o]
        /\ reply = "accepted" => ops'[op] = "accepted"
        /\ reply \in {"accepted", "503"}
    BY <1>0, <1>5
  <2>4. \A o \in Ops : ops[o] # "none" => ops'[o] = ops[o]
    BY <1>5, <2>3
  <2>5. Seen'
    <3>1. \A o \in Ops, m \in 1..2 : <<o, m>> \in used' \cup late' => m <= adm'[o]
      BY <1>5 DEF Seen
    <3>2. \A o \in Ops : dispatched'[o] \in {0, 1}
      BY <2>2 DEF Seen
    <3>3. \A o \in Ops : dispatched'[o] = 1 => \E m \in 1..2 : <<o, m>> \in used'
      BY <1>5, <2>2 DEF Seen
    <3>4. \A o \in Ops : adm'[o] = 2 => ops'[o] # "none"
      BY <2>4 DEF Seen
    <3> QED
      BY <3>1, <3>2, <3>3, <3>4 DEF Seen
  <2>6. \A o \in {"cross", "stale"} : <<o, 1>> \in used => dispatched'[o] = dispatched[o]
    BY <1>5, <2>1, <2>2 DEF Ops
  <2> QED
    BY <1>0, <1>5, <2>2, <2>3, <2>4, <2>5, <2>6 DEF SuccessfulMutationStatus
<1> QED
  BY <1>2, <1>3, <1>4, <1>5 DEF Handle


\* The types of what such a step may change.
LEMMA StayTyped ==
    ASSUME TypeOK, Stays, attempt' \in 1..MaxPollAttempts, InCase({"call"}) => attempt' <= Step.tries,
           left' \in 0..2, wire' \in {"idle", "sent", "answered"}, retried' \in BOOLEAN,
           late' \subseteq late, used' \subseteq Ops \X (1..2),
           ops' \in [Ops -> {"none", "accepted", "running", "succeeded", "failed", "cancelled"}],
           dispatched' \in [Ops -> Nat]
    PROVE  TypeOK'
<1>0. /\ phase' = phase /\ pc' = pc /\ next' = next /\ at' = at /\ kept' = kept /\ mine' = mine
      /\ adm' = adm /\ disk' = disk /\ reported' = reported /\ exit' = exit /\ stopFailed' = stopFailed
      /\ altered' = altered /\ gateways' = gateways
  BY DEF Stays
<1>1. Script' = Script /\ Step' = Step /\ (InCase({"call"})' <=> InCase({"call"}))
  BY <1>0 DEF Script, InCase, Step
<1>2. pc' = "case" => at' \in 1..(Len(Script') + 1)
  BY <1>0, <1>1 DEF TypeOK
<1>3. InCase({"call"})' => attempt' <= Step'.tries
  BY <1>1
<1>4. late' \subseteq Ops \X (1..2)
  BY DEF TypeOK
<1> QED
  BY <1>0, <1>2, <1>3, <1>4 DEF TypeOK

LEMMA CallKeeps ==
    ASSUME IInv, Call
    PROVE  IInv'
<1> USE DEF IInv
<1>1. /\ InCase({"call"}) /\ wire = "idle" /\ wire' = "sent" /\ Stays
      /\ attempt' = attempt /\ left' = left /\ answer' = answer /\ retried' = retried
      /\ late' = late /\ used' = used /\ ops' = ops /\ dispatched' = dispatched /\ altered' = altered
  BY DEF Call, Stays, providerVars
<1>2. TypeOK'
  <2>1. /\ attempt \in 1..MaxPollAttempts /\ (InCase({"call"}) => attempt <= Step.tries) /\ left \in 0..2
        /\ retried \in BOOLEAN /\ used \subseteq Ops \X (1..2) /\ dispatched \in [Ops -> Nat]
        /\ ops \in [Ops -> {"none", "accepted", "running", "succeeded", "failed", "cancelled"}]
    BY DEF TypeOK
  <2> QED
    BY <1>1, <2>1, StayTyped
<1>3. Flow' /\ Stages' /\ Held' /\ Admissions' /\ ReportedStages' /\ SuccessReportsAll'
  BY <1>1, StaysKeep
<1>4. Seen'
  BY <1>1 DEF Seen, Stays
<1>5. Told'
  <2>1. Step' = Step /\ (IsMutation' <=> IsMutation)
    BY <1>1 DEF Stays, Step, Script, IsMutation
  <2> QED
    BY <1>1, <2>1 DEF Told
<1>6. Claims'
  <2>1. Grows /\ UNCHANGED <<phase, pc, next, at, reported>>
    BY <1>1 DEF Grows, Stays
  <2> QED
    BY <2>1, ClaimsStay
<1> QED
  BY <1>2, <1>3, <1>4, <1>5, <1>6

LEMMA TickKeeps ==
    ASSUME IInv, Tick
    PROVE  IInv'
<1> USE DEF IInv
<1>1. /\ left > 0 /\ left' = left - 1 /\ wire' = wire /\ Stays
      /\ attempt' = attempt /\ answer' = answer /\ retried' = retried
      /\ late' = late /\ used' = used /\ ops' = ops /\ dispatched' = dispatched /\ altered' = altered
  BY DEF Tick, Stays, providerVars
<1>2. TypeOK'
  <2>1. /\ attempt \in 1..MaxPollAttempts /\ (InCase({"call"}) => attempt <= Step.tries) /\ left \in 0..2
        /\ retried \in BOOLEAN /\ used \subseteq Ops \X (1..2) /\ dispatched \in [Ops -> Nat]
        /\ ops \in [Ops -> {"none", "accepted", "running", "succeeded", "failed", "cancelled"}]
        /\ wire \in {"idle", "sent", "answered"}
    BY DEF TypeOK
  <2>2. left' \in 0..2
    BY <1>1, <2>1
  <2> QED
    BY <1>1, <2>1, <2>2, StayTyped
<1>3. Flow' /\ Stages' /\ Held' /\ Admissions' /\ ReportedStages' /\ SuccessReportsAll'
  <2>1. wire' # "idle" => InCase({"call"})
    BY <1>1 DEF Flow
  <2> QED
    BY <1>1, <2>1, StaysKeep
<1>4. Seen'
  BY <1>1 DEF Seen, Stays
<1>5. Told'
  <2>1. Step' = Step /\ (IsMutation' <=> IsMutation) /\ (InCase({"call"})' <=> InCase({"call"}))
        /\ adm' = adm
    BY <1>1 DEF Stays, Step, Script, IsMutation, InCase
  <2> QED
    BY <1>1, <2>1 DEF Told
<1>6. Claims'
  <2>1. Grows /\ UNCHANGED <<phase, pc, next, at, reported>>
    BY <1>1 DEF Grows, Stays
  <2> QED
    BY <2>1, ClaimsStay
<1> QED
  BY <1>2, <1>3, <1>4, <1>5, <1>6

LEMMA ReceiveAgainKeeps ==
    ASSUME IInv, ReceiveAgain
    PROVE  IInv'
<1> USE DEF IInv
<1>1. /\ InCase({"call"}) /\ wire' = "idle" /\ Stays /\ attempt < Step.tries
      /\ attempt' = attempt + 1 /\ left' = left
      /\ retried' = (retried \/ Step.of = "stale")
      /\ late' = late /\ used' = used /\ ops' = ops /\ dispatched' = dispatched /\ altered' = altered
  BY DEF ReceiveAgain, AgainAdmission, Stays, providerVars
<1>2. /\ attempt \in 1..MaxPollAttempts /\ left \in 0..2
      /\ retried \in BOOLEAN /\ used \subseteq Ops \X (1..2) /\ dispatched \in [Ops -> Nat]
      /\ ops \in [Ops -> {"none", "accepted", "running", "succeeded", "failed", "cancelled"}]
  BY DEF TypeOK
<1>3. retried' \in BOOLEAN /\ (retried => retried') /\ (Step.of = "stale" => retried')
  BY <1>1, <1>2, Zenon
<1>4. attempt' \in 1..MaxPollAttempts /\ attempt' <= Step.tries
  <2>1. Step.do = "call"
    BY <1>1 DEF InCase
  <2>2. Step.tries \in 1..MaxPollAttempts
    BY <1>1, <2>1, AtStep DEF SoundStep
  <2> QED
    BY <1>1, <1>2, <2>2, PollAssumption
<1>5. TypeOK'
  BY <1>1, <1>2, <1>3, <1>4, StayTyped
<1>6. Flow' /\ Stages' /\ Held' /\ Admissions' /\ ReportedStages' /\ SuccessReportsAll'
  BY <1>1, StaysKeep
<1>7. Seen'
  BY <1>1 DEF Seen, Stays
<1>8. Told'
  <2>1. Step' = Step
    BY <1>1 DEF Stays, Step, Script
  <2> QED
    BY <1>1, <1>3, <2>1 DEF Told
<1>9. Claims'
  <2>1. Grows /\ UNCHANGED <<phase, pc, next, at, reported>>
    BY <1>1, <1>3 DEF Grows, Stays
  <2> QED
    BY <2>1, ClaimsStay
<1> QED
  BY <1>5, <1>6, <1>7, <1>8, <1>9


LEMMA ProviderAnswersKeeps ==
    ASSUME IInv, ProviderAnswers
    PROVE  IInv'
<1> USE DEF IInv
<1>1. /\ InCase({"call"}) /\ wire = "sent" /\ wire' = "answered" /\ Stays /\ adm' = adm
      /\ attempt' = attempt /\ left' = left /\ retried' = retried /\ late' = late /\ altered' = altered
  BY DEF ProviderAnswers, Stays
<1>2. PICK reply \in Answers :
         /\ answer' = reply
         /\ IF IsMutation
              THEN Handle(Step.of, adm[Step.of], reply)
              ELSE /\ reply \in ReadAnswers
                   /\ reply = "document" => DocumentExists
                   /\ UNCHANGED <<used, ops, dispatched>>
  BY DEF ProviderAnswers
<1>3. /\ attempt \in 1..MaxPollAttempts /\ (InCase({"call"}) => attempt <= Step.tries) /\ left \in 0..2
      /\ retried \in BOOLEAN /\ used \subseteq Ops \X (1..2) /\ dispatched \in [Ops -> Nat]
      /\ ops \in [Ops -> {"none", "accepted", "running", "succeeded", "failed", "cancelled"}]
  BY DEF TypeOK
<1>4. Step' = Step /\ (IsMutation' <=> IsMutation) /\ (InCase({"call"})' <=> InCase({"call"}))
  BY <1>1 DEF Stays, Step, Script, IsMutation, InCase
<1>5. Flow' /\ Stages' /\ Held' /\ Admissions' /\ ReportedStages' /\ SuccessReportsAll'
  BY <1>1, StaysKeep
<1>6. CASE IsMutation
  <2>1. /\ Step.of \in Ops /\ adm[Step.of] \in 1..2 /\ (Step.of # "create" => adm[Step.of] = 1)
    BY <1>1, <1>6, AtStep, AdmissionNow
  <2>2. Handle(Step.of, adm[Step.of], reply) /\ adm[Step.of] <= adm[Step.of] /\ late' \subseteq late
    BY <1>1, <1>2, <1>6, <2>1
  <2>3. /\ used' \subseteq Ops \X (1..2) /\ used \subseteq used'
        /\ ops' \in [Ops -> {"none", "accepted", "running", "succeeded", "failed", "cancelled"}]
        /\ dispatched' \in [Ops -> Nat]
        /\ Seen'
        /\ \A o \in Ops : ops[o] # "none" => ops'[o] = ops[o]
        /\ \A o \in {"cross", "stale"} : <<o, 1>> \in used => dispatched'[o] = dispatched[o]
    BY <1>1, <2>1, <2>2, HandleEffect
  <2>4. /\ reply \notin Throttled => <<Step.of, adm[Step.of]>> \in used'
        /\ reply \in SuccessfulMutationStatus => ops'[Step.of] # "none"
        /\ Step.of = "cross" /\ reply = "403" => dispatched'[Step.of] = 0
        /\ Step.of = "stale" /\ reply = "409" /\ <<Step.of, adm[Step.of]>> \notin used =>
              dispatched'[Step.of] = 0
    BY <1>1, <2>1, <2>2, HandleEffect
  <2>5. TypeOK'
    BY <1>1, <1>3, <2>3, StayTyped
  <2>6. Told'
    <3>1. Step.sort = "mutation"
      BY <1>6 DEF IsMutation
    <3>2. Step.of = "stale" =>
             (~retried => <<Step.of, adm[Step.of]>> \notin used) /\ (attempt > 1 => retried)
      BY <1>1, <1>6, <2>1 DEF Told
    <3> QED
      BY <1>1, <1>2, <1>4, <1>6, <2>4, <3>1, <3>2 DEF Told
  <2>7. Claims'
    <3>1. Grows /\ UNCHANGED <<phase, pc, next, at, reported>>
      BY <1>1, <2>3 DEF Grows, Stays
    <3> QED
      BY <3>1, ClaimsStay
  <2> QED
    BY <1>5, <2>3, <2>5, <2>6, <2>7
<1>7. CASE ~IsMutation
  <2>1. reply \in ReadAnswers /\ used' = used /\ ops' = ops /\ dispatched' = dispatched
    BY <1>2, <1>7
  <2>2. TypeOK'
    BY <1>1, <1>3, <2>1, StayTyped
  <2>3. Told'
    <3>1. Step.sort = "operation" /\ reply \in {"succeeded", "cancelled"} => ops[Step.of] = reply
      BY <2>1 DEF ReadAnswers
    <3>2. Step.sort \in {"document", "discovery"} /\ reply = "document" => altered # Step.of
      BY <2>1 DEF ReadAnswers
    <3> QED
      BY <1>1, <1>2, <1>4, <1>7, <2>1, <3>1, <3>2 DEF Told
  <2>4. Seen'
    BY <1>1, <2>1 DEF Seen
  <2>5. Claims'
    <3>1. Grows /\ UNCHANGED <<phase, pc, next, at, reported>>
      BY <1>1, <2>1 DEF Grows, Stays
    <3> QED
      BY <3>1, ClaimsStay
  <2> QED
    BY <1>5, <2>2, <2>3, <2>4, <2>5
<1> QED
  BY <1>6, <1>7

LEMMA LateHandledKeeps ==
    ASSUME IInv, LateHandled
    PROVE  IInv'
<1> USE DEF IInv
<1>1. PICK r \in late : /\ \E reply \in Answers : Handle(r[1], r[2], reply)
                        /\ late' = late \ {r}
                        /\ UNCHANGED <<callerVars, altered, gateways>>
  BY DEF LateHandled
<1>2. PICK reply \in Answers : Handle(r[1], r[2], reply)
  BY <1>1
<1>3. /\ Stays /\ adm' = adm /\ attempt' = attempt /\ left' = left /\ wire' = wire /\ answer' = answer
      /\ retried' = retried /\ altered' = altered /\ late' \subseteq late
  BY <1>1 DEF callerVars, caseVars, Stays
<1>4. /\ attempt \in 1..MaxPollAttempts /\ (InCase({"call"}) => attempt <= Step.tries) /\ left \in 0..2
      /\ retried \in BOOLEAN /\ wire \in {"idle", "sent", "answered"} /\ late \subseteq Ops \X (1..2)
  BY DEF TypeOK
<1>5. r[1] \in Ops /\ r[2] \in 1..2 /\ r = <<r[1], r[2]>>
  BY <1>4
<1>6. r[2] <= adm[r[1]]
  BY <1>1, <1>5 DEF Seen
<1>7. /\ used' \subseteq Ops \X (1..2) /\ used \subseteq used'
      /\ ops' \in [Ops -> {"none", "accepted", "running", "succeeded", "failed", "cancelled"}]
      /\ dispatched' \in [Ops -> Nat]
      /\ Seen'
      /\ \A o \in Ops : ops[o] # "none" => ops'[o] = ops[o]
      /\ \A o \in {"cross", "stale"} : <<o, 1>> \in used => dispatched'[o] = dispatched[o]
  BY <1>2, <1>3, <1>5, <1>6, HandleEffect
<1>8. TypeOK'
  BY <1>3, <1>4, <1>7, StayTyped
<1>9. Flow' /\ Stages' /\ Held' /\ Admissions' /\ ReportedStages' /\ SuccessReportsAll'
  <2>1. wire' # "idle" => InCase({"call"})
    BY <1>3 DEF Flow
  <2> QED
    BY <1>3, <2>1, StaysKeep
<1>10. Told'
  <2>1. Step' = Step /\ (IsMutation' <=> IsMutation) /\ (InCase({"call"})' <=> InCase({"call"}))
    BY <1>3 DEF Stays, Step, Script, IsMutation, InCase
  <2>2. ASSUME InCase({"call"})
        PROVE  /\ ~IsMutation
               /\ wire = "answered" /\ Step.sort = "operation" /\ answer \in {"succeeded", "cancelled"} =>
                     ops'[Step.of] = answer
    <3>1. late # {} /\ pc = "case"
      BY <1>1, <2>2 DEF InCase
    <3>2. phase = "reconstruction"
      BY <3>1 DEF Flow
    <3>3. ~IsMutation /\ SoundStep(Step) /\ Step.do \in {"call"}
      BY <2>2, <3>2, AtStep
    <3>4. Step.sort = "operation" => Step.of \in Ops
      BY <3>3 DEF SoundStep, IsCall
    <3> QED
      BY <1>7, <2>2, <3>3, <3>4 DEF Told
  <2> QED
    BY <1>3, <2>1, <2>2 DEF Told
<1>11. Claims'
  <2>1. Grows /\ UNCHANGED <<phase, pc, next, at, reported>>
    BY <1>3, <1>7 DEF Grows, Stays
  <2> QED
    BY <2>1, ClaimsStay
<1> QED
  BY <1>7, <1>8, <1>9, <1>10, <1>11

LEMMA ProviderAdvancesKeeps ==
    ASSUME IInv, ProviderAdvances
    PROVE  IInv'
<1> USE DEF IInv
<1>1. PICK op \in Ops :
        /\ \/ ops[op] = "accepted" /\ ops' = [ops EXCEPT ![op] = "running"]
           \/ ops[op] = "running" /\ \E s \in {"succeeded", "failed"} : ops' = [ops EXCEPT ![op] = s]
           \/ /\ op = "cancellable" /\ ops[op] \in {"accepted", "running"}
              /\ dispatched["cancel"] > 0
              /\ ops' = [ops EXCEPT ![op] = "cancelled"]
        /\ UNCHANGED <<callerVars, late, used, dispatched, altered, gateways>>
  BY DEF ProviderAdvances
<1>2. /\ Stays /\ adm' = adm /\ attempt' = attempt /\ left' = left /\ wire' = wire /\ answer' = answer
      /\ retried' = retried /\ altered' = altered /\ late' = late /\ used' = used
      /\ dispatched' = dispatched
  BY <1>1 DEF callerVars, caseVars, Stays
<1>3. /\ attempt \in 1..MaxPollAttempts /\ (InCase({"call"}) => attempt <= Step.tries) /\ left \in 0..2
      /\ retried \in BOOLEAN /\ wire \in {"idle", "sent", "answered"}
      /\ used \subseteq Ops \X (1..2) /\ dispatched \in [Ops -> Nat]
      /\ ops \in [Ops -> {"none", "accepted", "running", "succeeded", "failed", "cancelled"}]
  BY DEF TypeOK
<1>4. PICK s \in {"running", "succeeded", "failed", "cancelled"} : ops' = [ops EXCEPT ![op] = s]
  BY <1>1
<1>5. /\ ops' \in [Ops -> {"none", "accepted", "running", "succeeded", "failed", "cancelled"}]
      /\ \A o \in Ops : ops[o] # "none" => ops'[o] # "none"
      /\ \A o \in Ops : ops[o] \in {"succeeded", "cancelled"} => ops'[o] = ops[o]
  <2>1. ops[op] \in {"accepted", "running"}
    BY <1>1
  <2> QED
    BY <1>3, <1>4, <2>1
<1>6. TypeOK'
  BY <1>2, <1>3, <1>5, StayTyped
<1>7. Flow' /\ Stages' /\ Held' /\ Admissions' /\ ReportedStages' /\ SuccessReportsAll'
  <2>1. wire' # "idle" => InCase({"call"})
    BY <1>2 DEF Flow
  <2> QED
    BY <1>2, <2>1, StaysKeep
<1>8. Seen'
  BY <1>2, <1>5 DEF Seen
<1>9. Told'
  <2>1. Step' = Step /\ (IsMutation' <=> IsMutation) /\ (InCase({"call"})' <=> InCase({"call"}))
    BY <1>2 DEF Stays, Step, Script, IsMutation, InCase
  <2>2. ASSUME InCase({"call"})
        PROVE  /\ IsMutation => Step.of \in Ops
               /\ Step.sort = "operation" => Step.of \in Ops
    <3>1. /\ SoundStep(Step) /\ Step.do \in {"call"} /\ (IsMutation => Step.of \in Ops)
      BY <2>2, AtStep
    <3> QED
      BY <3>1 DEF SoundStep, IsCall
  <2> QED
    BY <1>2, <1>5, <2>1, <2>2 DEF Told
<1>10. Claims'
  <2>1. Grows /\ UNCHANGED <<phase, pc, next, at, reported>>
    BY <1>2, <1>5 DEF Grows, Stays
  <2> QED
    BY <2>1, ClaimsStay
<1> QED
  BY <1>6, <1>7, <1>8, <1>9, <1>10


-----------------------------------------------------------------------------
(* Steps that advance in the script *)

Advances ==
    /\ pc = "case" /\ at \in 1..Len(Script)
    /\ UNCHANGED <<phase, pc, next, left, retried, reported, exit, stopFailed, late,
                   used, ops, dispatched, altered>>
    /\ at' = at + 1 /\ attempt' = 1 /\ wire' = "idle"

LEMMA AdvanceFlow ==
    ASSUME IInv, Advances
    PROVE  Flow'
<1> USE DEF IInv
<1>1. /\ pc = "case" /\ pc' = "case" /\ phase' = phase /\ next' = next /\ reported' = reported
      /\ wire' = "idle" /\ exit' = exit /\ altered' = altered /\ late' = late
  BY DEF Advances
<1> QED
  BY <1>1 DEF Flow

\* The call the caller comes to has not been attempted.
LEMMA AdvanceTold ==
    ASSUME IInv, Advances
    PROVE  Told' /\ (InCase({"call"})' => attempt' <= Step'.tries)
<1> USE DEF IInv
<1>1. /\ pc = "case" /\ at \in 1..Len(Script) /\ at' = at + 1 /\ attempt' = 1 /\ wire' = "idle"
      /\ phase' = phase /\ next' = next /\ used' = used /\ Script' = Script
  BY DEF Advances, Script
<1>2. phase \in {"initial", "reconstruction"}
  BY PhaseLength
<1>3. /\ Sound(Script) /\ next \in Nat /\ Len(Script) \in Nat
      /\ phase = "initial" => InitialScript(next + 1, Script)
      /\ phase = "reconstruction" => ReconstructionScript(next + 1, Script)
  BY <1>1, InScript
<1> SUFFICES ASSUME InCase({"call"})'
             PROVE  /\ attempt' <= Step'.tries
                    /\ IsMutation' /\ Step'.of = "stale" => <<"stale", 1>> \notin used
  BY <1>1 DEF Told
<1>4. at + 1 \in 1..Len(Script) /\ Step' = Script[at + 1] /\ Step'.do = "call"
  BY <1>1, <1>3 DEF InCase, Step
<1>5. attempt' <= Step'.tries
  <2>1. Step'.tries \in 1..MaxPollAttempts
    BY <1>3, <1>4 DEF Sound, SoundStep
  <2> QED
    BY <1>1, <2>1, PollAssumption
<1>6. ASSUME IsMutation', Step'.of = "stale" PROVE <<"stale", 1>> \notin used
  <2>1. IsCall(Script[at + 1], "mutation") /\ Script[at + 1].of = "stale"
    BY <1>4, <1>6 DEF IsMutation, IsCall
  <2>2. phase = "initial"
    BY <1>2, <1>3, <1>4, <2>1 DEF ReconstructionScript
  <2>3. SubmittedAt("stale", next + 1, at + 1)
    BY <1>3, <1>4, <2>1, <2>2 DEF InitialScript
  <2>4. next + 1 = 6 /\ at = 2
    BY <1>1, <1>3, <2>3 DEF SubmittedAt, CaseOf, SpotOf
  <2>5. ~Past(CaseOf["stale"], SpotOf["stale"])
    BY <2>4 DEF Past, CaseOf, SpotOf
  <2>6. "stale" \in Ops /\ adm["stale"] = 0
    BY <1>1, <2>2, <2>5 DEF Admissions, Ops
  <2>7. \A n \in 1..2 : <<"stale", n>> \in used => n <= adm["stale"]
    BY <2>6 DEF Seen
  <2> QED
    BY <2>6, <2>7
<1> QED
  BY <1>5, <1>6

LEMMA AdvanceTyped ==
    ASSUME IInv, Advances,
           kept' \cup mine' \subseteq
               {"bundle", "controller_a", "controller_b", "same_ca_unadmitted", "gateway"},
           adm' \in [Ops -> 0..2], disk' \in 0..InitialComplete, gateways' \in Nat
    PROVE  TypeOK'
<1> USE DEF IInv
<1>1. /\ pc = "case" /\ at \in 1..Len(Script) /\ at' = at + 1 /\ attempt' = 1 /\ wire' = "idle"
      /\ phase' = phase /\ pc' = pc /\ next' = next /\ left' = left /\ retried' = retried
      /\ reported' = reported /\ exit' = exit /\ stopFailed' = stopFailed /\ late' = late
      /\ used' = used /\ ops' = ops /\ dispatched' = dispatched /\ altered' = altered
  BY DEF Advances
<1>2. at' \in 1..(Len(Script') + 1)
  <2>1. Script' = Script /\ Len(Script) \in Nat
    BY <1>1, InScript DEF Script
  <2> QED
    BY <1>1, <2>1
<1>3. InCase({"call"})' => attempt' <= Step'.tries
  BY AdvanceTold
<1>4. attempt' \in 1..MaxPollAttempts
  BY <1>1, PollAssumption
<1> QED
  BY <1>1, <1>2, <1>3, <1>4 DEF TypeOK

LEMMA AdvanceClaims ==
    ASSUME IInv, Advances, StepTrue(phase, next + 1, at)
    PROVE  Claims'
<1> USE DEF IInv
<1>1. /\ pc = "case" /\ at \in 1..Len(Script) /\ at' = at + 1 /\ phase' = phase /\ pc' = pc /\ next' = next
      /\ reported' = reported /\ retried' = retried
      /\ used' = used /\ ops' = ops /\ dispatched' = dispatched /\ altered' = altered
  BY DEF Advances
<1>2. \A p, k, i : StepTrue(p, k, i)' <=> StepTrue(p, k, i)
  BY <1>1 DEF StepTrue
<1>3. \A p \in Phases : \A k \in 1..reported[p] : CaseTrue(p, k)'
  BY <1>2 DEF Claims, CaseTrue
<1>4. \A i \in 1..at : StepTrue(phase, next + 1, i)
  BY <1>1 DEF Claims
<1>5. \A i \in 1..(at' - 1) : StepTrue(phase, next + 1, i)'
  <2>1. at' - 1 = at
    BY <1>1, InScript
  <2> QED
    BY <1>1, <1>2, <1>4, <2>1
<1> QED
  BY <1>1, <1>3, <1>5 DEF Claims

\* A bind moves the durable state forward.
LEMMA BindAdvances ==
    ASSUME TypeOK, Flow, Stages, InCase({"bind"})
    PROVE  /\ phase = "initial" /\ Step.stage \in 1..InitialComplete /\ disk < Step.stage
           /\ \A i \in 1..(at - 1) : Script[i].do # "bind"
<1>1. phase = "initial" /\ at \in 1..Len(Script) /\ Step.do = "bind" /\ pc = "case" /\ at # 1
  BY AtStep, PhaseLength
<1>2. InitialScript(next + 1, Script) /\ Len(Script) \in Nat
  BY <1>1, InScript
<1>3. /\ Step.stage \in 1..InitialComplete /\ Script[1].stage < Step.stage
      /\ \A j \in 1..Len(Script) : Script[j].do = "bind" => j = at
  BY <1>1, <1>2 DEF InitialScript, Step
<1>4. at > 1 /\ \A i \in 1..(at - 1) : Script[i].do # "bind"
  BY <1>1, <1>2, <1>3
<1>5. disk = Script[1].stage
  BY <1>1, <1>4 DEF Stages
<1> QED
  BY <1>1, <1>3, <1>4, <1>5

LEMMA ReportedStagesGrow ==
    ASSUME TypeOK, ReportedStages, disk' \in Nat, disk' >= disk, reported' = reported
    PROVE  ReportedStages'
<1>1. disk \in Nat
  BY DEF TypeOK, InitialComplete
<1>2. StageAfter["initial"][reported["initial"]] \in Int \/ ~(reported["initial"] > 0)
  <2>0. "initial" \in Phases /\ Len(Cases["initial"]) = 15
    BY CaseNames DEF Phases
  <2>1. reported["initial"] \in Nat /\ reported["initial"] <= 15
    BY <2>0 DEF TypeOK
  <2> QED
    BY <2>1 DEF StageAfter
<1> QED
  BY <1>1, <1>2 DEF ReportedStages

LEMMA AdvanceStages ==
    ASSUME IInv, Advances, disk' = IF Step.do = "bind" THEN Step.stage ELSE disk,
           Step.do = "enter" => disk = Step.stage
    PROVE  Stages' /\ ReportedStages' /\ disk' \in 0..InitialComplete
<1> USE DEF IInv
<1>1. /\ pc = "case" /\ at \in 1..Len(Script) /\ at' = at + 1
      /\ phase' = phase /\ pc' = pc /\ next' = next /\ reported' = reported /\ Script' = Script
  BY DEF Advances, Script
<1>2. InCase({Step.do})
  BY <1>1, InScript DEF InCase
<1>3. Len(Script) \in Nat /\ (Step.do = "enter" <=> at = 1)
  BY <1>1, <1>2, InScript, AtStep
<1>4. Step.do = "bind" => /\ phase = "initial" /\ Step.stage \in 1..InitialComplete /\ disk < Step.stage
                          /\ \A i \in 1..(at - 1) : Script[i].do # "bind"
  <2>1. Step.do = "bind" => InCase({"bind"})
    BY <1>2 DEF InCase
  <2> QED
    BY <2>1, BindAdvances
<1>5. disk \in 0..InitialComplete /\ phase \in {"initial", "reconstruction"}
  BY PhaseLength DEF TypeOK
<1>6. disk' \in 0..InitialComplete /\ disk' >= disk
  BY <1>4, <1>5 DEF InitialComplete
<1>7. ReportedStages'
  BY <1>1, <1>6, ReportedStagesGrow DEF InitialComplete
<1>8. at' - 1 = at /\ at' > 1
  BY <1>1, <1>3
<1>9. (\A i \in 1..at : Script[i].do # "bind") => disk' = Script[1].stage
  <2> SUFFICES ASSUME \A i \in 1..at : Script[i].do # "bind" PROVE disk' = Script[1].stage
    OBVIOUS
  <2>1. disk' = disk
    BY <1>1 DEF Step
  <2>2. CASE at = 1
    BY <1>3, <2>1, <2>2 DEF Step
  <2>3. CASE at > 1
    BY <1>1, <2>1, <2>3 DEF Stages
  <2> QED
    BY <1>1, <2>2, <2>3
<1>10. \A i \in 1..at : Script[i].do = "bind" => disk' = Script[i].stage
  <2> SUFFICES ASSUME NEW i \in 1..at, Script[i].do = "bind" PROVE disk' = Script[i].stage
    OBVIOUS
  <2>1. CASE i = at
    BY <2>1 DEF Step
  <2>2. CASE i # at
    <3>1. i \in 1..(at - 1)
      BY <1>1, <2>2
    <3>2. Step.do # "bind" /\ disk = Script[i].stage
      BY <1>1, <1>4, <3>1 DEF Stages
    <3> QED
      BY <3>2
  <2> QED
    BY <2>1, <2>2
<1>11. (phase = "reconstruction" => disk' = disk) /\ (phase = "initial" => reported["reconstruction"] = 0)
  BY <1>4 DEF Flow
<1>12. phase = "reconstruction" => disk' = InitialComplete
  BY <1>1, <1>11 DEF Stages
<1>13. reported'["reconstruction"] > 0 => disk' = InitialComplete
  BY <1>1, <1>5, <1>11, <1>12
<1>14. Stages'
  BY <1>1, <1>8, <1>9, <1>10, <1>12, <1>13 DEF Stages
<1> QED
  BY <1>6, <1>7, <1>14


\* Where a request is signed.
LEMMA SignedHere ==
    ASSUME TypeOK, Flow, phase = "initial", pc = "case", at \in 1..Len(Script), NEW op \in Ops
    PROVE  /\ next + 1 = CaseOf[op] /\ at = SpotOf[op] => Step.do = "sign" /\ Step.of = op
           /\ next + 1 = 3 /\ at = 3 => Step.do = "sign" /\ Step.of = "create"
           /\ Step.do = "sign" => Step.of \in Ops /\ SignedAt(Step.of, next + 1, at)
<1>1. Sign(op).do = "sign" /\ Sign(op).of = op /\ Sign("create").do = "sign" /\ Sign("create").of = "create"
  BY StepKinds
<1>2. next + 1 = CaseOf[op] /\ at = SpotOf[op] => Step = Sign(op)
  BY SignPlaces DEF Step, Script
<1>3. next + 1 = 3 /\ at = 3 => Step = Sign("create")
  BY SignPlaces DEF Step, Script
<1>4. Step.do = "sign" => Step.of \in Ops /\ SignedAt(Step.of, next + 1, at)
  BY InScript DEF InitialScript, Sound, SoundStep, Step
<1> QED
  BY <1>1, <1>2, <1>3, <1>4

LEMMA AdvanceAdmissions ==
    ASSUME IInv, Advances,
           adm' = IF Step.do = "sign" THEN [adm EXCEPT ![Step.of] = @ + 1] ELSE adm
    PROVE  Admissions' /\ Seen' /\ adm' \in [Ops -> 0..2]
<1> USE DEF IInv
<1>1. /\ pc = "case" /\ pc' = "case" /\ at \in 1..Len(Script) /\ at' = at + 1
      /\ phase' = phase /\ next' = next
      /\ late' = late /\ used' = used /\ ops' = ops /\ dispatched' = dispatched
  BY DEF Advances
<1>2. /\ next \in Nat /\ Len(Script) \in Nat /\ at \in Nat /\ adm \in [Ops -> 0..2]
      /\ phase \in {"initial", "reconstruction"}
  BY <1>1, InScript, PhaseLength DEF TypeOK
<1>3. CASE Step.do # "sign"
  <2>1. adm' = adm
    BY <1>3
  <2>2. Seen'
    BY <1>1, <2>1 DEF Seen
  <2>3. ASSUME phase = "initial", NEW op \in Ops
        PROVE  /\ Past(CaseOf[op], SpotOf[op])' <=> Past(CaseOf[op], SpotOf[op])
               /\ Past(3, 3)' <=> Past(3, 3)
    <3>1. CaseOf[op] \in Nat /\ SpotOf[op] \in Nat
      BY SignPlaces
    <3>2. ~(next + 1 = CaseOf[op] /\ at = SpotOf[op]) /\ ~(next + 1 = 3 /\ at = 3)
      BY <1>1, <1>3, <2>3, SignedHere
    <3> QED
      BY <1>1, <1>2, <3>1, <3>2 DEF Past
  <2>4. Admissions'
    BY <1>1, <2>1, <2>3 DEF Admissions
  <2> QED
    BY <1>2, <2>1, <2>2, <2>4
<1>4. CASE Step.do = "sign"
  <2>1. phase = "initial"
    BY <1>1, <1>2, <1>4, InScript DEF ReconstructionScript, Step
  <2>4. CaseOf["create"] = 2 /\ SpotOf["create"] = 3 /\ "create" \in Ops
    BY DEF CaseOf, SpotOf, Ops
  <2>2. PICK o \in Ops : o = Step.of /\ SignedAt(o, next + 1, at)
    BY <1>1, <1>4, <2>1, <2>4, SignedHere
  <2>3. \A op \in Ops : CaseOf[op] \in Nat /\ SpotOf[op] \in Nat
    BY SignPlaces
  <2>5. ASSUME NEW op \in Ops \ {o}
        PROVE  /\ Past(CaseOf[op], SpotOf[op])' <=> Past(CaseOf[op], SpotOf[op])
               /\ op = "create" => (Past(3, 3)' <=> Past(3, 3))
    <3>1. ~(next + 1 = CaseOf[op] /\ at = SpotOf[op]) /\ (op = "create" => ~(next + 1 = 3 /\ at = 3))
      BY <1>1, <2>1, <2>2, SignedHere
    <3> QED
      BY <1>1, <1>2, <2>3, <3>1 DEF Past
  <2>6. /\ adm'[o] = adm[o] + 1 /\ \A op \in Ops \ {o} : adm'[op] = adm[op]
        /\ adm' = [adm EXCEPT ![o] = adm[o] + 1]
    BY <1>2, <1>4, <2>2
  <2>7. \/ /\ ~Past(CaseOf[o], SpotOf[o]) /\ Past(CaseOf[o], SpotOf[o])'
           /\ adm[o] = 0 /\ (o = "create" => ~Past(3, 3)')
        \/ /\ o = "create" /\ Past(2, 3) /\ ~Past(3, 3) /\ Past(2, 3)' /\ Past(3, 3)' /\ adm[o] = 1
           /\ next = 2
    <3>0. /\ ~Past(CaseOf[o], SpotOf[o]) => adm[o] = 0
          /\ Past(CaseOf[o], SpotOf[o]) /\ (o = "create" => ~Past(3, 3)) => adm[o] = 1
      BY <1>1, <2>1, <2>2 DEF Admissions
    <3>1. CASE next + 1 = CaseOf[o] /\ at = SpotOf[o]
      <4>1. ~Past(CaseOf[o], SpotOf[o]) /\ Past(CaseOf[o], SpotOf[o])'
        BY <1>1, <1>2, <2>2, <2>3, <3>1 DEF Past
      <4>2. o = "create" => ~Past(3, 3)'
        BY <1>1, <1>2, <2>4, <3>1 DEF Past
      <4> QED
        BY <3>0, <4>1, <4>2
    <3>2. CASE o = "create" /\ next + 1 = 3 /\ at = 3
      <4>1. next = 2 /\ Past(2, 3) /\ ~Past(3, 3) /\ Past(2, 3)' /\ Past(3, 3)'
        BY <1>1, <1>2, <3>2 DEF Past
      <4> QED
        BY <2>4, <3>0, <3>2, <4>1
    <3> QED
      BY <2>2, <3>1, <3>2 DEF SignedAt
  <2>8. adm'[o] \in 1..2 /\ (adm'[o] = 2 => o = "create" /\ next = 2)
    BY <2>6, <2>7
  <2>9. adm' \in [Ops -> 0..2]
    BY <1>2, <2>2, <2>6, <2>8
  <2>10. Admissions'
    <3>1. \A op \in Ops : adm'[op] <= 1 \/ op = "create"
      BY <1>2, <2>6, <2>8 DEF Admissions
    <3>2. ASSUME NEW op \in Ops
          PROVE  /\ ~Past(CaseOf[op], SpotOf[op])' => adm'[op] = 0
                 /\ Past(CaseOf[op], SpotOf[op])' /\ (op = "create" => ~Past(3, 3)') => adm'[op] = 1
                 /\ op = "create" /\ Past(3, 3)' => adm'[op] = 2
      <4>1. CASE op # o
        <5>1. /\ ~Past(CaseOf[op], SpotOf[op]) => adm[op] = 0
              /\ Past(CaseOf[op], SpotOf[op]) /\ (op = "create" => ~Past(3, 3)) => adm[op] = 1
              /\ op = "create" /\ Past(3, 3) => adm[op] = 2
          BY <1>1, <2>1 DEF Admissions
        <5> QED
          BY <2>5, <2>6, <4>1, <5>1
      <4>2. CASE op = o
        <5>1. /\ ~Past(CaseOf[o], SpotOf[o])' => adm'[o] = 0
              /\ Past(CaseOf[o], SpotOf[o])' /\ (o = "create" => ~Past(3, 3)') => adm'[o] = 1
              /\ o = "create" /\ Past(3, 3)' => adm'[o] = 2
          BY <2>4, <2>6, <2>7
        <5> QED
          BY <4>2, <5>1
      <4> QED
        BY <4>1, <4>2
    <3> QED
      BY <3>1, <3>2 DEF Admissions
  <2>11. Seen'
    <3>1. \A op \in Ops : adm'[op] >= adm[op]
      BY <1>2, <2>2, <2>6
    <3>2. \A op \in Ops, n \in 1..2 : <<op, n>> \in used' \cup late' => n <= adm'[op]
      <4> SUFFICES ASSUME NEW op \in Ops, NEW n \in 1..2, <<op, n>> \in used' \cup late'
                   PROVE  n <= adm'[op]
        OBVIOUS
      <4>1. n <= adm[op]
        BY <1>1 DEF Seen
      <4>2. adm[op] \in Int /\ adm'[op] \in Int /\ adm[op] <= adm'[op]
        BY <1>2, <2>9, <3>1
      <4> QED
        BY <4>1, <4>2
    <3>3. next = 2 => ops["create"] # "none"
      <4> SUFFICES ASSUME next = 2 PROVE ops["create"] # "none"
        OBVIOUS
      <4>1. "initial" \in Phases /\ 2 \in 1..reported["initial"]
        BY <1>1, <2>1 DEF Flow, Phases
      <4>2. CaseTrue("initial", 2)
        BY <4>1 DEF Claims
      <4>3. StepTrue("initial", 2, 4)
        BY <4>2, SignPlaces DEF CaseTrue
      <4>4. Cases["initial"][2][4] = SubmitCreate
        BY CaseNames DEF Create
      <4>5. IsCall(SubmitCreate, "mutation") /\ SubmitCreate.of = "create"
        BY Calls
      <4>6. SubmitCreate.good = SuccessfulMutationStatus
        BY StepKinds DEF SubmitCreate
      <4> QED
        BY <4>3, <4>4, <4>5, <4>6 DEF StepTrue
    <3>4. \A op \in Ops : adm'[op] = 2 => ops'[op] # "none"
      <4> SUFFICES ASSUME NEW op \in Ops, adm'[op] = 2 PROVE ops[op] # "none"
        BY <1>1
      <4>1. CASE op # o
        BY <2>6, <4>1 DEF Seen
      <4>2. CASE op = o
        BY <2>8, <3>3, <4>2
      <4> QED
        BY <4>1, <4>2
    <3> QED
      BY <1>1, <3>2, <3>4 DEF Seen
  <2> QED
    BY <2>9, <2>10, <2>11
<1> QED
  BY <1>3, <1>4


\* Who holds the Gateway after a step: only start, stop and own change it.
LEMMA AdvanceHeld ==
    ASSUME IInv, Advances,
           Step.do = "start" => /\ gateways' = gateways + 1 /\ "gateway" \in mine' /\ kept' = kept,
           Step.do = "stop" => /\ gateways' = gateways - 1 /\ "gateway" \notin mine' /\ kept' = kept,
           Step.do = "own" => /\ gateways' = gateways /\ "gateway" \notin mine' /\ kept' = kept \cup mine,
           Step.do \notin {"start", "stop", "own"} =>
               /\ gateways' = gateways
               /\ "gateway" \in mine' <=> "gateway" \in mine
               /\ "gateway" \in kept' <=> "gateway" \in kept
    PROVE  Held' /\ gateways' \in Nat
<1> USE DEF IInv
<1>1. /\ pc = "case" /\ pc' = "case" /\ at \in 1..Len(Script) /\ at' = at + 1
      /\ phase' = phase /\ next' = next
      /\ stopFailed' = stopFailed /\ Script' = Script
  BY DEF Advances, Script
<1>2. /\ next \in Nat /\ Sound(Script) /\ Len(Script) \in Nat /\ at \in Nat
      /\ phase \in {"initial", "reconstruction"}
      /\ phase = "initial" => InitialScript(next + 1, Script)
      /\ phase = "reconstruction" => ReconstructionScript(next + 1, Script)
  BY <1>1, InScript, PhaseLength
<1>3. /\ ~stopFailed /\ gateways = IF "gateway" \in kept \cup mine THEN 1 ELSE 0
      /\ "gateway" \in mine <=> Opens(Script, at)
      /\ "gateway" \in kept => /\ phase = "reconstruction" /\ "gateway" \notin mine
                               /\ next >= 1 \/ at > Len(ReconstructionCapability)
  BY <1>1 DEF Held
<1>4. /\ Step.do = "start" => ~Opens(Script, at) /\ Opens(Script, at + 1)
      /\ Step.do \in {"stop", "own"} => Opens(Script, at) /\ ~Opens(Script, at + 1)
      /\ Step.do \notin {"start", "stop", "own"} => (Opens(Script, at + 1) <=> Opens(Script, at))
  BY <1>1, <1>2, OpensAlong DEF Step
<1>5. "gateway" \in mine' <=> Opens(Script, at + 1)
  BY <1>3, <1>4
<1>6. Step.do = "own" => /\ phase = "reconstruction" /\ next = 0 /\ at = Len(ReconstructionCapability)
  <2> SUFFICES ASSUME Step.do = "own"
               PROVE  phase = "reconstruction" /\ next = 0 /\ at = Len(ReconstructionCapability)
    OBVIOUS
  <2>1. phase = "reconstruction"
    BY <1>1, <1>2 DEF InitialScript, Step
  <2>2. next + 1 = 1 /\ at = Len(Script)
    BY <1>1, <1>2, <2>1 DEF ReconstructionScript, Step
  <2>3. next = 0
    BY <1>2, <2>2
  <2>4. Script = ReconstructionCapability
    BY <2>1, <2>2, CaseNames DEF Script
  <2> QED
    BY <2>1, <2>2, <2>3, <2>4
<1>7. Step.do = "start" => "gateway" \notin kept
  <2> SUFFICES ASSUME Step.do = "start", "gateway" \in kept PROVE FALSE
    OBVIOUS
  <2>1. phase = "reconstruction"
    BY <1>3
  <2>2. next + 1 = 1
    BY <1>1, <1>2, <2>1 DEF ReconstructionScript, Step
  <2>3. next = 0
    BY <1>2, <2>2
  <2>4. Script = ReconstructionCapability
    BY <2>1, <2>2, CaseNames DEF Script
  <2> QED
    BY <1>1, <1>2, <1>3, <2>3, <2>4
<1>8. "gateway" \in kept' => /\ phase = "reconstruction" /\ "gateway" \notin mine'
                             /\ next >= 1 \/ at + 1 > Len(ReconstructionCapability)
  <2> SUFFICES ASSUME "gateway" \in kept'
               PROVE  /\ phase = "reconstruction" /\ "gateway" \notin mine'
                      /\ next >= 1 \/ at + 1 > Len(ReconstructionCapability)
    OBVIOUS
  <2>0. Len(ReconstructionCapability) \in Nat
    BY DEF ReconstructionCapability
  <2>1. CASE Step.do = "own"
    BY <1>2, <1>6, <2>0, <2>1
  <2>2. CASE Step.do # "own"
    <3>1. "gateway" \in kept /\ "gateway" \notin mine'
      BY <1>3, <1>7, <2>2
    <3> QED
      BY <1>2, <1>3, <2>0, <3>1
  <2> QED
    BY <2>1, <2>2
<1>9. gateways' = IF "gateway" \in kept' \cup mine' THEN 1 ELSE 0
  <2>1. CASE Step.do = "start"
    BY <1>3, <1>4, <1>7, <2>1
  <2>2. CASE Step.do = "stop"
    BY <1>3, <1>4, <2>2
  <2>3. CASE Step.do = "own"
    BY <1>3, <1>4, <2>3
  <2>4. CASE Step.do \notin {"start", "stop", "own"}
    BY <1>3, <2>4
  <2> QED
    BY <2>1, <2>2, <2>3, <2>4
<1> QED
  BY <1>1, <1>3, <1>5, <1>8, <1>9 DEF Held

LEMMA LocalStepKeeps ==
    ASSUME IInv, LocalStep
    PROVE  IInv'
<1> USE DEF IInv
<1> DEFINE Local == {"enter", "build", "keep", "sign", "check", "live", "bind", "own"}
<1>1. InCase(Local)
  BY DEF LocalStep
<1>2. pc = "case" /\ at \in 1..Len(Script) /\ SoundStep(Step) /\ Step.do \in Local
  BY <1>1, AtStep
<1>3. wire = "idle"
  BY <1>2 DEF Flow, InCase
<1>4. Advances
  BY <1>2, <1>3 DEF LocalStep, Advance, Advances, providerVars
<1>5. Flow' /\ Told'
  BY <1>4, AdvanceFlow, AdvanceTold
<1>6. Stages' /\ ReportedStages' /\ disk' \in 0..InitialComplete
  <2>1. /\ disk' = IF Step.do = "bind" THEN Step.stage ELSE disk
        /\ Step.do = "enter" => disk = Step.stage
    BY DEF LocalStep
  <2> QED
    BY <1>4, <2>1, AdvanceStages
<1>7. Admissions' /\ Seen' /\ adm' \in [Ops -> 0..2]
  <2>1. adm' = IF Step.do = "sign" THEN [adm EXCEPT ![Step.of] = @ + 1] ELSE adm
    BY DEF LocalStep
  <2> QED
    BY <1>4, <2>1, AdvanceAdmissions
<1>8. /\ kept' = CASE Step.do = "keep" -> kept \cup {Step.actor}
                   [] Step.do = "own"  -> kept \cup mine
                   [] OTHER            -> kept
      /\ mine' = CASE Step.do = "build" -> mine \cup {Step.actor}
                   [] Step.do = "own"   -> {}
                   [] OTHER             -> mine
      /\ gateways' = gateways
  BY DEF LocalStep
<1>9. /\ Step.do = "keep" => Step.actor \in {"controller_a", "controller_b"}
      /\ Step.do = "build" => Step.actor \in {"controller_a", "controller_b", "same_ca_unadmitted"}
  BY <1>2 DEF SoundStep
<1>10. Held' /\ gateways' \in Nat
  <2>1. Step.do = "own" => /\ gateways' = gateways /\ "gateway" \notin mine' /\ kept' = kept \cup mine
    BY <1>8
  <2>2. Step.do # "own" =>
               /\ gateways' = gateways
               /\ "gateway" \in mine' <=> "gateway" \in mine
               /\ "gateway" \in kept' <=> "gateway" \in kept
    BY <1>8, <1>9
  <2> QED
    BY <1>2, <1>4, <2>1, <2>2, AdvanceHeld
<1>11. TypeOK'
  <2>1. kept \cup mine \subseteq
           {"bundle", "controller_a", "controller_b", "same_ca_unadmitted", "gateway"}
    BY DEF TypeOK
  <2>2. kept' \cup mine' \subseteq
           {"bundle", "controller_a", "controller_b", "same_ca_unadmitted", "gateway"}
    BY <1>8, <1>9, <2>1
  <2> QED
    BY <1>4, <1>6, <1>7, <1>10, <2>2, AdvanceTyped
<1>12. Claims'
  <2>1. StepTrue(phase, next + 1, at)
    BY <1>2 DEF StepTrue, IsCall, Step, Script
  <2> QED
    BY <1>4, <2>1, AdvanceClaims
<1>13. SuccessReportsAll'
  BY <1>4 DEF Advances, SuccessReportsAll
<1> QED
  BY <1>5, <1>6, <1>7, <1>10, <1>11, <1>12, <1>13

LEMMA GatewayStepKeeps ==
    ASSUME IInv, GatewayStep
    PROVE  IInv'
<1> USE DEF IInv
<1>1. InCase({"start", "gateway", "stop"})
  BY DEF GatewayStep
<1>2. pc = "case" /\ at \in 1..Len(Script) /\ Step.do \in {"start", "gateway", "stop"}
  BY <1>1, AtStep
<1>3. wire = "idle"
  BY <1>2 DEF Flow, InCase
<1>4. Advances /\ adm' = adm /\ disk' = disk /\ kept' = kept
  BY <1>2, <1>3 DEF GatewayStep, Advance, Advances, providerVars
<1>5. Flow' /\ Told'
  BY <1>4, AdvanceFlow, AdvanceTold
<1>6. Stages' /\ ReportedStages' /\ disk' \in 0..InitialComplete
  BY <1>2, <1>4, AdvanceStages
<1>7. Admissions' /\ Seen' /\ adm' \in [Ops -> 0..2]
  BY <1>2, <1>4, AdvanceAdmissions
<1>8. /\ gateways' = gateways + (IF Step.do = "start" THEN 1 ELSE IF Step.do = "stop" THEN -1 ELSE 0)
      /\ mine' = CASE Step.do = "start" -> mine \cup {"gateway"}
                   [] Step.do = "stop"  -> mine \ {"gateway"}
                   [] OTHER             -> mine
  BY DEF GatewayStep
<1>9. Held' /\ gateways' \in Nat
  <2>0. gateways \in Nat
    BY DEF TypeOK
  <2>1. Step.do = "start" => /\ gateways' = gateways + 1 /\ "gateway" \in mine'
    BY <1>8
  <2>2. Step.do = "stop" => /\ gateways' = gateways - 1 /\ "gateway" \notin mine'
    BY <1>8, <2>0
  <2>3. Step.do = "gateway" => gateways' = gateways /\ mine' = mine
    BY <1>8, <2>0
  <2> QED
    BY <1>2, <1>4, <2>1, <2>2, <2>3, AdvanceHeld
<1>10. TypeOK'
  <2>1. kept \cup mine \subseteq
           {"bundle", "controller_a", "controller_b", "same_ca_unadmitted", "gateway"}
    BY DEF TypeOK
  <2>2. kept' \cup mine' \subseteq
           {"bundle", "controller_a", "controller_b", "same_ca_unadmitted", "gateway"}
    BY <1>2, <1>4, <1>8, <2>1
  <2> QED
    BY <1>4, <1>6, <1>7, <1>9, <2>2, AdvanceTyped
<1>11. Claims'
  <2>1. StepTrue(phase, next + 1, at)
    BY <1>2 DEF StepTrue, IsCall, Step, Script
  <2> QED
    BY <1>4, <2>1, AdvanceClaims
<1>12. SuccessReportsAll'
  BY <1>4 DEF Advances, SuccessReportsAll
<1> QED
  BY <1>5, <1>6, <1>7, <1>9, <1>10, <1>11, <1>12

LEMMA ReceiveGoodKeeps ==
    ASSUME IInv, ReceiveGood
    PROVE  IInv'
<1> USE DEF IInv
<1>1. InCase({"call"}) /\ wire = "answered" /\ answer \in Step.good
  BY DEF ReceiveGood
<1>2. pc = "case" /\ at \in 1..Len(Script) /\ Step.do = "call" /\ SoundStep(Step)
  BY <1>1, AtStep
<1>3. /\ Advances /\ adm' = adm /\ disk' = disk /\ kept' = kept /\ mine' = mine /\ gateways' = gateways
  BY <1>2 DEF ReceiveGood, Advance, Advances, providerVars
<1>4. Flow' /\ Told'
  BY <1>3, AdvanceFlow, AdvanceTold
<1>5. Stages' /\ ReportedStages' /\ disk' \in 0..InitialComplete
  BY <1>2, <1>3, AdvanceStages
<1>6. Admissions' /\ Seen' /\ adm' \in [Ops -> 0..2]
  BY <1>2, <1>3, AdvanceAdmissions
<1>7. Held' /\ gateways' \in Nat
  BY <1>2, <1>3, AdvanceHeld
<1>8. TypeOK'
  <2>1. kept \cup mine \subseteq
           {"bundle", "controller_a", "controller_b", "same_ca_unadmitted", "gateway"}
    BY DEF TypeOK
  <2> QED
    BY <1>3, <1>5, <1>6, <1>7, <2>1, AdvanceTyped
<1>9. Claims'
  <2>1. Cases[phase][next + 1][at] = Step /\ (IsMutation <=> IsCall(Step, "mutation"))
    BY DEF Step, Script, IsMutation, IsCall
  <2>2. ASSUME IsCall(Step, "mutation")
        PROVE  /\ <<Step.of, AdmissionOf(next + 1, at)>> \in used
               /\ Step.good = SuccessfulMutationStatus => ops[Step.of] # "none"
               /\ Step.of = "cross" => dispatched["cross"] = 0
               /\ Step.of = "stale" /\ ~retried => dispatched["stale"] = 0
    <3>1. /\ adm[Step.of] = AdmissionOf(next + 1, at)
      BY <1>1, <2>1, <2>2, AdmissionNow
    <3>2. answer \notin Throttled /\ (Step.of = "cross" => answer = "403")
          /\ (Step.of = "stale" => answer = "409")
      BY <1>1, <1>2, <2>2 DEF SoundStep
    <3> QED
      BY <1>1, <2>1, <2>2, <3>1, <3>2 DEF Told
  <2>3. IsCall(Step, "operation") => ops[Step.of] \in Step.good
    <3> SUFFICES ASSUME IsCall(Step, "operation") PROVE ops[Step.of] \in Step.good
      OBVIOUS
    <3>1. answer \in {"succeeded", "cancelled"} /\ Step.sort = "operation"
      BY <1>1, <1>2 DEF SoundStep, IsCall
    <3> QED
      BY <1>1, <3>1 DEF Told
  <2>4. IsCall(Step, "document") \/ IsCall(Step, "discovery") => altered # Step.of
    <3> SUFFICES ASSUME IsCall(Step, "document") \/ IsCall(Step, "discovery") PROVE altered # Step.of
      OBVIOUS
    <3>1. answer = "document" /\ Step.sort \in {"document", "discovery"}
      BY <1>1, <1>2 DEF SoundStep, IsCall
    <3> QED
      BY <1>1, <3>1 DEF Told
  <2>5. StepTrue(phase, next + 1, at)
    BY <2>1, <2>2, <2>3, <2>4 DEF StepTrue
  <2> QED
    BY <1>3, <2>5, AdvanceClaims
<1>10. SuccessReportsAll'
  BY <1>3 DEF Advances, SuccessReportsAll
<1> QED
  BY <1>4, <1>5, <1>6, <1>7, <1>8, <1>9, <1>10


-----------------------------------------------------------------------------
(* Between the cases *)

LEMMA ExecutedKeeps ==
    ASSUME IInv, Executed
    PROVE  IInv'
<1> USE DEF IInv
<1>1. /\ pc = "case" /\ at > Len(Script) /\ pc' = "report" /\ next' = next + 1 /\ at' = 1 /\ mine' = {}
      /\ phase' = phase /\ attempt' = attempt /\ left' = left /\ wire' = wire /\ kept' = kept /\ adm' = adm
      /\ retried' = retried /\ disk' = disk /\ reported' = reported /\ exit' = exit
      /\ stopFailed' = stopFailed /\ late' = late /\ used' = used /\ ops' = ops
      /\ dispatched' = dispatched /\ altered' = altered /\ gateways' = gateways
  BY DEF Executed, providerVars
<1>2. /\ next \in Nat /\ next + 1 \in 1..Len(Cases[phase]) /\ Sound(Script) /\ Len(Script) \in Nat \ {0}
      /\ at \in 1..(Len(Script) + 1) /\ phase \in {"initial", "reconstruction"}
  BY <1>1, InScript, PhaseLength
<1>3. at = Len(Script) + 1 /\ reported[phase] = next /\ wire = "idle"
  BY <1>1, <1>2 DEF Flow, InCase
<1>4. TypeOK'
  <2>1. ~InCase({"call"})' /\ pc' = "report"
    BY <1>1 DEF InCase
  <2>2. next' \in 0..Len(Cases[phase'])
    BY <1>1, <1>2
  <2>3. kept' \cup mine' \subseteq kept \cup mine
    BY <1>1
  <2> QED
    BY <1>1, <2>1, <2>2, <2>3 DEF TypeOK
<1>5. Flow'
  <2>1. next' >= 1 /\ reported'[phase'] = next' - 1
    BY <1>1, <1>2, <1>3
  <2> QED
    BY <1>1, <1>3, <2>1 DEF Flow
<1>6. Stages'
  BY <1>1 DEF Stages
<1>7. Held'
  <2>1. "gateway" \notin mine
    <3>1. Len(Script) \in 1..Len(Script)
      BY <1>2
    <3>2. ~Opens(Script, Len(Script) + 1)
      BY <1>2, <3>1, OpensAlong
    <3> QED
      BY <1>1, <1>3, <3>2 DEF Held
  <2>2. next' >= 1
    BY <1>1, <1>2
  <2> QED
    BY <1>1, <2>1, <2>2 DEF Held
<1>8. Admissions'
  <2>1. ASSUME phase = "initial", NEW op \in Ops
        PROVE  /\ Past(CaseOf[op], SpotOf[op])' <=> Past(CaseOf[op], SpotOf[op])
               /\ Past(3, 3)' <=> Past(3, 3)
    <3>1. /\ CaseOf[op] \in Nat /\ SpotOf[op] \in 1..Len(Cases["initial"][CaseOf[op]])
          /\ Len(Cases["initial"][3]) = 5
      BY SignPlaces
    <3>4. Past(3, 3)' <=> Past(3, 3)
      <4>1. CASE next + 1 = 3
        <5>0. Script = Cases["initial"][3]
          BY <2>1, <4>1 DEF Script
        <5>1. Len(Script) = 5
          BY <3>1, <5>0
        <5>2. at = 6
          BY <1>3, <5>1
        <5> QED
          BY <1>1, <1>2, <4>1, <5>2 DEF Past
      <4>2. CASE next + 1 # 3
        BY <1>1, <1>2, <4>2 DEF Past
      <4> QED
        BY <4>1, <4>2
    <3>2. CASE next + 1 = CaseOf[op]
      <4>1. SpotOf[op] < at /\ SpotOf[op] \in Nat \ {0}
        BY <1>2, <1>3, <2>1, <3>1, <3>2 DEF Script
      <4>2. Past(CaseOf[op], SpotOf[op])' /\ Past(CaseOf[op], SpotOf[op])
        BY <1>1, <1>2, <3>1, <3>2, <4>1 DEF Past
      <4> QED
        BY <3>4, <4>2
    <3>3. CASE next + 1 # CaseOf[op]
      <4>1. SpotOf[op] \in Nat \ {0}
        BY <3>1
      <4>2. Past(CaseOf[op], SpotOf[op])' <=> Past(CaseOf[op], SpotOf[op])
        BY <1>1, <1>2, <3>1, <3>3, <4>1 DEF Past
      <4> QED
        BY <3>4, <4>2
    <3> QED
      BY <3>2, <3>3
  <2> QED
    BY <1>1, <2>1 DEF Admissions
<1>9. Seen'
  BY <1>1 DEF Seen
<1>10. Told'
  BY <1>1 DEF Told, InCase
<1>11. Claims'
  <2>1. \A p, k, i : StepTrue(p, k, i)' <=> StepTrue(p, k, i)
    BY <1>1 DEF StepTrue
  <2>2. \A p \in Phases : \A k \in 1..reported[p] : CaseTrue(p, k)'
    BY <2>1 DEF Claims, CaseTrue
  <2>3. \A i \in 1..Len(Cases[phase][next + 1]) : StepTrue(phase, next + 1, i)
    <3>1. at - 1 = Len(Cases[phase][next + 1])
      BY <1>2, <1>3 DEF Script
    <3> QED
      BY <1>1, <3>1 DEF Claims
  <2>4. CaseTrue(phase, next)'
    BY <1>1, <2>1, <2>3 DEF CaseTrue
  <2> QED
    BY <1>1, <2>2, <2>4 DEF Claims
<1>12. ReportedStages' /\ SuccessReportsAll'
  BY <1>1 DEF ReportedStages, SuccessReportsAll
<1> QED
  BY <1>4, <1>5, <1>6, <1>7, <1>8, <1>9, <1>10, <1>11, <1>12

\* A case begins with its entry checks, without a Gateway of its own.
LEMMA Begins ==
    ASSUME TypeOK, next < Len(Cases[phase])
    PROVE  /\ Len(Script) \in Nat \ {0} /\ Script[1].do = "enter" /\ ~Opens(Script, 1)
<1>1. next \in Nat /\ Sound(Script)
  <2>0. next \in 0..Len(Cases[phase])
    BY DEF TypeOK
  <2>1. CASE phase = "initial"
    <3>1. Len(Cases[phase]) = 15
      BY <2>1, PhaseLength
    <3>2. next \in Nat /\ next + 1 \in 1..15
      BY <2>0, <3>1
    <3> QED
      BY <2>1, <3>2, CaseFacts DEF Script
  <2>2. CASE phase = "reconstruction"
    <3>1. Len(Cases[phase]) = 5
      BY <2>2, PhaseLength
    <3>2. next \in Nat /\ next + 1 \in 1..5
      BY <2>0, <3>1
    <3> QED
      BY <2>2, <3>2, CaseFacts DEF Script
  <2> QED
    BY <2>1, <2>2, PhaseLength
<1>2. Len(Script) \in Nat \ {0} /\ 1 \in 1..Len(Script)
  BY <1>1 DEF Sound
<1>3. Script[1].do = "enter"
  BY <1>1, <1>2 DEF Sound
<1>4. ~Opens(Script, 1)
  BY <1>1, <1>2, OpensAlong
<1> QED
  BY <1>2, <1>3, <1>4

\* A command that names the next case starts it.
CaseBegins ==
    /\ pc \in {"start", "await"} /\ pc' = "case" /\ left' \in {1, 2}
    /\ pc = "start" => kept' = {"bundle"} /\ (phase = "reconstruction" => disk = InitialComplete)
    /\ pc = "await" => kept' = kept
    /\ disk' = IF pc = "start" /\ phase = "initial" THEN Planned ELSE disk
    /\ UNCHANGED <<phase, next, at, attempt, wire, mine, adm, retried, reported, exit, stopFailed,
                   late, used, ops, dispatched, altered, gateways>>

LEMMA CaseBeginsKeeps ==
    ASSUME IInv, CaseBegins
    PROVE  IInv'
<1> USE DEF IInv
<1>1. /\ pc \in {"start", "await"} /\ pc' = "case" /\ left' \in {1, 2} /\ phase' = phase /\ next' = next
      /\ at' = at /\ attempt' = attempt /\ wire' = wire /\ mine' = mine /\ adm' = adm
      /\ retried' = retried /\ reported' = reported /\ exit' = exit /\ stopFailed' = stopFailed
      /\ late' = late /\ used' = used /\ ops' = ops /\ dispatched' = dispatched /\ altered' = altered
      /\ gateways' = gateways
  BY DEF CaseBegins
<1>2. /\ pc = "start" => kept' = {"bundle"} /\ (phase = "reconstruction" => disk = InitialComplete)
      /\ pc = "await" => kept' = kept
      /\ disk' = IF pc = "start" /\ phase = "initial" THEN Planned ELSE disk
  BY DEF CaseBegins
<1>3. /\ at = 1 /\ wire = "idle" /\ mine = {} /\ reported[phase] = next /\ next < Len(Cases[phase])
      /\ pc = "start" => next = 0 /\ kept = {}
  <2>1. CASE phase = "initial"
    <3>1. Len(Cases[phase]) = 15
      BY <2>1, PhaseLength
    <3> QED
      BY <1>1, <3>1 DEF Flow
  <2>2. CASE phase = "reconstruction"
    <3>1. Len(Cases[phase]) = 5
      BY <2>2, PhaseLength
    <3> QED
      BY <1>1, <3>1 DEF Flow
  <2> QED
    BY <2>1, <2>2, PhaseLength
<1>4. /\ phase \in {"initial", "reconstruction"} /\ next \in Nat
      /\ Len(Script) \in Nat \ {0} /\ Script[1].do = "enter" /\ ~Opens(Script, 1)
  <2>1. next \in Nat
    BY PhaseLength DEF TypeOK
  <2> QED
    BY <1>3, <2>1, Begins, PhaseLength
<1>5. Script' = Script /\ Step' = Script[1] /\ ~InCase({"call"})'
  <2>1. Script' = Script /\ Step' = Script[1]
    BY <1>1, <1>3 DEF Script, Step
  <2> QED
    BY <1>4, <2>1 DEF InCase
<1>6. disk \in 0..InitialComplete /\ disk' \in 0..InitialComplete
  BY <1>2 DEF TypeOK, Planned, InitialComplete
<1>7. TypeOK'
  <2>1. at' \in 1..(Len(Script') + 1)
    BY <1>1, <1>3, <1>4, <1>5
  <2>2. kept' \cup mine' \subseteq
           {"bundle", "controller_a", "controller_b", "same_ca_unadmitted", "gateway"}
    BY <1>1, <1>2 DEF TypeOK
  <2>3. left' \in 0..2
    BY <1>1
  <2> QED
    BY <1>1, <1>5, <1>6, <2>1, <2>2, <2>3 DEF TypeOK
<1>8. Flow'
  BY <1>1, <1>3 DEF Flow
<1>9. Stages'
  <2>1. phase = "reconstruction" => disk' = InitialComplete
    BY <1>1, <1>2, <1>4 DEF Stages
  <2>2. reported'["reconstruction"] > 0 => disk' = InitialComplete
    BY <1>1, <1>4, <2>1 DEF Flow
  <2> QED
    BY <1>1, <1>3, <2>1, <2>2 DEF Stages
<1>10. Held'
  <2>1. ~stopFailed
    BY <1>1, <1>2 DEF Held
  <2>2. "gateway" \in kept' => "gateway" \in kept /\ pc = "await"
    BY <1>1, <1>2
  <2>3. "gateway" \in kept => pc # "start" /\ phase = "reconstruction" /\ next >= 1
    <3>1. "gateway" \in kept => phase = "reconstruction" /\ (next >= 1 \/ at > Len(ReconstructionCapability))
      BY DEF Held
    <3>2. ~(at > Len(ReconstructionCapability))
      BY <1>3 DEF ReconstructionCapability
    <3> QED
      BY <1>3, <3>1, <3>2
  <2>4. gateways' = IF "gateway" \in kept' \cup mine' THEN 1 ELSE 0
    <3>1. "gateway" \in kept' <=> "gateway" \in kept
      BY <1>1, <1>2, <2>3
    <3> QED
      BY <1>1, <2>1, <3>1 DEF Held
  <2>5. "gateway" \in mine' <=> Opens(Script', at')
    BY <1>1, <1>3, <1>4, <1>5
  <2> QED
    BY <1>1, <1>3, <2>1, <2>2, <2>3, <2>4, <2>5 DEF Held
<1>11. Admissions'
  BY <1>1 DEF Admissions, Past
<1>12. Seen'
  BY <1>1 DEF Seen
<1>13. Told'
  BY <1>5 DEF Told
<1>14. Claims'
  <2>1. \A p, k, i : StepTrue(p, k, i)' <=> StepTrue(p, k, i)
    BY <1>1 DEF StepTrue
  <2>2. \A p \in Phases : \A k \in 1..reported[p] : CaseTrue(p, k)'
    BY <2>1 DEF Claims, CaseTrue
  <2> QED
    BY <1>1, <1>3, <2>2 DEF Claims
<1>15. ReportedStages'
  <2>1. CASE pc = "start" /\ phase = "initial"
    BY <1>1, <2>1 DEF Flow, ReportedStages
  <2>2. CASE ~(pc = "start" /\ phase = "initial")
    BY <1>1, <1>2, <2>2 DEF ReportedStages
  <2> QED
    BY <2>1, <2>2
<1>16. SuccessReportsAll'
  BY <1>1 DEF SuccessReportsAll
<1> QED
  BY <1>7, <1>8, <1>9, <1>10, <1>11, <1>12, <1>13, <1>14, <1>15, <1>16



LEMMA StartKeeps ==
    ASSUME IInv, Start
    PROVE  IInv'
<1> USE DEF providerVars
<1>1. /\ pc = "start" /\ UNCHANGED <<phase, adm, retried, reported, late, used, ops, dispatched, altered>>
  BY DEF Start
<1>2. phase \in {"initial", "reconstruction"}
  BY PhaseLength DEF IInv
<1>3. CASE Leave(ExitData) /\ UNCHANGED disk
  <2>1. Leaves
    BY <1>1, <1>3 DEF Leaves, Codes, ExitData, ExitSuccess
  <2> QED
    BY <2>1, LeavesKeep
<1>4. CASE Leave(ExitSoftware) /\ disk' \in IF phase = "initial" THEN {disk, Planned} ELSE {disk}
  <2>1. Leaves
    BY <1>1, <1>4 DEF Leaves, Codes, ExitSoftware, ExitSuccess
  <2> QED
    BY <2>1, LeavesKeep
<1>5. CASE /\ IF phase = "initial" THEN disk' = Planned
                                   ELSE disk = InitialComplete /\ UNCHANGED disk
           /\ pc' = "case" /\ left' \in {1, 2} /\ kept' = {"bundle"}
           /\ UNCHANGED <<next, at, attempt, wire, answer, mine, exit, stopFailed, gateways>>
  <2>1. CaseBegins
    BY <1>1, <1>2, <1>5 DEF CaseBegins
  <2> QED
    BY <2>1, CaseBeginsKeeps
<1> QED
  BY <1>3, <1>4, <1>5 DEF Start

LEMMA NextCommandKeeps ==
    ASSUME IInv, NextCommand
    PROVE  IInv'
<1> USE DEF providerVars
<1>1. CASE Leave(ExitData)
  <2>1. Leaves
    BY <1>1 DEF NextCommand, Leaves, Codes, ExitData, ExitSuccess
  <2> QED
    BY <2>1, LeavesKeep
<1>2. CASE /\ pc' = "case" /\ left' \in {1, 2}
           /\ UNCHANGED <<next, at, attempt, wire, answer, kept, mine, exit, stopFailed, gateways>>
  <2>1. CaseBegins
    BY <1>2 DEF NextCommand, CaseBegins
  <2> QED
    BY <2>1, CaseBeginsKeeps
<1> QED
  BY <1>1, <1>2 DEF NextCommand

\* The result of a case that is over is written.
LEMMA ReportKeeps ==
    ASSUME IInv, Report
    PROVE  IInv'
<1> USE DEF IInv
<1>1. /\ pc = "report"
      /\ UNCHANGED <<phase, adm, retried, disk, late, used, ops, dispatched, altered>>
  BY DEF Report, providerVars
<1>2. CASE \E code \in {ExitSoftware, ExitData, ExitIO} : Leave(code) /\ UNCHANGED reported
  <2>1. Leaves
    BY <1>1, <1>2 DEF Leaves, Codes, ExitSoftware, ExitData, ExitIO, ExitSuccess
  <2> QED
    BY <2>1, LeavesKeep
<1>3. CASE /\ disk = StageAfter[phase][next]
           /\ reported' = [reported EXCEPT ![phase] = next]
           /\ pc' = IF next = Len(Cases[phase]) THEN "finish" ELSE "await"
           /\ UNCHANGED <<caseVars, kept, mine, exit, stopFailed, gateways>>
  <2>1. /\ phase' = phase /\ adm' = adm /\ retried' = retried /\ disk' = disk /\ late' = late
        /\ used' = used /\ ops' = ops /\ dispatched' = dispatched /\ altered' = altered
        /\ next' = next /\ at' = at /\ attempt' = attempt /\ left' = left /\ wire' = wire
        /\ kept' = kept /\ mine' = mine /\ exit' = exit /\ stopFailed' = stopFailed
        /\ gateways' = gateways /\ pc' \in {"finish", "await"}
    BY <1>1, <1>3 DEF caseVars
  <2>2. /\ phase \in Phases /\ next \in Nat /\ next >= 1 /\ next <= Len(Cases[phase])
        /\ Len(Cases[phase]) \in Nat /\ phase \in {"initial", "reconstruction"}
    <3>1. Len(Cases[phase]) \in Nat /\ phase \in {"initial", "reconstruction"}
      BY PhaseLength
    <3> QED
      BY <1>1, <3>1 DEF TypeOK, Flow
  <2>3. /\ reported \in [Phases -> Nat] /\ reported'[phase] = next /\ reported[phase] = next - 1
        /\ \A p \in Phases : p # phase => reported'[p] = reported[p]
    BY <1>1, <1>3, <2>2 DEF TypeOK, Flow
  <2>4. at = 1 /\ wire = "idle" /\ mine = {} /\ exit[phase] = Running
    BY <1>1 DEF Flow
  <2>5. TypeOK'
    <3>1. reported' \in [Phases -> Nat] /\ \A p \in Phases : reported'[p] <= Len(Cases[p])
      <4>1. reported' \in [Phases -> Nat]
        BY <1>3, <2>2, <2>3
      <4>2. \A p \in Phases : reported[p] <= Len(Cases[p])
        BY DEF TypeOK
      <4> QED
        BY <2>2, <2>3, <4>1, <4>2
    <3>2. ~InCase({"call"})' /\ pc' # "case"
      BY <2>1 DEF InCase
    <3> QED
      BY <2>1, <3>1, <3>2 DEF TypeOK
  <2>6. Flow'
    <3>1. pc' = "await" => next < Len(Cases[phase])
      BY <1>3, <2>2
    <3>2. pc' = "finish" => next = Len(Cases[phase])
      BY <1>3
    <3>3. phase = "initial" => reported'["reconstruction"] = 0
      BY <2>3 DEF Flow, Phases
    <3> QED
      BY <1>1, <2>1, <2>3, <2>4, <3>1, <3>2, <3>3 DEF Flow
  <2>7. Stages'
    <3>1. phase = "reconstruction" => disk = InitialComplete
      BY <1>1 DEF Stages
    <3>2. reported'["reconstruction"] > 0 => disk = InitialComplete
      BY <2>2, <2>3, <3>1 DEF Flow, Phases
    <3> QED
      BY <2>1, <3>1, <3>2 DEF Stages
  <2>8. Held'
    <3>1. ~stopFailed
      BY <1>1 DEF Held
    <3> QED
      BY <2>1, <3>1 DEF Held
  <2>9. Admissions' /\ Seen'
    BY <1>1, <2>1 DEF Admissions, Past, Seen
  <2>10. Told'
    BY <2>1 DEF Told, InCase
  <2>11. Claims'
    <3>1. \A p, k, i : StepTrue(p, k, i)' <=> StepTrue(p, k, i)
      BY <2>1 DEF StepTrue
    <3>2. \A p, k : CaseTrue(p, k)' <=> CaseTrue(p, k)
      BY <3>1 DEF CaseTrue
    <3>3. ASSUME NEW p \in Phases, NEW k \in 1..reported'[p] PROVE CaseTrue(p, k)
      <4>1. CASE p = phase /\ k = next
        BY <1>1, <4>1 DEF Claims
      <4>2. CASE ~(p = phase /\ k = next)
        <5>1. k \in 1..reported[p]
          BY <2>2, <2>3, <4>2
        <5> QED
          BY <5>1 DEF Claims
      <4> QED
        BY <4>1, <4>2
    <3> QED
      BY <2>1, <3>2, <3>3 DEF Claims
  <2>12. ReportedStages'
    <3>1. CASE phase = "initial"
      <4>0. Len(Cases[phase]) = 15
        BY <3>1, PhaseLength
      <4>1. reported'["initial"] = next /\ disk' = StageAfter["initial"][next] /\ next \in 1..15
        BY <1>3, <2>1, <2>2, <2>3, <3>1, <4>0
      <4>2. StageAfter["initial"][next] \in Int
        BY <4>1 DEF StageAfter
      <4> QED
        BY <4>1, <4>2 DEF ReportedStages
    <3>2. CASE phase = "reconstruction"
      BY <2>1, <2>3, <3>2 DEF ReportedStages, Phases
    <3> QED
      BY <2>2, <3>1, <3>2
  <2>13. SuccessReportsAll'
    BY <2>1, <2>3, <2>4 DEF SuccessReportsAll, Running, ExitSuccess
  <2> QED
    BY <2>5, <2>6, <2>7, <2>8, <2>9, <2>10, <2>11, <2>12, <2>13
<1> QED
  BY <1>2, <1>3 DEF Report

\* The second process starts from what the first one left.
LEMMA ReconstructKeeps ==
    ASSUME IInv, Reconstruct
    PROVE  IInv'
<1> USE DEF IInv
<1>1. /\ pc = "exited" /\ phase = "initial" /\ phase' = "reconstruction" /\ pc' = "start"
      /\ altered' \in Docs \cup {"none"} /\ next' = next /\ at' = at /\ attempt' = attempt
      /\ left' = left /\ wire' = wire /\ kept' = kept /\ mine' = mine /\ adm' = adm
      /\ retried' = retried /\ disk' = disk /\ reported' = reported /\ exit' = exit
      /\ stopFailed' = stopFailed /\ late' = late /\ used' = used /\ ops' = ops
      /\ dispatched' = dispatched /\ gateways' = gateways
  BY DEF Reconstruct, caseVars
<1>2. /\ next = 0 /\ at = 1 /\ wire = "idle" /\ kept = {} /\ mine = {}
      /\ reported["reconstruction"] = 0 /\ exit["reconstruction"] = Running
  BY <1>1 DEF Flow
<1>3. TypeOK'
  <2>1. ~InCase({"call"})' /\ pc' # "case"
    BY <1>1 DEF InCase
  <2>2. next' \in 0..Len(Cases[phase']) /\ phase' \in Phases
    <3>1. Len(Cases[phase']) = 5
      BY <1>1, CaseNames
    <3> QED
      BY <1>1, <1>2, <3>1 DEF Phases
  <2> QED
    BY <1>1, <2>1, <2>2 DEF TypeOK
<1>4. Flow'
  BY <1>1, <1>2 DEF Flow
<1>5. Stages'
  BY <1>1, <1>2 DEF Stages
<1>6. Held'
  <2>1. stopFailed => disk # InitialComplete
    BY <1>1 DEF Held
  <2> QED
    BY <1>1, <1>2, <2>1 DEF Held
<1>7. Admissions' /\ Seen'
  BY <1>1 DEF Admissions, Seen
<1>8. Told'
  BY <1>1 DEF Told, InCase
<1>9. Claims'
  <2>1. \A k, i : StepTrue("initial", k, i)' <=> StepTrue("initial", k, i)
    BY <1>1 DEF StepTrue
  <2>2. \A k \in 1..reported'["initial"] : CaseTrue("initial", k)'
    BY <1>1, <2>1 DEF Claims, CaseTrue, Phases
  <2>3. 1..reported'["reconstruction"] = {}
    BY <1>1, <1>2
  <2> QED
    BY <1>1, <2>2, <2>3 DEF Claims, Phases
<1>10. ReportedStages' /\ SuccessReportsAll'
  BY <1>1 DEF ReportedStages, SuccessReportsAll
<1> QED
  BY <1>3, <1>4, <1>5, <1>6, <1>7, <1>8, <1>9, <1>10

LEMMA StutterKeeps ==
    ASSUME IInv, UNCHANGED vars
    PROVE  IInv'
<1> USE DEF IInv
<1>1. /\ left' = left /\ wire' = wire /\ Stays
      /\ attempt' = attempt /\ answer' = answer /\ retried' = retried
      /\ late' = late /\ used' = used /\ ops' = ops /\ dispatched' = dispatched /\ altered' = altered
  BY DEF vars, callerVars, caseVars, providerVars, Stays
<1>2. TypeOK'
  <2>1. /\ attempt \in 1..MaxPollAttempts /\ (InCase({"call"}) => attempt <= Step.tries) /\ left \in 0..2
        /\ retried \in BOOLEAN /\ used \subseteq Ops \X (1..2) /\ dispatched \in [Ops -> Nat]
        /\ ops \in [Ops -> {"none", "accepted", "running", "succeeded", "failed", "cancelled"}]
        /\ wire \in {"idle", "sent", "answered"}
    BY DEF TypeOK
  <2> QED
    BY <1>1, <2>1, StayTyped
<1>3. Flow' /\ Stages' /\ Held' /\ Admissions' /\ ReportedStages' /\ SuccessReportsAll'
  <2>1. wire' # "idle" => InCase({"call"})
    BY <1>1 DEF Flow
  <2> QED
    BY <1>1, <2>1, StaysKeep
<1>4. Seen'
  BY <1>1 DEF Seen, Stays
<1>5. Told'
  <2>1. Step' = Step /\ (IsMutation' <=> IsMutation) /\ (InCase({"call"})' <=> InCase({"call"}))
        /\ adm' = adm
    BY <1>1 DEF Stays, Step, Script, IsMutation, InCase
  <2> QED
    BY <1>1, <2>1 DEF Told
<1>6. Claims'
  <2>1. Grows /\ UNCHANGED <<phase, pc, next, at, reported>>
    BY <1>1 DEF Grows, Stays
  <2> QED
    BY <2>1, ClaimsStay
<1> QED
  BY <1>2, <1>3, <1>4, <1>5, <1>6

-----------------------------------------------------------------------------
(* The theorems *)

LEMMA InitHolds ==
    ASSUME Init
    PROVE  IInv
<1>1. TypeOK
  <2>1. Len(Cases["initial"]) = 15 /\ Len(Cases["reconstruction"]) = 5
    BY CaseNames
  <2>2. \A p \in Phases : 0 <= Len(Cases[p])
    BY <2>1 DEF Phases
  <2>3. 1 \in 1..MaxPollAttempts
    BY PollAssumption
  <2>4. ~InCase({"call"}) /\ pc # "case"
    BY DEF Init, InCase
  <2>5. next \in 0..Len(Cases[phase])
    BY <2>1 DEF Init
  <2>0. 0 \in 0..InitialComplete
    BY DEF InitialComplete
  <2>6. /\ phase \in Phases /\ attempt \in 1..MaxPollAttempts /\ left \in 0..2 /\ wire = "idle"
        /\ kept \cup mine = {} /\ disk \in 0..InitialComplete
        /\ late = {} /\ used = {} /\ altered \in Docs \cup {"none"}
        /\ gateways \in Nat /\ pc = "start"
    BY <2>0, <2>3 DEF Init, Phases
  <2>7. /\ adm \in [Ops -> 0..2] /\ dispatched \in [Ops -> Nat]
        /\ ops \in [Ops -> {"none", "accepted", "running", "succeeded", "failed", "cancelled"}]
        /\ exit \in [Phases -> {Running, ExitSuccess, ExitData, ExitSoftware, ExitIO}]
    BY DEF Init
  <2>8. reported \in [Phases -> Nat] /\ \A p \in Phases : reported[p] <= Len(Cases[p])
    BY <2>2 DEF Init
  <2>9. retried \in BOOLEAN /\ stopFailed \in BOOLEAN
    BY DEF Init
  <2> QED
    BY <2>4, <2>5, <2>6, <2>7, <2>8, <2>9 DEF TypeOK
<1>2. Flow
  BY DEF Init, Flow, Phases
<1>3. Stages /\ Held
  BY DEF Init, Stages, Held, Phases
<1>4. Admissions /\ Seen
  <2>1. ASSUME NEW op \in Ops PROVE ~Past(CaseOf[op], SpotOf[op]) /\ ~Past(3, 3)
    BY DEF Init, Past, CaseOf, SpotOf, Ops
  <2> QED
    BY <2>1 DEF Init, Admissions, Seen
<1>5. Told
  BY DEF Init, Told, InCase
<1>6. Claims
  BY DEF Init, Claims
<1>7. ReportedStages /\ SuccessReportsAll
  BY DEF Init, ReportedStages, SuccessReportsAll, Phases, Running, ExitSuccess
<1> QED
  BY <1>1, <1>2, <1>3, <1>4, <1>5, <1>6, <1>7 DEF IInv

LEMMA NextKeeps ==
    ASSUME IInv, [Next]_vars
    PROVE  IInv'
<1>1. CASE CallerStep
  BY <1>1, LocalStepKeeps, CallKeeps, ReceiveGoodKeeps, ReceiveAgainKeeps, ExecutedKeeps,
     LeavingActions, LeavesKeep DEF CallerStep
<1>2. CASE Tick \/ GatewayStep \/ CallErrors \/ GatewayFails \/ Finish
  BY <1>2, TickKeeps, GatewayStepKeeps, LeavingActions, LeavesKeep
<1>3. CASE Start \/ Report \/ NextCommand \/ Reconstruct
  BY <1>3, StartKeeps, ReportKeeps, NextCommandKeeps, ReconstructKeeps
<1>4. CASE ProviderAnswers \/ LateHandled \/ ProviderAdvances
  BY <1>4, ProviderAnswersKeeps, LateHandledKeeps, ProviderAdvancesKeeps
<1>5. CASE Done \/ UNCHANGED vars
  BY <1>5, StutterKeeps DEF Done
<1> QED
  BY <1>1, <1>2, <1>3, <1>4, <1>5 DEF Next

\* The inductive invariant of the external caller holds in every state of both
\* processes, whatever the Provider and the Gateway do.
THEOREM ScenarioInvariance == Spec => []IInv
<1>1. Init => IInv
  BY InitHolds
<1>2. IInv /\ [Next]_vars => IInv'
  BY NextKeeps
<1> QED
  BY <1>1, <1>2, PTL DEF Spec

\* Every variable keeps its type and a call its bound of attempts (TypeOK).
THEOREM ScenariosTyped == Spec => []TypeOK
<1>1. IInv => TypeOK
  BY DEF IInv
<1> QED
  BY <1>1, ScenarioInvariance, PTL

\* No mutation of the caller reaches the runtime twice, however its requests are
\* lost, retried, replayed or handled late (SingleDispatch).
THEOREM DispatchIsAlwaysSingle == Spec => []SingleDispatch
<1>1. IInv => SingleDispatch
  <2> SUFFICES ASSUME IInv, NEW op \in Ops PROVE dispatched[op] <= 1
    BY DEF SingleDispatch
  <2>1. dispatched[op] \in {0, 1}
    BY DEF IInv, Seen
  <2> QED
    BY <2>1
<1> QED
  BY <1>1, ScenarioInvariance, PTL

\* At most one Gateway service runs, held by the process that started it, and one
\* that could not be stopped never goes with exit code 0 (GatewaysAreOwned).
THEOREM GatewaysAreAlwaysOwned == Spec => []GatewaysAreOwned
<1>1. IInv => GatewaysAreOwned
  <2> SUFFICES ASSUME IInv PROVE GatewaysAreOwned
    OBVIOUS
  <2>1. gateways \in {0, 1} /\ (gateways = 1 /\ ~stopFailed => "gateway" \in kept \cup mine)
    BY DEF IInv, Held
  <2>2. stopFailed => \E p \in Phases : exit[p] \notin {Running, ExitSuccess}
    BY DEF IInv, Held
  <2>3. pc = "exited" => kept = {} /\ mine = {}
    BY DEF IInv, Flow
  <2> QED
    BY <2>1, <2>2, <2>3 DEF GatewaysAreOwned
<1> QED
  BY <1>1, ScenarioInvariance, PTL


\* Every step of a reported case is true of the Provider.
LEMMA ReportedSteps ==
    ASSUME IInv, NEW p \in Phases, NEW c, Reported(p, c), NEW i \in 1..Len(c)
    PROVE  \E k \in 1..Len(Cases[p]) : Cases[p][k] = c /\ StepTrue(p, k, i)
<1>1. PICK k \in 1..reported[p] : Cases[p][k] = c
  BY DEF Reported
<1>2. Len(Cases[p]) \in Nat
  BY CaseNames DEF Phases
<1>3. reported[p] \in Nat /\ reported[p] <= Len(Cases[p])
  BY DEF IInv, TypeOK
<1>4. k \in 1..Len(Cases[p])
  BY <1>2, <1>3
<1>5. StepTrue(p, k, i)
  BY <1>1 DEF IInv, Claims, CaseTrue
<1> QED
  BY <1>1, <1>4, <1>5

\* A reported poll has seen its operation end as the case claims.
LEMMA ReportedPolls ==
    ASSUME IInv, NEW p \in Phases, NEW c, Reported(p, c), NEW i \in 1..Len(c),
           NEW op, NEW want, c[i] = PollExpectedOperationStatus(op, want)
    PROVE  ops[op] = want
<1>1. PICK k \in 1..Len(Cases[p]) : Cases[p][k] = c /\ StepTrue(p, k, i)
  BY ReportedSteps
<1>2. /\ IsCall(Cases[p][k][i], "operation") /\ Cases[p][k][i].of = op
      /\ Cases[p][k][i].good = {want}
  BY <1>1, StepKinds DEF PollExpectedOperationStatus, IsCall
<1> QED
  BY <1>1, <1>2 DEF StepTrue

\* A mutation that was to be refused was not dispatched.
LEMMA ReportedRefusals ==
    ASSUME IInv, NEW p \in Phases, NEW c, Reported(p, c), NEW i \in 1..Len(c)
    PROVE  /\ c[i] = SubmitCrossTenantArtifact => dispatched["cross"] = 0
           /\ c[i] = SubmitRejectedExec /\ ~retried => dispatched["stale"] = 0
<1>1. PICK k \in 1..Len(Cases[p]) : Cases[p][k] = c /\ StepTrue(p, k, i)
  BY ReportedSteps
<1>2. c[i] = SubmitCrossTenantArtifact => IsCall(c[i], "mutation") /\ c[i].of = "cross"
  BY Calls
<1>3. c[i] = SubmitRejectedExec => IsCall(c[i], "mutation") /\ c[i].of = "stale"
  BY Calls
<1> QED
  BY <1>1, <1>2, <1>3 DEF StepTrue

\* A document read in the reconstruction phase was the one bound.
LEMMA ReportedDocuments ==
    ASSUME IInv, NEW c, Reported("reconstruction", c), NEW i \in 1..Len(c)
    PROVE  /\ \A doc : c[i] = ReadScenarioRetained(doc) => altered # doc
           /\ c[i] = DiscoverAdmittedCapabilities => altered # "capability"
<1>0. "reconstruction" \in Phases
  BY DEF Phases
<1>1. PICK k \in 1..Len(Cases["reconstruction"]) :
         Cases["reconstruction"][k] = c /\ StepTrue("reconstruction", k, i)
  BY <1>0, ReportedSteps
<1>2. \A doc : c[i] = ReadScenarioRetained(doc) => IsCall(c[i], "document") /\ c[i].of = doc
  BY StepKinds DEF ReadScenarioRetained, IsCall
<1>3. c[i] = DiscoverAdmittedCapabilities => IsCall(c[i], "discovery") /\ c[i].of = "capability"
  BY StepKinds DEF DiscoverAdmittedCapabilities, IsCall
<1> QED
  BY <1>1, <1>2, <1>3 DEF StepTrue

\* The reported replay used two admissions of its own.
LEMMA ReportedReplay ==
    ASSUME IInv, Reported("initial", Replay)
    PROVE  {"create"} \X {1, 2} \subseteq used
<1>0. /\ "initial" \in Phases /\ Len(Replay) = 5
      /\ Replay[2] = SubmitCreateReplay /\ Replay[4] = SubmitCreate
  BY DEF Phases, Replay
<1>1. PICK k \in 1..Len(Cases["initial"]) : Cases["initial"][k] = Replay /\ StepTrue("initial", k, 2)
  <2>1. 2 \in 1..Len(Replay)
    BY <1>0
  <2> QED
    BY <1>0, <2>1, ReportedSteps
<1>2. PICK m \in 1..Len(Cases["initial"]) : Cases["initial"][m] = Replay /\ StepTrue("initial", m, 4)
  <2>1. 4 \in 1..Len(Replay)
    BY <1>0
  <2> QED
    BY <1>0, <2>1, ReportedSteps
<1>3. \A j \in 1..Len(Cases["initial"]) : Cases["initial"][j] = Replay => j = 3
  <2> SUFFICES ASSUME NEW j \in 1..Len(Cases["initial"]), Cases["initial"][j] = Replay
               PROVE  j = 3
    OBVIOUS
  <2>1. InitialScript(j, Replay)
    BY CaseNames, CaseFacts
  <2>2. SubmittedAt(Replay[2].of, j, 2)
    BY <1>0, <2>1, Calls DEF InitialScript
  <2>3. Replay[2].of = "create"
    BY <1>0, Calls
  <2> QED
    BY <2>2, <2>3 DEF SubmittedAt
<1>4. /\ IsCall(Cases["initial"][k][2], "mutation") /\ Cases["initial"][k][2].of = "create"
      /\ IsCall(Cases["initial"][m][4], "mutation") /\ Cases["initial"][m][4].of = "create"
      /\ k = 3 /\ m = 3
  BY <1>0, <1>1, <1>2, <1>3, Calls
<1>5. AdmissionOf(k, 2) = 1 /\ AdmissionOf(m, 4) = 2
  BY <1>4 DEF AdmissionOf
<1>6. <<"create", 1>> \in used
  BY <1>1, <1>4, <1>5 DEF StepTrue
<1>7. <<"create", 2>> \in used
  BY <1>2, <1>4, <1>5 DEF StepTrue
<1> QED
  BY <1>6, <1>7

\* What the caller reports, and a zero exit, are true of the Provider, of the
\* durable state and of the documents, then and ever after (ReportedIsTrue).
THEOREM ReportsAreAlwaysTrue == Spec => []ReportedIsTrue
<1>1. IInv => ReportedIsTrue
  <2> SUFFICES ASSUME IInv PROVE ReportedIsTrue
    OBVIOUS
  <2>0. "initial" \in Phases /\ "reconstruction" \in Phases
    BY DEF Phases
  <2>1. Reported("initial", LifecycleCompletion) => ops["create"] = "succeeded"
    <3>1. 2 \in 1..Len(LifecycleCompletion)
          /\ LifecycleCompletion[2] = PollExpectedOperationStatus("create", "succeeded")
      BY DEF LifecycleCompletion
    <3> QED
      BY <2>0, <3>1, ReportedPolls
  <2>2. Reported("initial", ExecResultUsage) => ops["exec"] = "succeeded"
    <3>1. 4 \in 1..Len(ExecResultUsage)
          /\ ExecResultUsage[4] = PollExpectedOperationStatus("exec", "succeeded")
      BY DEF ExecResultUsage
    <3> QED
      BY <2>0, <3>1, ReportedPolls
  <2>3. Reported("initial", StaleFencing) /\ ~retried => dispatched["stale"] = 0
    <3>1. 3 \in 1..Len(StaleFencing) /\ StaleFencing[3] = SubmitRejectedExec
      BY DEF StaleFencing
    <3> QED
      BY <2>0, <3>1, ReportedRefusals
  <2>4. Reported("initial", ExecCancellation) =>
           ops["cancel"] = "succeeded" /\ ops["cancellable"] = "cancelled"
    <3>1. /\ 6 \in 1..Len(ExecCancellation) /\ 7 \in 1..Len(ExecCancellation)
          /\ ExecCancellation[6] = PollExpectedOperationStatus("cancel", "succeeded")
          /\ ExecCancellation[7] = PollExpectedOperationStatus("cancellable", "cancelled")
      BY DEF ExecCancellation
    <3>2. Reported("initial", ExecCancellation) => ops["cancel"] = "succeeded"
      BY <2>0, <3>1, ReportedPolls
    <3>3. Reported("initial", ExecCancellation) => ops["cancellable"] = "cancelled"
      BY <2>0, <3>1, ReportedPolls
    <3> QED
      BY <3>2, <3>3
  <2>5. Reported("initial", TerminalSession) => ops["terminal"] = "succeeded"
    <3>1. 4 \in 1..Len(TerminalSession)
          /\ TerminalSession[4] = PollExpectedOperationStatus("terminal", "succeeded")
      BY DEF TerminalSession
    <3> QED
      BY <2>0, <3>1, ReportedPolls
  <2>6. Reported("initial", ArtifactStaging) => ops["artifact"] = "succeeded"
    <3>1. 4 \in 1..Len(ArtifactStaging)
          /\ ArtifactStaging[4] = PollExpectedOperationStatus("artifact", "succeeded")
      BY DEF ArtifactStaging
    <3> QED
      BY <2>0, <3>1, ReportedPolls
  <2>7. Reported("initial", CrossTenantArtifactRejection) => dispatched["cross"] = 0
    <3>1. 4 \in 1..Len(CrossTenantArtifactRejection)
          /\ CrossTenantArtifactRejection[4] = SubmitCrossTenantArtifact
      BY DEF CrossTenantArtifactRejection
    <3> QED
      BY <2>0, <3>1, ReportedRefusals
  <2>8. Reported("reconstruction", ReconstructionCapability) => altered # "capability"
    <3>1. 3 \in 1..Len(ReconstructionCapability)
          /\ ReconstructionCapability[3] = DiscoverAdmittedCapabilities
      BY DEF ReconstructionCapability
    <3> QED
      BY <3>1, ReportedDocuments
  <2>9. Reported("reconstruction", ReconstructionEvidence) =>
           altered \notin {"result", "usage", "artifact"}
    <3>1. /\ 2 \in 1..Len(ReconstructionEvidence) /\ 3 \in 1..Len(ReconstructionEvidence)
          /\ 4 \in 1..Len(ReconstructionEvidence)
          /\ ReconstructionEvidence[2] = ReadScenarioRetained("result")
          /\ ReconstructionEvidence[3] = ReadScenarioRetained("usage")
          /\ ReconstructionEvidence[4] = ReadScenarioRetained("artifact")
      BY DEF ReconstructionEvidence
    <3> QED
      BY <3>1, ReportedDocuments
  <2>10. Reported("reconstruction", ReconstructionHandoff) => altered # "handoff"
    <3>1. 2 \in 1..Len(ReconstructionHandoff)
          /\ ReconstructionHandoff[2] = ReadScenarioRetained("handoff")
      BY DEF ReconstructionHandoff
    <3> QED
      BY <3>1, ReportedDocuments
  <2>11. ReportedOperations
    BY <2>1, <2>2, <2>3, <2>4, <2>5, <2>6, <2>7, ReportedReplay DEF ReportedOperations
  <2>12. ReportedContinuity
    BY <2>8, <2>9, <2>10 DEF ReportedContinuity, IInv, Stages
  <2> QED
    BY <2>11, <2>12 DEF ReportedIsTrue, IInv
<1> QED
  BY <1>1, ScenarioInvariance, PTL

=============================================================================
