----------------------------- MODULE AdapterRun -----------------------------
(***************************************************************************)
(* adapterapp.RunWithCaller (internal/adapterapp/run.go): the main goroutine *)
(* of the qualification adapter, which drives a PhaseMachine and a caller    *)
(* Runner and decides the exit code.  One action per call it makes; apc is   *)
(* the call it makes next.                                                  *)
(***************************************************************************)
EXTENDS PhaseMachine, CallerProcess

VARIABLES
    apc,      \* next call of RunWithCaller
    hasCaller,\* caller # nil; Run passes nil
    bundle,   \* the credential bundle
    fcode,    \* error code of a terminal protocol_error
    exit      \* exit status, Running until there is one

adapterVars == <<apc, hasCaller, bundle, fcode, exit>>
vars == <<machineVars, callerVars, adapterVars>>

Running      == -1
ExitSuccess  == 0
ExitUsage    == 64
ExitSoftware == 70
ExitIO       == 74

\* Every variable of the adapter, the machine and the runner has its type.
TypeOK ==
    /\ MachineTypeOK /\ CallerTypeOK
    /\ apc \in {"startup", "consume", "accept", "read", "scenario", "call", "result",
                "skip", "finish", "close", "closing", "fail", "failing", "drop", "dropping", "done"}
    /\ hasCaller \in BOOLEAN
    /\ bundle \in {"none", "held", "destroyed"}
    /\ fcode \in {"none", "credential_channel_failed", "caller_start_failed",
                  "scenario_execution_failed", "internal_failure"}
    /\ exit \in {Running, ExitSuccess, ExitUsage, ExitSoftware, ExitIO}

Init ==
    /\ MachineInit /\ CallerInit
    /\ apc = "startup" /\ hasCaller \in BOOLEAN
    /\ bundle = "none" /\ fcode = "none" /\ exit = Running

-----------------------------------------------------------------------------

Goto(next) == apc' = next /\ UNCHANGED exit
Exit(code) == apc' = "done" /\ exit' = code
Failed == mstate' = "failed"

\* bundle.Destroy
Destroy == bundle' = IF bundle = "held" THEN "destroyed" ELSE bundle

\* Arguments, or a startup identity that does not validate.
RefuseToRun ==
    /\ apc = "startup"
    /\ \E code \in {ExitUsage, ExitSoftware} : Exit(code)
    /\ UNCHANGED <<machineVars, callerVars, hasCaller, bundle, fcode>>

WriteStartup ==
    /\ apc = "startup"
    /\ Start
    /\ IF Failed THEN Exit(ExitIO) ELSE Goto("consume")
    /\ UNCHANGED <<callerVars, hasCaller, bundle, fcode>>

ReadInvocation ==
    /\ apc = "consume"
    /\ \/ (\E p \in Phases : ConsumeInvocation(p)) /\ Goto("accept")
       \/ ConsumeInvalidInvocation /\ Exit(IF Failed THEN ExitIO ELSE ExitSuccess)
    /\ UNCHANGED <<callerVars, hasCaller, bundle, fcode>>

Accept ==
    /\ apc = "accept"
    /\ AcceptInvocation
    /\ IF Failed THEN Exit(ExitIO) ELSE Goto("read")
    /\ UNCHANGED <<callerVars, hasCaller, bundle, fcode>>

\* credentials.Reader.Read destroys what it has read when it fails.
ReadCredentials ==
    /\ apc = "read"
    /\ \/ /\ bundle' = "held"
          /\ Goto(IF hasCaller THEN "scenario" ELSE "skip")
          /\ UNCHANGED <<machineVars, fcode>>
       \/ /\ Fail /\ fcode' = "credential_channel_failed"
          /\ Exit(IF Failed THEN ExitIO ELSE ExitSuccess)
          /\ UNCHANGED bundle
    /\ UNCHANGED <<callerVars, hasCaller>>

\* A case that cannot be announced drops the caller.
AnnounceScenario ==
    /\ apc = "scenario"
    /\ StartScenario(nextCase + 1)
    /\ Goto(IF Failed THEN "drop" ELSE "call")
    /\ UNCHANGED <<callerVars, hasCaller, bundle, fcode>>

\* The first case starts the caller, the others are commands to it.
CallCaller ==
    /\ apc = "call"
    /\ IF nextCase = 0 THEN StartRefused \/ StartSpawns(CaseCount[phase] = 1)
       ELSE RunBegins(nextCase + 1 = CaseCount[phase])
    /\ Goto("result")
    /\ UNCHANGED <<machineVars, hasCaller, bundle, fcode>>

\* The driver takes the answer of a call.
TakeReturn ==
    /\ rstep = "returned"
    /\ rstep' = "idle"
    /\ UNCHANGED <<childVars, killed, ctx, installed, callVars, clock, forced, ret>>

\* An error, or a result of the wrong case, disposition or shape.
ScenarioFails ==
    /\ apc = "result" /\ TakeReturn
    /\ fcode' = IF ret = "ok" THEN "scenario_execution_failed" ELSE FailureCode(ret)
    /\ Goto("fail")
    /\ UNCHANGED <<machineVars, hasCaller, bundle>>

ScenarioCompletes ==
    /\ apc = "result" /\ TakeReturn /\ ret = "ok"
    /\ Result(nextCase + 1, "completed")
    /\ Goto(IF Failed THEN "drop"
            ELSE IF nextCase' = CaseCount[phase] THEN "close" ELSE "scenario")
    /\ UNCHANGED <<hasCaller, bundle, fcode>>

\* caller.Close: after the last case, in failCaller, or on an output failure.
CloseCaller ==
    /\ apc \in {"close", "fail", "drop"}
    /\ CloseWithoutSession \/ CloseBegins
    /\ Goto(CASE apc = "close" -> "closing" [] apc = "fail" -> "failing" [] OTHER -> "dropping")
    /\ UNCHANGED <<machineVars, hasCaller, bundle, fcode>>

\* After the last case the session is gone and Close returns nil.
CallerClosed ==
    /\ apc = "closing" /\ TakeReturn
    /\ Destroy
    /\ IF ret = "ok" THEN Goto("finish") /\ UNCHANGED <<machineVars, fcode>>
       ELSE /\ Fail /\ fcode' = "internal_failure"
            /\ Exit(IF Failed THEN ExitIO ELSE ExitSoftware)
    /\ UNCHANGED hasCaller

\* failCaller
FailCaller ==
    /\ apc = "failing" /\ TakeReturn
    /\ Destroy
    /\ fcode' = IF ret = "ok" THEN fcode ELSE "internal_failure"
    /\ Fail
    /\ Exit(IF Failed THEN ExitIO ELSE IF ret = "ok" THEN ExitSuccess ELSE ExitSoftware)
    /\ UNCHANGED hasCaller

\* Mutant: the output failure path returns without destroying the credentials.
DropCallerKeepsBundle ==
    /\ apc = "dropping" /\ TakeReturn
    /\ Exit(ExitIO)
    /\ UNCHANGED <<machineVars, hasCaller, bundle, fcode>>

\* stdout failed: the error of Close is ignored.
DropCaller ==
    /\ apc = "dropping" /\ TakeReturn
    /\ Destroy
    /\ Exit(ExitIO)
    /\ UNCHANGED <<machineVars, hasCaller, fcode>>

\* Without a caller every case is reported not_executed.
SkipScenario ==
    /\ apc = "skip"
    /\ Destroy
    /\ Result(nextCase + 1, "not_executed")
    /\ IF Failed THEN Exit(ExitIO)
       ELSE Goto(IF nextCase' = CaseCount[phase] THEN "finish" ELSE "skip")
    /\ UNCHANGED <<callerVars, hasCaller, fcode>>

FinishPhase ==
    /\ apc = "finish"
    /\ Finish
    /\ Exit(IF Failed THEN ExitIO ELSE ExitSuccess)
    /\ UNCHANGED <<callerVars, hasCaller, bundle, fcode>>

Driver ==
    \/ RefuseToRun \/ WriteStartup \/ ReadInvocation \/ Accept \/ ReadCredentials
    \/ AnnounceScenario \/ CallCaller \/ ScenarioFails \/ ScenarioCompletes
    \/ CloseCaller \/ CallerClosed \/ FailCaller \/ DropCaller
    \/ SkipScenario \/ FinishPhase

\* The adapter's timers and calls end with it; the processes do not.
Next ==
    \/ Driver
    \/ exit = Running /\ (Timers \/ CallProceeds) /\ UNCHANGED <<machineVars, adapterVars>>
    \/ Processes /\ UNCHANGED <<machineVars, adapterVars>>

Spec == Init /\ [][Next]_vars

\* The adapter's goroutine runs, and standard input delivers a line or EOF.
FairSpec == Spec /\ WF_vars(Driver) /\ CallerFairness

-----------------------------------------------------------------------------
(* Properties *)

LastType == IF out = <<>> THEN "none" ELSE out[Len(out)].type

\* "completed" on stdout means more than fifteen results: the external caller
\* exited by itself with status 0, was reaped, left nothing unread on stdout or
\* stderr and no Gateway, and no descendant in its group was left without a kill.
CompletedMeansCleanCaller ==
    LastType = "completed" =>
        /\ child = "reaped" /\ exitOK /\ ~noisy /\ ~gateway
        /\ kin = "none" \/ killed
        /\ CompletionIsHonest

\* A call that reports anything but ErrProcessCleanup, and leaves no session, has
\* reaped the child, read its pipes to EOF and sent SIGKILL to whatever was left
\* in the child's group.  That says nothing of the Gateway, which is in another
\* group: a call that failed may leave it behind, only a call that succeeded does
\* not.
ConfirmedCleanup ==
    (rstep = "returned" /\ ~installed /\ child # "none" /\ op # "close" /\ ret # "cleanup") =>
        /\ child = "reaped" /\ OutputAtEOF
        /\ kin = "none" \/ killed
        /\ ret = "ok" => ~gateway

\* Credentials are read only after the invocation was accepted on stdout, and
\* every way out of the adapter has destroyed them.
CredentialsAreContained ==
    /\ bundle # "none" => Len(out) >= 2 /\ out[2].type = "invocation_accepted"
    /\ exit # Running => bundle # "held"
    /\ LastType \in {"completed", "stopped"} => bundle = "destroyed"

\* Exit status 0 promises a harness a complete protocol exchange, one terminal
\* record written in full as the last thing on stdout, and it never passes over a
\* caller process that may have outlived the adapter: the public error code says so.
ExitZeroIsTruthful ==
    exit = ExitSuccess =>
        /\ LastType \in Terminals /\ ~efailed
        /\ child \notin {"none", "reaped"} => fcode = "internal_failure"

\* README.md and docs/processes.md: an unconfirmed cleanup is reported with a
\* nonzero adapter exit.
UnconfirmedCleanupExitsNonzero ==
    exit = ExitSuccess => child \in {"none", "reaped"}

\* Whatever the caller process does, the adapter exits.
AdapterExits == <>(exit # Running)

\* What an adapter leaves behind ends without it: an unreaped caller has been sent
\* SIGKILL, and a Gateway, which no kill of the adapter reaches, outlives the
\* caller only until it sees EOF on its control pipe.
LeftoversEnd ==
    (exit # Running) ~> (child # "running" /\ ~gateway /\ (killed => kin = "none"))

=============================================================================
