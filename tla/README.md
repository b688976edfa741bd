# Verification of the sandbox runtime external caller

TLA+ models, TLC configurations and TLAPS proofs for the Go program in this
repository. Paths are relative to `internal/` unless they start with `docs/` or
`README.md`.

## The system

Three processes run one qualification phase:

```
harness <-stdio-> adapter --pipes--> external caller --pipes--> Gateway
                 (adapterapp,        (callerapp,              (gatewayapp,
                  protocol,           callerphase,             gatewayservice,
                  callerprocess)      callerprovider,          gateway)
                                      callerstate,        <-socketpair->
                                      gatewayprocess)       gatewaybridge
                                           |
                                           +--HTTPS/WSS--> Provider (external)
```

The adapter speaks a line protocol to a harness. It reads credentials from an
inherited descriptor, starts the external caller and has it run the locked
scenarios one by one. The caller keeps a private correlation state on disk for
the later reconstruction phase, drives the Provider, and supervises a Gateway
process that exposes the Provider's terminal to two controllers through
one-connection grants.

### Inventory

| Component | State it keeps | Operations | What is hard | What makes it correct |
|---|---|---|---|---|
| Gateway grants and tunnels (`gateway`) | grant table, permits, two transports per tunnel | IssueGrant, BeginConnect, Attach, Permit.Close, Revoke, the CONNECT handler, the cancellation watcher | handlers, watchers, copy loops and Revoke interleave; transports are closed outside the lock | one connection per grant, tenant isolation, a final revocation, no leaked transport |
| Private state (`callerstate`) | the state file, its temporary file, the store's memory | CreateInitial, five Bind steps, OpenReconstruction, ValidateUnchanged, Close | a kill, a power loss or a failed call between any two system calls; somebody else in the root | atomic replacement, acknowledged facts are durable, a partial root is never opened |
| Output protocol (`protocol`) | machine state, sequence number, records written | Start, ConsumeInvocation, AcceptInvocation, StartScenario, Result, Finish, Fail, Observe* | every method in every state, write failures, record limits | one terminal record, honest completion |
| Caller supervision (`callerprocess`) | the child, its group, its pipes, timers | Start, Run, Close, waitAndDrain | a child that hangs, forks, starts a Gateway outside its group, writes too much, exits early; deadlines racing answers | a confirmed cleanup has reaped the caller, read its output to EOF and killed its group; the Gateway ends by itself |
| Adapter (`adapterapp`, `credentials/channel.go`) | credential bundle, exit status | the main loop, failCaller | each call it makes may fail | a true report, destroyed credentials, it exits |
| Gateway supervision (`gatewayprocess/service.go`, `gatewayservice`) | runner reservation, pipes, sequence numbers, terminal cause | Start, exchange, Stop, Wait, abort, watchParent, waitProcess | seven goroutines over two pipes and two mutexes | exact exchanges, one service at a time, every call returns |
| Terminal bridge (`gatewaybridge`, `callerterminal`) | one socket pair, the late-bound opener, the authority | Open, serve, SetOpener, Close | one-shot use, two processes, a dial between two unlocks | a tunnel is backed by the authority's own stream, Close returns |
| External caller (`callerapp`, `callerphase`) | scenario position, open store, Gateway service, accesses, terminal authority | the command loop, Coordinate, GrantAndRevoke, the deferred calls | failure between a Provider effect and its record in the state; one call of many failing while a tunnel is being dialled | a case is completed only with its binding on disk; whatever was opened is given back |
| Provider scenarios (`callerprovider`) | next scenario, sandbox, tokens | submit, replay, poll, fence | lost answers, retries of what was done | at most one effect per request identity |
| Provider requests (`provider`, the builders of `callerprovider`) | policy decision, request, admission, retry timer | build, sign, check, send, classify, wait | whole-second claims against exact deadlines, time passing between two readings of the clock, hints the Provider chooses | what is sent is within its admission; a retry follows an explicit answer |
| Codecs, credential parsing, JCS, release tooling | none | pure functions | none that a schedule changes | unit tests |

## Modules

| Module | Models | Proofs | Instance |
|---|---|---|---|
| `GatewayGrants` | `gateway/grant.go`, `gateway/server.go` | `GatewayGrants_proof` | `MCGatewayGrants` |
| `TerminalLease` | what the grant table promises, abstractly | | through `GatewayGrants` |
| `CallerStateStore` | `callerstate/store.go`, `state.go` | `CallerStateStore_proof` | `MCCallerStateStore` |
| `PhaseMachine` | `protocol/machine.go`, the encoder of `protocol/output.go` | `AdapterRun_proof` | `MCPhaseMachine` |
| `CallerProcess` | `callerprocess/runner.go`, `process_unix.go` | `AdapterRun_proof` | through `AdapterRun` |
| `AdapterRun` | `adapterapp/run.go`, composed of `PhaseMachine` and `CallerProcess` | `AdapterRun_proof` | `MCAdapterRun` |
| `ServiceSupervisor` | `gatewayprocess/service.go`, `gatewayservice/serve.go` | `ServiceSupervisor_proof` | `MCServiceSupervisor` |
| `TerminalBridge` | `gatewaybridge/bridge.go`, `callerterminal/authority.go`, the opener of `callerprovider/exec_terminal.go` | `TerminalBridge_proof` | `MCTerminalBridge` |
| `CallerScenarios` | RunWithScenarios of `callerapp/run.go`, the twenty cases of `callerprovider`, the outcomes of `provider/client.go` | `CallerScenarios_proof` | `MCCallerScenarios` |
| `CoordinatorPhase` | RunWithCoordinator of `callerapp/run.go`, `callerphase/coordinator.go`, Run of `callerprovider/coordinator.go` and `exec_terminal.go`, GrantAndRevoke and the life of the authority in `callerterminal/authority.go` | `CoordinatorPhase_proof` | `MCCoordinatorPhase` |
| `ProviderRequest` | the request and admission builders of `callerprovider` (the time checks of BuildAdmission, `provider/admission.go:338-342`, are implied by what they build), newRequest and do of `provider`, the submit, poll, read and discovery loops, on the clock | `ProviderRequest_proof` | `MCProviderRequest` |

A definition whose comment starts with "Mutant" is a deliberately wrong variant
of the definition below it. It is no part of any specification: substituting it
shows that a property can tell the difference.

### GatewayGrants

A handler of ServeHTTP walks through `hpc`: BeginConnect, openBackend, hijack,
Attach, the 200 response, the copy loops, then the deferred Permit.Close in the
steps of the code (cancel, mark under `Permit.mu`, close frontend, close backend,
unregister under `Gateway.mu`, signal done). `wpc` is the `closeOnCancellation`
goroutine, which runs the same closeTransports. A critical section is one step;
what the code does between two locks is several, because Revoke and the watcher
can see the difference. `rwait` holds the permits a Revoke call waits for.
Tokens are model values and never drawn twice. The clock is a bounded counter.

`TerminalLease` is the promise without goroutines: a lease is issued, taken at
most once and never after it was voided, released, and its revocation is
acknowledged only while nobody holds it. `ImplementsLease` maps a token's flags
and permits to the phase of its lease.

### CallerStateStore

A state is a plan, a revision, a stage and five bindings; the code's five Bind
methods are one `Bind(i, v)`. `file` is what the directory shows, `dfile` what it
showed when it was last fsynced, `fsynced` whether the content was. The atomic
write is six steps (open, fill, fsync, rename, fsync of the directory, read
back), each of which may fail, be the last before a kill, or be cut by a power
loss, after which the file is one of the versions not yet ordered by an fsync.
`Tamper` lets another process replace, roll back or remove the file, before or
during an operation; `foreign` records it, and the properties say what is still
promised then.

### PhaseMachine, CallerProcess and AdapterRun

`PhaseMachine` has one action per method; a record is its type, number and case.
`MachineSpec` calls any method in any state. `CallerProcess` splits Start, Run
and Close where the child, its descendants, the contexts or a timer can
intervene; `clock` counts the two grace periods of waitAndDrain. The caller has
two kinds of descendants: `kin` stays in its process group, may hold its output
pipes open, and is swept by the group kill; `gateway` is the Gateway process, which
`gatewayprocess/process_unix.go:43` puts in a group of its own, so that no kill of
the adapter reaches it (docs/gateway-server-identity.md:178-180) and only the EOF
of its control pipe ends it once the caller is gone. `AdapterRun` is RunWithCaller
over both modules: `apc` is the call it makes next. The processes it leaves behind
go on after it has exited.

### ServiceSupervisor

Start, the calls, Wait, waitProcess, watchParent, abort's kill timer and the
AfterFunc of a call's context are goroutines; `inbox` and `outbox` are the two
pipes; a reply is its sequence number. `expired` is the I/O deadline
of the pipes, which belongs to the call that holds `commandMu`. The child is the
loop of gatewayservice.Serve, and may also fail at any step. `Sequential` says
whether the owner of the runner ever overlaps two Start calls.

### TerminalBridge

Resolver.Open runs in the Gateway, Server.serve with its two copies in the
caller. The socket carries one reference and one status byte. `rfile` and
`sfile` are its two ends. Authority.Open and the dial are separate steps, since
the code calls the opener after it has released the authority's mutex. Each copy is
reading or writing: one that is in a write to a peer that does not read sees
neither the EOF of its source nor more data until its destination is closed.

### CallerScenarios

A case is a script, the sequence of steps its Go function takes: entry checks,
building an access, signing an admission, a Provider call, a Gateway operation,
ValidateUnchanged, `ctx.Err()`, a bind. A Provider call is the set of answers that
end it well, the set that is retried, and the number of tries; the operator that
builds it has the name of the Go function (`SubmitCreate`,
`PollExpectedOperationStatus`, ...). `LocalStep`, `Call`, `Receive*` and
`GatewayStep` interpret the script. `Leave` is every return of RunWithScenarios
with its deferred cleanup. `left` is the time to the case's deadline in the three
classes the code distinguishes: more than a second, less, none.

A request identity (JTI) is an operation and the number of its admission. The
Provider (external) may turn a mutation away, consume its admission and fail,
refuse it, answer with what it recorded, dispatch and record, or dispatch without
recording; it may dispatch the stale and the cross-tenant request it should
refuse; and it may handle a request the caller gave up on (`late`). `Reconstruct`
starts the second process with the durable state of the first one and a Provider
that may have one document changed or expired.

### CoordinatorPhase

`pc` is the next call of RunWithCoordinator, Coordinate or Run. The Provider phase
is again a script (`RunInitial`, `RunExecTerminal`, `RunReconstruction`), and `at`
its position. Every call may fail; a bind, a grant, a revocation and a mutation may
also take effect and be reported as failed. `Fail` starts the deferred calls of
Coordinate, which run in the reverse order of the code: close the authority,
cancel and wait for the service, close the store. Beside them run the context
(`live`), the Gateway process, whose reaper first closes the bridge, and the
bridge's goroutine (`dial`): it looks the opener up in the authority, signs with
controller A's key and dials, in three steps that Close may separate.
The document checks of the Provider phase, and the revisions of the store, are
reduced to a verdict and to the durable stage; `CallerStateStore` has the detail.

### ProviderRequest

One logical request of one of nine kinds: create; exec (also open session); stage
(also cancel); a read or poll of the scenarios; readRetained; discovery; the
terminal connection; and the two that send a request an earlier case built, replay
(under its old admission and under a fresh one, `initial_scenarios.go:242`) and
restage (under another tenant's, `initial_cross_tenant_artifact_scenario.go:40`).
Neither compares the request's deadline with the current context; it is within that
context's because the runner's case deadlines only grow
(`callerprocess/runner.go:477`), which is what Init says of them. The clock has several ticks to a second and `Tick` may come
between any two steps, so the request is built, signed, sent, answered and retried
at different readings. Deadlines keep their fraction of a second, `Truncate` is
applied where the code truncates and where a claim becomes a Unix second.
`Responses` is the product of what `do` looks at (status, size, media type,
document, Retry-After), and `Do` the outcome. `Duration` multiplies a hint as
`time.Duration` does, wrapping around at `DurationLimit`. `Ends` forgets the
request when the call returns.

## What TLC checks

| Run | Instance | Properties |
|---|---|---|
| `grants_contention` | 1 grant, 2 handlers, 1 Revoke, subjects of 2 tenants, clock to 2; 63 k states | OneConnectionPerGrant, TenantIsolation, LivePermitIsRevocable, AckedRevokeIsFinal, NoTransportLeak, ImplementsLease, WithdrawnTunnelCloses, RevokeAnswers |
| `grants_ack` | 1 grant, 1 handler, 1 Revoke | RevocationAckClosesConnection, violated |
| `caller_state` | 2 plans, 2 values, 1 refused value | AckedIsDurable, NeverTorn, DiskOnlyAdvances, AckedOnlyGrows, StrangeRootIsLeftAlone |
| `phase_machine` | phases of 4 and 2 cases, 10 numbers | StreamIsWellFormed (with CompletionIsHonest as a part), RoomForTerminal |
| `adapter_run` | the locked 15 and 5 cases, 32 numbers; 374 k states | CompletedMeansCleanCaller, ConfirmedCleanup, CredentialsAreContained, ExitZeroIsTruthful, AdapterExits, LeftoversEnd |
| `adapter_orphan` | 3 and 2 cases | UnconfirmedCleanupExitsNonzero, violated |
| `service_exchange` | 1 service, 2 calls, limit of 2 commands; 319 k states | ExchangeIsExact, OwnDeadlineOnly, GracefulStop, FailedStartLeavesNothing, EveryCallReturns |
| `service_overlap` | 3 overlapping starts | OneServiceAtATime, violated |
| `terminal_bridge` | 2 requests, 2 references; 35 k states | BackendIsReleased, TunnelIsBacked, CloseReturns, TunnelEndsTogether |
| `caller_scenarios` | all 15 and 5 cases, 3 poll attempts; 462 k states | SingleDispatch, ReportedIsTrue, GatewaysAreOwned, CaseEnds |
| `coordinator_phase` | either phase over a root in each of the 7 stages, 2 poll attempts; 2 k states | CompletionIsEarned, NothingLeftBehind, PhaseReturns |
| `provider_request` | 9 kinds, 4 ticks a second, 3 deadlines on and off a whole second, 3 hints, 3 poll attempts; 998 k states | SentIsAdmitted, SignedReadIsSendable, RetryIsExplicit |

What the passing runs show:

* **grants_contention**: however two connections, a revocation and the expiry
  interleave, the grant carries one connection of its own tenant; an acknowledged
  revocation leaves no registered permit and admits none later; no transport
  survives its handler and watcher; each step is a step of the abstract lease;
  a revoked or expired tunnel is really closed; and the purge, which a refused
  IssueGrant runs too, never removes a grant whose tunnel is still open. That the
  table stays within its limit is part of TypeCorrect, which is proved.
* **caller_state**: through every kill and power loss a reported binding is in
  the file that survives, the file is never torn, a file somebody else changed is
  not replaced, and a root left half-way is opened by nobody.
* **phase_machine**: no order of calls and no write failure puts a record after
  the terminal one, reports a case that did not run, or runs out of sequence
  numbers before the terminal record.
* **adapter_run**: `completed` implies a caller that exited by itself, after its
  Gateway, and was reaped; a cleanup reported as confirmed has reaped the caller,
  read its output to EOF and killed what was left in its group, which says nothing
  of a Gateway the caller failed to stop; status 0 implies a full terminal record;
  the credentials are destroyed on every path; an unreaped caller is named by the
  status or the error code; the adapter exits even if the caller never does; and the
  caller and the Gateway it may leave behind end without it.
* **service_exchange**: a reply is only ever taken for its own command, a late
  cancellation callback cannot cut off the next call, Stop succeeds only after
  a clean, silent exit, a failed start leaves no process, no open pipe and no
  reservation, and Start, the calls and Wait return even if the child ignores every
  pipe.
* **terminal_bridge**: a tunnel is backed by a stream dialled for the authority's
  own reference; neither a silent Provider nor a vanished Gateway keeps Close; and a
  dropped tunnel closes the Provider's stream although the Provider is silent. A
  Provider that stops reading while a write to it is under way keeps the stream open
  until the service's context ends.
* **caller_scenarios**: whatever the Provider loses, repeats or delays, no mutation
  reaches the runtime twice: an unanswered one is never retried, and a throttled
  one is retried under the same JTI. A reported case is true of the Provider and
  already durable; reconstruction reports only unchanged documents; exit status 0
  means every case was reported. At most one Gateway runs over both processes, and
  it is stopped on every path unless Stop itself fails, which no zero exit hides.
  A case ends although nobody answers.
* **coordinator_phase**: whichever of the calls fails, and wherever the context or
  the Gateway ends, the process leaves with the service reaped, the stream to the
  Provider closed, also one whose opener was looked up before the authority closed,
  the store closed and the credentials destroyed; the one exception is named in the
  property (controller A's access when B's cannot be built). Once the
  request is read, the end of the context ends the phase. A stage is durable only
  after the Provider's effect, a root that was not empty is never changed, and
  status 0 means a complete phase with a revoked grant and a graceful stop. The
  deferred cancel comes before the wait, so a failed phase does not sit out its
  deadline.
* **provider_request**: an admission never predates the policy decision it names,
  nor expires after its own deadline, which is within the context's and the lease's
  (docs/STATUS.md:585: "Admission expiry cannot exceed that deadline"); what is sent
  is inside its window also when it is sent a second time after a wait or was built
  by an earlier case. The second
  that readAdmission demands is exactly what keeps the client's whole-second checks
  from refusing a read that was just signed. No mutation is repeated after a lost,
  malformed or unclassified answer, and no attempt comes before the refusal's hint
  (README.md:228, "Only explicit retryable 503 reads with a usable Retry-After are
  retried", and the comment at `callerprovider/exec_terminal.go:231`).

### Bounds

Handlers, revokers, requests and calls are interchangeable and interact through
one grant, one socket or one mutex, so two of each show every pairwise race, and
two calls reach the command limit of two; what a further command meets there is
left to the proof, which is for any limit and any number of calls. The overlap finding needs three starts.
The clock goes one tick beyond the longest grant. `MaxSequence`
is exactly as tight in the small protocol instance as 32 is for 15 cases, and the
adapter is checked with the locked counts themselves, and so are the scenarios.
There, three polls stand for 64: enough to see each status of an operation once,
to be throttled, and to run out; mutations keep their two tries. In
`CoordinatorPhase` two are enough, one that goes on and one that is the last. A
second of four ticks puts a deadline, a decision and a signature before, at and
after a whole second in every combination, and the minute of an admission is two of
them; hints lie within the deadline, beyond it, and beyond a duration (4 seconds
of 4 ticks reach `DurationLimit`). Symmetry is used only in runs without temporal
properties.

### Fairness

Weak fairness is assumed of goroutines that can run, of timers, of contexts whose
deadline passes, of the kernel finishing a kill, and of a copy loop whose source
was closed. Nothing is assumed of a peer: not of the harness after it sent its
line or EOF, not of the caller, the Gateway child, the Provider or the network.
The wall clock itself need not move in `GatewayGrants`; in `ServiceSupervisor`
the phase's absolute deadline does pass, because the code derives every service
context from it. A resolver's Open and the dial return once their context is done
(the contract stated at gatewayservice.Serve, and what the WebSocket dial does).

In `CallerProcess` a process that was sent SIGKILL exits, and a Gateway whose caller
is gone reads EOF on its control pipe and leaves; nothing else is assumed of either.

In `TerminalBridge` a copy that reads notices data, EOF or a closed end
(`UpReads`, `UpEnds`, `DownEnds`). A write does not end by fairness: the Provider may
have stopped reading, and then only the service's context ends the write
(`gatewaybridge/bridge.go:155`, `provider/terminal_connect.go:78`). TunnelEndsTogether
is therefore stated for an up copy that does not stay in its write for ever, and
without that condition once the context has ended.

In `CallerScenarios` the caller's own steps and the passing of its case's deadline
are fair; nothing is assumed of the Provider, the Gateway or the adapter.

In `CoordinatorPhase` the deferred calls are fair; a call that waits for somebody
else is fair only once the context has ended, because after the request every one of
them is given that context. The reads of the request and of the credentials are not
(`callerapp/run.go:170` and `174`, `credentials/channel.go:129`), so nothing is
assumed of them and PhaseReturns begins after them. The Gateway is then killed (exec.CommandContext and watchParent), and
once it is exiting Server.Close ends the bridge's goroutine: these are the results
of `ServiceSupervisor` (EveryCallReturns) and `TerminalBridge` (CloseReturns), taken
here as fairness. Neither the deadline nor an answer is assumed to come.

Deadlock checking is off where a run ends by itself: all requests served, all
calls made, the process exited, or the clock at its bound.

## Where the code and the documents differ

* **Acknowledged revocation, open connection** (`grants_ack`). Revoke waits for
  each permit's `done`. closeTransports marks the permit closed and closes the
  transports after unlocking. If the watcher has marked it but not yet closed
  them, Permit.Close finds the mark, skips ahead and signals done. README.md:283
  and docs/gateway.md:62 say the acknowledgement comes after the close.
* **Unconfirmed cleanup, exit status 0** (`adapter_orphan`). Start and Run clear
  the session before they report ErrProcessCleanup, so failCaller's Close returns
  nil and only the error code is `internal_failure`. README.md:352 and
  docs/processes.md:115 promise a nonzero exit.
* **Two services of one runner** (`service_overlap`). A failed Start releases the
  reservation in waitProcess, before `done`, and again in its own defer. A Start
  that reserved in between loses its reservation and a third one launches beside
  it. docs/gateway-service-lifecycle.md:66 says concurrent instances are rejected.
  The callers in this repository start services one after another.

Smaller observations, no run of their own. The first two are ways in which the code
falls short of a sentence in the documents, and are the exceptions that
NothingLeftBehind and ReportedIsTrue name:

* When controller B's access cannot be built, `callerprovider/coordinator.go:109`
  closes what the factory returned for B and leaves A's open. docs/credentials.md:113
  says each access is closed after the phase, "on a best-effort basis".
* submitRejectedExec repeats the stale exec under the same admission after a 503, and
  `callerprovider/initial_stale_scenario.go:36` accepts SANDBOX_CONFLICT beside the
  fencing code. A Provider that dispatched the first attempt and refuses the second
  for its used admission is reported as "rejected-before-dispatch"; README.md:255 and
  docs/caller-state.md:95 require the 409 before dispatch.

* Wait closes the output (`gatewayprocess/service.go:455`) while Stop may still
  read the EOF after the stopped record; Stop then reports a failure although the
  child stopped cleanly.
* watchParent's select (566) picks freely when the child's exit and the parent's
  end are both ready, so Wait may report either.
* Authority.Open calls the opener after it has unlocked; Close may run in between.
  The dial then finds the key destroyed, or is ended by the bridge
  (`NothingLeftBehind`).
* `waitRetry` (`callerprovider/initial_scenarios.go:590`) and discovery multiply the
  Provider's Retry-After into a duration without a bound; a value that overflows
  makes the timer fire at once. readRetained compares it with the time left first.
  `RetryIsExplicit` is stated below the overflow for the former.
* Discovery retries a 503 without Retry-After after the poll interval
  (`capability_scenario.go:167`); the other loops do not.
* A mutation whose bounded deadline leaves less than a whole second is signed and
  then refused by the caller's own client; nothing is sent.
* ConnectRuntimeSession (`provider/terminal_connect.go:33`) checks the envelope of
  its admission but, unlike newRequest, not its window against the clock.
* After the last case Close finds no session, so the error branch of
  `adapterapp/run.go:124-130` is dead there.
* The terminal handoff and the staged artifact expire at most 60 seconds after they
  were requested (`boundedDeadline`), and the reconstruction phase requires both to
  be unexpired.
* A failure between the rename and the acknowledgement of the last binding leaves
  a complete root that was never reported complete; reconstruction opens it.

## What is proved

All theorems hold for every value of the constants under the named assumptions
of the modules (the policy is a one-to-one map, the bounds are naturals, markers
differ from values, the authority's reference is a reference). Each follows the
same argument: `Init => IInv`, `IInv /\ [Next]_vars => IInv'` action by action,
and `IInv` implies the property.

**GatewayGrants_proof**: TypeCorrect, GrantIsOneUse, TenantsAreIsolated,
PermitsStayRevocable, RevocationIsFinal, TransportsAreReleased and
GrantsImplementLease. The properties are not inductive alone. `PermitBook` ties
registration, admission and use of the grant to the handler's position,
`GrantBook` ties a grant's owner to its tenant, `RevokeBook` says a Revoke waits
for every registered permit and that a revoked grant gets no other, and
`TransportBook` says who is responsible for each open transport: the handler
before Attach, whoever marked the permit closed after it. GrantsImplementLease
adds that every action maps to a lease step or a stutter.

**CallerStateStore_proof**: TypeCorrect, Durability, Atomicity, Accumulation,
Monotonicity, Forbearance. `Ledger` relates disk, last fsynced directory, memory and
the state being written at each step of the atomic write while nobody else changes
the root: before the rename the file is what the store holds, after it what it
wants. Forbearance is about the other case and needs `Guarded`: a write that has
not renamed yet, in a root somebody changed, has read that file as its own.

**TerminalBridge_proof**: BackendReleased, TunnelBacked. `WireInv` says the
reference on the socket is the holder's, `ServeInv` what serve knows at each step
(the stream is open only in `status` and `copy`), `StatusInv` that a positive
status byte stands for a stream dialled for the authority's own reference.

**AdapterRun_proof**, the machine: MachineTyped, StreamIsAlwaysWellFormed,
CompletionIsAlwaysHonest, TerminalAlwaysFits, for every locked profile and every
order of method calls and write failures. `Counted` says that the sequence number
counts records and the case number counts results (CasesInOrder is stated with the
cardinality of the results so far, so that no induction over the stream is
needed); `Announced`, that the last record announces a case exactly while its
result is awaited; `Position`, that the number is at most two records for each
case so far, which is where the room for the terminal record comes from, and
exactly that while nothing was skipped; `AllRan` places the results of a phase
without skips.

**AdapterRun_proof**, the adapter: AdapterTyped, AdapterDrivesTheMachine,
AdapterStreamIsWellFormed, CompletedAlwaysMeansCleanCaller,
CleanupIsAlwaysConfirmed, CredentialsAreAlwaysContained, ExitZeroIsAlwaysTruthful.
AdapterDrivesTheMachine is a refinement: every step of the composition is a step
of `MachineSpec` or leaves the machine alone, so the results about the machine
hold of the adapter. `Aligned` and `OneCall` tie the machine and the session to
the call RunWithCaller makes next, `Draws` follows waitAndDrain, `Stopped` says that
a caller that exits with status 0 has seen its Gateway end, `Reported` is what a
returned call has said of the child. CleanupIsAlwaysConfirmed speaks of the caller
and of its group; of the Gateway it claims only that a call that succeeded leaves
none. `Credentials` and `Outcome` what the exit
code and the last record rest on.

**CoordinatorPhase_proof**: TypeCorrect, CompletionIsAlwaysEarned,
NothingIsLeftBehind, for any number of poll attempts. `Progress` gives the durable
stage and the Provider's effects at each position of the script, `Owned` who has to
close which access at each `pc`, `ServiceOutlivesDial` that the bridge's goroutine
is over before the service is reaped, which is what lets the deferred calls end
with nothing open.

**ServiceSupervisor_proof**: SupervisorTyped, ExchangeIsAlwaysExact,
DeadlinesAreAlwaysOwn, StopIsAlwaysGraceful, FailedStartAlwaysLeavesNothing,
SequentialStartsNeverOverlap, for any number of services and calls and any command
limit. `Numbered` says that calls of one service have different numbers and begin
only after all earlier ones were answered, `Applied` and `Replied` what the child
has applied and what is on its output pipe under which number, so that a reply read
for number n is the reply to the call with number n; `Verdict` relates the causes
of a service's end to what Stop and Wait say. `GivenBack` says that a failed start
was aborted with its pipes closed and that a reservation has an owner (`Owns`): a
start in progress or a service that is not reaped. `TakingTurns` is the reservation: it
holds when the owner does not overlap two starts (`Sequential`), and
SequentialStartsNeverOverlap is the promise that the run `service_overlap` shows
to fail without that assumption.

**CallerScenarios_proof**: ScenariosTyped, DispatchIsAlwaysSingle,
ReportsAreAlwaysTrue, GatewaysAreAlwaysOwned, for any number of poll attempts. The
first part proves what the twenty scripts are (`Sound`, `InitialScript`,
`ReconstructionScript`: where each request is signed and submitted, that a script
binds once and to a later stage, that it stops or keeps the Gateway it starts), so
that no later proof opens a script. `Flow` places RunWithScenarios between its
results, `Stages` the durable state, `Held` the Gateway; `Admissions` counts how
often a request has been signed at each position. SingleDispatch needs `Seen`: a
dispatch has consumed an admission, and the only request signed twice (create, by
Replay) is signed again only after the Provider has answered with the recorded
operation, so that the second admission can no longer dispatch it, not even when a
request given up on is handled later. ReportedIsTrue needs `Told`, what an answer
that has arrived says of the Provider, and `Claims`, that every step passed was as
its case claims and stays so (`Grows`: the Provider only learns more). That a
Gateway left behind cannot meet a second one follows from the stage: the initial
phase has a Gateway only when the terminal is bound, before the state is complete,
so the second process refuses to start (`Held`).

**ProviderRequest_proof**: RequestTyped, SentIsAlwaysAdmitted,
SignedReadIsAlwaysSendable, RetryIsAlwaysExplicit, for every length of a second,
lifetime, deadline, lease, hint and size of a duration (`ClockAssumption`: an
admission lives at least a second, the poll interval is a duration). Lemmas about
`Seconds` and `Truncate` (a time is within its second, truncation keeps the order, a
later second has a larger number) carry the whole-second claims over the ticks.
`Basis` keeps the window of the admission at every later reading of the clock, and
for a reused request the order of its deadline and the current limit,
`Waiting` what the last answer asked for and until when the timer runs;
DurationFits says that a hint below the largest duration is converted exactly, and
readRetained's comparison with the remaining whole seconds, which time.Until caps
at the largest duration, implies it.

Every safety property that a passing run checks is therefore a theorem. Only TLC checks
liveness, because fairness and ENABLED are outside the proof system's reach:
WithdrawnTunnelCloses, RevokeAnswers, AdapterExits, LeftoversEnd, EveryCallReturns,
CloseReturns, TunnelEndsTogether, CaseEnds and PhaseReturns.

## Not modelled

* The contents of requests, credentials, certificates, JSON and digests: a record
  is accepted or refused.
* TLS, HTTP parsing and the WebSocket upgrade: one step that succeeds or fails.
* The byte limits of the output encoder: its total of 2 MiB is above what fifteen
  results of at most 64 KiB can reach. `RoomForTerminal` is about records and
  sequence numbers.
* Character-level canonical JSON, the release tooling and the test doubles.
* The finite Gateway bootstrap runner (`gatewayprocess/runner.go`), the supervisor
  pattern of Service without its concurrency.
* The Gateway's own listener (`gatewayapp`, the TLS server of `gatewayservice`) and
  the tenant policy a command installs: one verdict of `ServiceSupervisor`.
* Which documents match (`validate.go`, the correlation checks): they are stateless,
  and each is one verdict of the step that reads the document.
* The continuity of a runner's identity over several services is a guard of
  `ServiceSupervisor`; no run has two identities.

## Plan

1. Done: `GatewayGrants` with `TerminalLease`; `CallerStateStore`; `PhaseMachine`,
   `CallerProcess`, `AdapterRun`; `ServiceSupervisor`; `TerminalBridge`;
   `CallerScenarios`; `CoordinatorPhase`; `ProviderRequest`; a proof of every safety
   property of these.
2. An abstract specification of the durable record (one plan, revisions that only
   extend) that CallerStateStore implements, and the proof that it does.
