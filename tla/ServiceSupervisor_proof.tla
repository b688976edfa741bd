----------------------- MODULE ServiceSupervisor_proof -----------------------
(***************************************************************************)
(* Proofs about ServiceSupervisor for any number of starts and calls, every  *)
(* interleaving of its goroutines, and any limit of the child's command loop.*)
(***************************************************************************)
EXTENDS ServiceSupervisor, TLAPS

Over == {"idle", "returned"}
Gone == {"stopping", "exited", "reaped"}

\* Where Start, waitProcess, the process and abort stand to each other.
Lifecycle ==
    \A s \in Services :
        /\ spc[s] \in {"idle", "reserved"} => wpc[s] = None
        /\ spc[s] \in {"release", "error"} => wpc[s] \in {None, "over"}
        /\ spc[s] = "reap" => cause[s] # None
        /\ child[s] = None <=> wpc[s] = None
        /\ child[s] = "reaped" <=> wpc[s] \in {"drain", "release", "signal", "over"}
        /\ done[s] <=> wpc[s] = "over"
        /\ timer[s] = "armed" => cause[s] # None /\ ~done[s]
        /\ tdone[s] => cause[s] # None \/ stopped[s]

\* A call that was not refused has a service, a kind and the number it took.
Entered ==
    \A c \in Calls :
        /\ csvc[c] = None => cpc[c] \in Over /\ ckind[c] = None /\ cres[c] # "ok" /\ ccb[c] = "off"
        /\ cpc[c] = "idle" => cres[c] = None
        /\ csvc[c] # None => /\ cpc[c] # "idle" /\ spc[csvc[c]] = "ok"
                             /\ ckind[c] # None /\ cseq[c] \in 1..sequence[csvc[c]]
        /\ cpc[c] \notin Over => cseq[c] = sequence[csvc[c]] /\ cres[c] = None
        /\ cpc[c] \in {"eof", "mark", "reap"} => ckind[c] = "stop"
        /\ ckind[c] = "stop" => stopReq[csvc[c]]
        /\ ccb[c] \in {"armed", "fired"} => cpc[c] \notin Over
        /\ ccb[c] = "fired" => cctx[c] = "done"

\* What a call that has returned has left of its service.
Left ==
    \A c \in Calls :
        csvc[c] # None /\ cpc[c] = "returned" =>
            /\ cres[c] # "ok" => cause[csvc[c]] # None \/ done[csvc[c]]
            /\ ckind[c] = "stop" => done[csvc[c]]

\* Calls of one service have different numbers, and a call begins only after all
\* before it were exchanges that were answered.
Numbered ==
    \A c, d \in Calls :
        c # d /\ csvc[c] # None /\ csvc[c] = csvc[d] =>
            /\ cseq[c] # cseq[d]
            /\ cseq[d] < cseq[c] => ckind[d] = "exchange" /\ cres[d] = "ok"

\* A stop command of s with number n.
IsStop(c, s, n) == csvc[c] = s /\ ckind[c] = "stop" /\ cseq[c] = n

\* The child applies the exchanges in the order of their numbers.
Applied ==
    \A s \in Services :
        /\ nextSeq[s] = Len(applied[s]) + 1
        /\ child[s] \in {None, "boot", "serving"} => nextSeq[s] <= MaxCommands
        /\ \A i \in 1..Len(applied[s]) :
              LET c == applied[s][i] IN csvc[c] = s /\ cseq[c] = i /\ ckind[c] = "exchange"
        /\ \A i \in 1..Len(inbox[s]) : csvc[inbox[s][i]] = s

\* The numbers on the output pipe: readiness, what was applied, or the stop after it.
Replied ==
    \A s \in Services : \A i \in 1..Len(outbox[s]) :
        LET n == outbox[s][i] IN
        \/ n <= Len(applied[s])
        \/ /\ n = Len(applied[s]) + 1 /\ child[s] \in Gone
           /\ \E c \in Calls : IsStop(c, s, n)

\* What the reader of a reply may conclude.
Answered ==
    \A c \in Calls :
        /\ ckind[c] = "exchange" /\ cres[c] = "ok" =>
               cseq[c] <= Len(applied[csvc[c]]) /\ applied[csvc[c]][cseq[c]] = c
        /\ cpc[c] \in {"eof", "mark"} \/ (ckind[c] = "stop" /\ stopped[csvc[c]]) =>
               cseq[c] = Len(applied[csvc[c]]) + 1 /\ child[csvc[c]] \in Gone

\* How the end of the process is told by Wait and by Stop.
Verdict ==
    /\ \A s \in Services :
          /\ killed[s] => cause[s] # None \/ (noisy[s] /\ child[s] = "reaped")
          /\ qpc[s] \in {"terminal", "answer", "returned"} => done[s]
          /\ qpc[s] \in {"answer", "returned"} /\ stopReq[s] => stopped[s] \/ cause[s] # None
          /\ qpc[s] # "returned" => qres[s] = None
          /\ qpc[s] = "returned" /\ cause[s] = None => qres[s] = WaitResult(s)
    /\ \A c \in Calls :
          ckind[c] = "stop" /\ cres[c] = "ok" =>
              LET s == csvc[c] IN
              /\ stopped[s] /\ exitOK[s] /\ ~noisy[s] /\ ~killed[s]
              /\ cause[s] \in {None, "parent"} /\ qres[s] \in {None, "ok", "parent"}

\* A service that has been reserved and not released.
Occupies(s) == spc[s] \in Starting \/ wpc[s] \in {"wait", "drain", "release"}

\* Starts that do not overlap take turns.
TakingTurns ==
    Sequential =>
        /\ \A s, t \in Services : s # t => ~(Occupies(s) /\ Occupies(t))
        /\ \A s \in Services : spc[s] = "reserved" \/ wpc[s] \in {"wait", "drain", "release"} => active

\* A start or a service that the reservation of the runner is for.
Owns(s) ==
    \/ spc[s] = "reserved" \/ (spc[s] = "release" /\ wpc[s] = None)
    \/ wpc[s] \in {"wait", "drain", "release"}

\* What abort closed stays closed, a start that failed after its fork was aborted,
\* and a reservation has an owner.
GivenBack ==
    /\ \A s \in Services :
          /\ cause[s] # None => ~ctlOpen[s] /\ ~outOpen[s]
          /\ spc[s] \in {"release", "error"} /\ wpc[s] # None => cause[s] # None
    /\ active => \E s \in Services : Owns(s)

IInv ==
    /\ TypeOK /\ Lifecycle /\ Entered /\ Left /\ Numbered
    /\ Applied /\ Replied /\ Answered /\ OwnDeadlineOnly /\ Verdict /\ TakingTurns /\ GivenBack

-----------------------------------------------------------------------------
(* Sequences, and what a step may be *)

USE DEF runnerVars, startVars, procVars, pipeVars, abortVars, svcVars, callVars, waitVars, SGoto, WGoto

LEMMA Appending ==
    ASSUME NEW S, NEW q \in Seq(S), NEW e \in S
    PROVE  /\ Append(q, e) \in Seq(S) /\ Len(Append(q, e)) = Len(q) + 1 /\ Len(q) \in Nat
           /\ \A i \in 1..Len(q) : Append(q, e)[i] = q[i]
           /\ Append(q, e)[Len(q) + 1] = e
  OBVIOUS

LEMMA Taking ==
    ASSUME NEW S, NEW q \in Seq(S), q # <<>>
    PROVE  /\ Tail(q) \in Seq(S) /\ Len(Tail(q)) = Len(q) - 1 /\ Len(q) \in Nat \ {0}
           /\ \A i \in 1..(Len(q) - 1) : Tail(q)[i] = q[i + 1]
           /\ Head(q) = q[1] /\ Head(q) \in S
  OBVIOUS

LEMMA RunnerTyped ==
    ASSUME RunnerTypeOK, [Next]_vars
    PROVE  RunnerTypeOK'
<1>1. ASSUME NEW s \in Services, Starts(s) \/ Environment(s)
      PROVE  active' \in {active, TRUE, FALSE}
  BY <1>1 DEF Starts, StartRefused, StartReserve, StartLaunchFails, StartLaunch, StartSend,
     StartReady, StartNotReady, StartReap, StartReapTimeout, StartRelease,
     Environment, ParentCancelled, ServiceDeadline
<1>2. ASSUME NEW s \in Services, Starts(s) \/ Environment(s)
      PROVE  /\ continuity' \in Bindings \cup {Unset}
             /\ spc' \in [Services -> {"idle", "ok", "error"} \cup Starting]
             /\ binding' \in [Services -> Bindings \cup {Unset}]
             /\ parent' \in [Services -> {"live", "cancelled", "expired"}]
  BY <1>2 DEF RunnerTypeOK, Starting, Starts, StartRefused, StartReserve, StartLaunchFails,
     StartLaunch, StartSend, StartReady, StartNotReady, StartReap, StartReapTimeout, StartRelease,
     Environment, ParentCancelled, ServiceDeadline
<1>3. ASSUME NEW s \in Services, Background(s) \/ Waiting(s) \/ ChildRuns(s)
      PROVE  UNCHANGED <<continuity, spc, binding, parent>> /\ active' \in {active, FALSE}
  BY <1>3 DEF Background, AbortTimer, WatchParent, ProcessReaped, StderrDrained, RunnerReleased,
     DoneClosed, Waiting, WaitCalled, WaitWakes, WaitAnswers, ChildRuns, ChildReady, ChildApplies,
     ChildStops, ChildExits, ChildFails
<1>4. ASSUME NEW c \in Calls, CallSteps(c)
      PROVE  UNCHANGED <<active, continuity, spc, binding, parent>>
  BY <1>4 DEF CallSteps, CallRefused, CallBegins, CallProceeds, CallWrites, CallFails, CallReads,
     StopReadsEOF, StopMarks, StopReaps, StopReapTimeout, ContextLapses, ContextEnds, Callback
<1>5. active' \in {active, TRUE, FALSE}
  BY <1>1, <1>3, <1>4 DEF Next, vars
<1>6. active' \in BOOLEAN
  BY <1>5, Zenon DEF RunnerTypeOK
<1> QED
  BY <1>2, <1>3, <1>4, <1>6 DEF RunnerTypeOK, Next, vars

LEMMA ProcessTyped ==
    ASSUME ProcessTypeOK, PipeTypeOK, Applied, [Next]_vars
    PROVE  ProcessTypeOK'
<1> USE DEF ProcessTypeOK
<1>1. ASSUME NEW s \in Services, Starts(s) \/ Environment(s) \/ Waiting(s)
      PROVE  ProcessTypeOK'
  BY <1>1 DEF Alive, Starts, StartRefused, StartReserve, StartLaunchFails,
     StartLaunch, StartSend, StartReady, StartNotReady, StartReap, StartReapTimeout, StartRelease,
     Environment, ParentCancelled, ServiceDeadline, Waiting, WaitCalled, WaitWakes, WaitAnswers
<1>2. ASSUME NEW s \in Services, Background(s)
      PROVE  ProcessTypeOK'
  BY <1>2 DEF Background, AbortTimer, WatchParent, ProcessReaped, StderrDrained, RunnerReleased, DoneClosed
<1>3. ASSUME NEW s \in Services, NEW ok \in BOOLEAN, Exit(s, ok)
      PROVE  /\ child' \in [Services -> {None, "exited", "reaped"} \cup Alive]
             /\ exitOK' \in [Services -> BOOLEAN] /\ noisy' \in [Services -> BOOLEAN]
  BY <1>3 DEF Exit
<1>4. ASSUME NEW s \in Services, NEW n, NEW to \in {"exited"} \cup Alive, Reply(s, n, to)
      PROVE  /\ child' \in [Services -> {None, "exited", "reaped"} \cup Alive]
             /\ exitOK' \in [Services -> BOOLEAN] /\ noisy' \in [Services -> BOOLEAN]
  BY <1>3, <1>4 DEF Reply, Alive
<1>5. ASSUME NEW s \in Services, ChildReady(s) \/ ChildStops(s) \/ ChildExits(s) \/ ChildFails(s)
      PROVE  ProcessTypeOK'
  BY <1>3, <1>4, <1>5 DEF ChildReady, ChildStops, ChildExits, ChildFails, Alive
<1>6. ASSUME NEW s \in Services, ChildApplies(s)
      PROVE  ProcessTypeOK'
  <2>1. /\ child' \in [Services -> {None, "exited", "reaped"} \cup Alive]
        /\ exitOK' \in [Services -> BOOLEAN] /\ noisy' \in [Services -> BOOLEAN]
    BY <1>4, <1>6 DEF ChildApplies, Alive
  <2>2. nextSeq' \in [Services -> 1..(MaxCommands + 1)]
    BY <1>6, SupervisorAssumption DEF ChildApplies, Applied
  <2>3. Head(inbox[s]) \in Calls /\ applied[s] \in Seq(Calls)
    BY <1>6, Taking DEF ChildApplies, PipeTypeOK
  <2>4. applied' \in [Services -> Seq(Calls)]
    BY <1>6, <2>3, Appending DEF ChildApplies
  <2> QED
    BY <1>6, <2>1, <2>2, <2>4 DEF ChildApplies
<1>7. ASSUME NEW c \in Calls, CallSteps(c)
      PROVE  UNCHANGED <<child, exitOK, noisy, nextSeq, applied>>
  BY <1>7 DEF CallSteps, CallRefused, CallBegins, CallProceeds, CallWrites, CallFails, CallReads,
     StopReadsEOF, StopMarks, StopReaps, StopReapTimeout, ContextLapses, ContextEnds, Callback
<1>8. ASSUME NEW c \in Calls, CallSteps(c)
      PROVE  killed' \in [Services -> BOOLEAN]
  BY <1>8 DEF CallSteps, CallRefused, CallBegins, CallProceeds, CallWrites, CallFails, CallReads,
     StopReadsEOF, StopMarks, StopReaps, StopReapTimeout, ContextLapses, ContextEnds, Callback
<1> QED
  BY <1>1, <1>2, <1>5, <1>6, <1>7, <1>8 DEF Next, ChildRuns, vars

\* What Abort does to the variables it changes.
LEMMA Aborting ==
    ASSUME PipeTypeOK, ServiceTypeOK, NEW s \in Services, NEW why \in Causes, Abort(s, why)
    PROVE  /\ ctlOpen' \in [Services -> BOOLEAN] /\ outOpen' \in [Services -> BOOLEAN]
           /\ cause' \in [Services -> Causes \cup {None}] /\ tdone' \in [Services -> BOOLEAN]
           /\ timer' \in [Services -> {"off", "armed"}]
           /\ cause'[s] # None
           /\ \A t \in Services : cause[t] # None => cause'[t] = cause[t]
           /\ \A t \in Services \ {s} : cause'[t] = cause[t] /\ tdone'[t] = tdone[t] /\ timer'[t] = timer[t]
           /\ tdone'[s] = tdone[s] \/ cause'[s] # None
           /\ timer'[s] = "armed" => timer[s] = "armed" \/ ~done[s]
<1>1. CASE cause[s] # None
  BY <1>1 DEF Abort, PipeTypeOK, ServiceTypeOK
<1>2. CASE cause[s] = None
  <2>1. why \in Causes \cup {None} /\ why # None
    BY DEF Causes, None
  <2>2. /\ ctlOpen' \in [Services -> BOOLEAN] /\ outOpen' \in [Services -> BOOLEAN]
        /\ tdone' \in [Services -> BOOLEAN] /\ timer' \in [Services -> {"off", "armed"}]
    BY <1>2 DEF Abort, PipeTypeOK, ServiceTypeOK
  <2>3. cause' = [cause EXCEPT ![s] = why] /\ cause' \in [Services -> Causes \cup {None}]
    BY <1>2, <2>1 DEF Abort, ServiceTypeOK
  <2>4. \A t \in Services \ {s} : cause'[t] = cause[t] /\ tdone'[t] = tdone[t] /\ timer'[t] = timer[t]
    BY <1>2 DEF Abort, ServiceTypeOK
  <2>5. cause'[s] = why
    BY <2>3 DEF ServiceTypeOK
  <2>6. timer'[s] = "armed" => ~done[s]
    BY <1>2 DEF Abort, ServiceTypeOK
  <2> QED
    BY <1>2, <2>1, <2>2, <2>3, <2>4, <2>5, <2>6
<1> QED
  BY <1>1, <1>2

LEMMA PipeTyped ==
    ASSUME PipeTypeOK, ServiceTypeOK, ProcessTypeOK, CallTypeOK, Entered, [Next]_vars
    PROVE  PipeTypeOK'
<1> USE DEF PipeTypeOK
<1>1. ASSUME NEW s \in Services, Starts(s)
      PROVE  PipeTypeOK'
  <2>1. CASE StartSend(s) \/ StartNotReady(s)
    BY <2>1, Aborting DEF StartSend, StartNotReady, Causes
  <2>2. CASE StartReady(s)
    BY <2>2, Aborting, Taking DEF StartReady, Causes
  <2>3. CASE StartReap(s)
    BY <2>3 DEF StartReap
  <2> QED
    BY <1>1, <2>1, <2>2, <2>3 DEF Starts, StartRefused, StartReserve, StartLaunchFails, StartLaunch,
       StartReapTimeout, StartRelease
<1>2. ASSUME NEW s \in Services, Background(s) \/ Waiting(s) \/ Environment(s)
      PROVE  PipeTypeOK'
  <2>1. CASE WatchParent(s)
    BY <2>1, Aborting DEF WatchParent, Causes
  <2> QED
    BY <1>2, <2>1 DEF Background, AbortTimer, ProcessReaped, StderrDrained, RunnerReleased, DoneClosed,
       Waiting, WaitCalled, WaitWakes, WaitAnswers, Environment, ParentCancelled, ServiceDeadline
<1>3. ASSUME NEW s \in Services, NEW n \in Nat, NEW to, Reply(s, n, to)
      PROVE  outbox' \in [Services -> Seq(Nat)]
  <2>1. Append(outbox[s], n) \in Seq(Nat)
    BY <1>3, Appending
  <2> QED
    BY <1>3, <2>1 DEF Reply
<1>4. ASSUME NEW s \in Services, ChildRuns(s)
      PROVE  PipeTypeOK'
  <2>1. nextSeq[s] \in Nat
    BY SupervisorAssumption DEF ProcessTypeOK
  <2>2. CASE ChildReady(s)
    BY <1>3, <2>2 DEF ChildReady
  <2>3. CASE ChildApplies(s)
    BY <1>3, <2>1, <2>3, Taking DEF ChildApplies
  <2>4. CASE ChildStops(s)
    BY <1>3, <2>1, <2>4, Taking DEF ChildStops
  <2> QED
    BY <1>4, <2>2, <2>3, <2>4 DEF ChildRuns, ChildExits, ChildFails
<1>5. ASSUME NEW c \in Calls, CallSteps(c)
      PROVE  PipeTypeOK'
  <2>1. FailCause(c) \in Causes /\ (cpc[c] \notin Over => csvc[c] \in Services)
    BY DEF FailCause, Causes, Entered, CallTypeOK
  <2>2. CASE \E s \in Services, kind \in {"exchange", "stop"} : CallBegins(c, s, kind)
    BY <2>2 DEF CallBegins
  <2>3. CASE CallWrites(c)
    BY <2>1, <2>3, Appending DEF CallWrites, Over
  <2>4. CASE CallFails(c)
    BY <2>1, <2>4, Aborting DEF CallFails, IOFailed, Over
  <2>5. CASE CallReads(c)
    BY <2>1, <2>5, Taking DEF CallReads, Over
  <2>6. CASE StopReadsEOF(c) \/ StopReapTimeout(c)
    BY <2>1, <2>6, Aborting DEF StopReadsEOF, StopReapTimeout, Over, Causes
  <2>7. CASE StopMarks(c) \/ StopReaps(c) \/ ContextLapses(c) \/ Callback(c)
    BY <2>7 DEF StopMarks, StopReaps, ContextLapses, Callback
  <2> QED
    BY <1>5, <2>2, <2>3, <2>4, <2>5, <2>6, <2>7 DEF CallSteps, CallProceeds, CallRefused, ContextEnds
<1> QED
  BY <1>1, <1>2, <1>4, <1>5 DEF Next, vars

LEMMA WaitResults ==
    ASSUME ServiceTypeOK, NEW s \in Services
    PROVE  WaitResult(s) \in Causes \cup {"ok", "exit"}
  BY DEF WaitResult, ServiceTypeOK, Causes, None

LEMMA ServiceTyped ==
    ASSUME ServiceTypeOK, PipeTypeOK, CallTypeOK, Entered, [Next]_vars
    PROVE  ServiceTypeOK'
<1> USE DEF ServiceTypeOK
<1>1. ASSUME NEW s \in Services, Starts(s)
      PROVE  ServiceTypeOK'
  <2>1. CASE StartSend(s) \/ StartNotReady(s) \/ StartReady(s)
    BY <2>1, Aborting DEF StartSend, StartNotReady, StartReady, Causes
  <2> QED
    BY <1>1, <2>1 DEF Starts, StartRefused, StartReserve, StartLaunchFails, StartLaunch,
       StartReap, StartReapTimeout, StartRelease
<1>2. ASSUME NEW s \in Services, Background(s)
      PROVE  ServiceTypeOK'
  <2>1. CASE WatchParent(s)
    BY <2>1, Aborting DEF WatchParent, Causes
  <2> QED
    BY <1>2, <2>1 DEF Background, AbortTimer, ProcessReaped, StderrDrained, RunnerReleased, DoneClosed
<1>3. ASSUME NEW s \in Services, Waiting(s)
      PROVE  ServiceTypeOK'
  BY <1>3, WaitResults DEF Waiting, WaitCalled, WaitWakes, WaitAnswers
<1>4. ASSUME NEW s \in Services, Environment(s) \/ ChildRuns(s)
      PROVE  UNCHANGED <<abortVars, svcVars, waitVars>>
  BY <1>4 DEF Environment, ParentCancelled, ServiceDeadline, ChildRuns, ChildReady, ChildApplies,
     ChildStops, ChildExits, ChildFails
<1>5. ASSUME NEW c \in Calls, CallSteps(c)
      PROVE  ServiceTypeOK'
  <2>1. FailCause(c) \in Causes /\ (cpc[c] \notin Over => csvc[c] \in Services)
    BY DEF FailCause, Causes, Entered, CallTypeOK
  <2>2. ASSUME NEW s \in Services, NEW kind \in {"exchange", "stop"}, CallBegins(c, s, kind)
        PROVE  ServiceTypeOK'
    <3>1. stopReq' \in [Services -> BOOLEAN]
      BY <2>2 DEF CallBegins
    <3>2. sequence' \in [Services -> Nat]
      BY <2>2 DEF CallBegins
    <3> QED
      BY <2>2, <3>1, <3>2 DEF CallBegins
  <2>3. CASE CallFails(c)
    BY <2>1, <2>3, Aborting DEF CallFails, IOFailed, Over
  <2>4. CASE StopReadsEOF(c) \/ StopReapTimeout(c)
    BY <2>1, <2>4, Aborting DEF StopReadsEOF, StopReapTimeout, Over, Causes
  <2>5. CASE StopMarks(c)
    BY <2>5 DEF StopMarks
  <2> QED
    BY <1>5, <2>2, <2>3, <2>4, <2>5 DEF CallSteps, CallProceeds, CallRefused, CallWrites, CallReads,
       StopReaps, ContextLapses, ContextEnds, Callback
<1> QED
  BY <1>1, <1>2, <1>3, <1>4, <1>5 DEF Next, vars

\* commandMu: who holds a service is the call in progress on it.
Held ==
    \A s \in Services, c \in Calls : holder[s] = c <=> csvc[c] = s /\ cpc[c] \notin Over

\* What a returning call changes.
LEMMA Returning ==
    ASSUME CallTypeOK, Held, NEW c \in Calls, cpc[c] \notin Over, csvc[c] \in Services,
           NEW r \in Causes \cup {"ok", "exit"}, Returns(c, r), UNCHANGED csvc
    PROVE  /\ holder' \in [Services -> Calls \cup {None}]
           /\ cpc' \in [Calls -> {"idle", "write", "read", "eof", "mark", "reap", "returned"}]
           /\ cres' \in [Calls -> Causes \cup {None, "ok", "refused", "exit"}]
           /\ ccb' \in [Calls -> {"off", "armed", "fired", "stale"}]
           /\ Held'
           /\ cpc'[c] = "returned" /\ cres'[c] = r /\ ccb'[c] \in {"stale", "off"}
           /\ \A d \in Calls \ {c} : cpc'[d] = cpc[d] /\ cres'[d] = cres[d] /\ ccb'[d] = ccb[d]
<1> USE DEF Returns, CallTypeOK
<1>1. holder' \in [Services -> Calls \cup {None}]
  OBVIOUS
<1>2. cpc' \in [Calls -> {"idle", "write", "read", "eof", "mark", "reap", "returned"}]
  OBVIOUS
<1>3. cres' \in [Calls -> Causes \cup {None, "ok", "refused", "exit"}]
  OBVIOUS
<1>4. ccb' \in [Calls -> {"off", "armed", "fired", "stale"}]
  OBVIOUS
<1>5. cpc'[c] = "returned" /\ cres'[c] = r /\ ccb'[c] \in {"stale", "off"}
  OBVIOUS
<1>6. \A d \in Calls \ {c} : cpc'[d] = cpc[d] /\ cres'[d] = cres[d] /\ ccb'[d] = ccb[d]
  OBVIOUS
<1>7. Held'
  <2>1. holder[csvc[c]] = c
    BY DEF Held
  <2>2. holder'[csvc[c]] = None /\ \A s \in Services \ {csvc[c]} : holder'[s] = holder[s]
    OBVIOUS
  <2> QED
    BY <1>5, <1>6, <2>1, <2>2, SupervisorAssumption DEF Held, Over
<1> QED
  BY <1>1, <1>2, <1>3, <1>4, <1>5, <1>6, <1>7

\* What concerns a service only.
ServiceSteps(s) == Starts(s) \/ Background(s) \/ Waiting(s) \/ Environment(s) \/ ChildRuns(s)

LEMMA CallsUntouched ==
    ASSUME NEW s \in Services, ServiceSteps(s)
    PROVE  UNCHANGED <<callVars, sequence, stopReq, stopped>>
<1>1. CASE Starts(s) \/ Environment(s)
  BY <1>1 DEF Starts, StartRefused, StartReserve, StartLaunchFails, StartLaunch, StartSend,
     StartReady, StartNotReady, StartReap, StartReapTimeout, StartRelease, Environment,
     ParentCancelled, ServiceDeadline
<1>2. CASE Background(s) \/ Waiting(s)
  BY <1>2 DEF Background, AbortTimer, WatchParent, ProcessReaped, StderrDrained, RunnerReleased,
     DoneClosed, Waiting, WaitCalled, WaitWakes, WaitAnswers
<1>3. CASE ChildRuns(s)
  BY <1>3 DEF ChildRuns, ChildReady, ChildApplies, ChildStops, ChildExits, ChildFails
<1> QED
  BY <1>1, <1>2, <1>3 DEF ServiceSteps

\* A call that moves on without returning keeps commandMu.
LEMMA CallTyped ==
    ASSUME CallTypeOK, Held, Entered, ServiceTypeOK, [Next]_vars
    PROVE  CallTypeOK' /\ Held'
<1>1. ASSUME NEW s \in Services, ServiceSteps(s)
      PROVE  CallTypeOK' /\ Held'
  BY <1>1, CallsUntouched DEF CallTypeOK, Held
<1>2. ASSUME NEW c \in Calls, CallSteps(c)
      PROVE  CallTypeOK' /\ Held'
  <2>1. FailCause(c) \in Causes /\ (cpc[c] \notin Over => csvc[c] \in Services)
    BY DEF FailCause, Causes, Entered, CallTypeOK
  <2>2. ASSUME NEW s \in Services, CallRefused(c, s)
        PROVE  CallTypeOK' /\ Held'
    <3>1. CallTypeOK'
      BY <2>2 DEF CallRefused, CallTypeOK
    <3>2. csvc[c] = None
      BY <2>2 DEF CallRefused, Entered
    <3>3. cpc'[c] = "returned" /\ \A d \in Calls \ {c} : cpc'[d] = cpc[d]
      BY <2>2 DEF CallRefused, CallTypeOK
    <3> QED
      BY <2>2, <3>1, <3>2, <3>3, SupervisorAssumption DEF CallRefused, Held, Over
  <2>3. ASSUME NEW s \in Services, NEW kind \in {"exchange", "stop"}, CallBegins(c, s, kind)
        PROVE  CallTypeOK' /\ Held'
    <3>1. holder' \in [Services -> Calls \cup {None}] /\ csvc' \in [Calls -> Services \cup {None}]
      BY <2>3 DEF CallBegins, CallTypeOK
    <3>2. cseq' \in [Calls -> Nat]
      BY <2>3 DEF CallBegins, CallTypeOK, ServiceTypeOK
    <3>3. CallTypeOK'
      BY <2>3, <3>1, <3>2 DEF CallBegins, CallTypeOK
    <3>4. csvc[c] = None
      BY <2>3 DEF CallBegins, Entered
    <3>5. /\ cpc'[c] = "write" /\ csvc'[c] = s /\ holder'[s] = c /\ holder[s] = None
          /\ \A d \in Calls \ {c} : cpc'[d] = cpc[d] /\ csvc'[d] = csvc[d]
          /\ \A t \in Services \ {s} : holder'[t] = holder[t]
      BY <2>3 DEF CallBegins, CallTypeOK
    <3> QED
      BY <3>3, <3>4, <3>5, SupervisorAssumption DEF Held, Over
  <2>4. CASE UNCHANGED <<holder, cpc, csvc, ckind, cseq, cres>> /\ CallTypeOK'
    BY <2>4 DEF Held
  <2>5. CASE StopReapTimeout(c) \/ ContextLapses(c) \/ ContextEnds(c) \/ Callback(c)
    BY <2>4, <2>5 DEF StopReapTimeout, ContextLapses, ContextEnds, Callback, CallTypeOK
  <2>6. ASSUME cpc[c] \notin Over, NEW to \in {"read", "eof", "mark", "reap"},
               cpc' = [cpc EXCEPT ![c] = to], UNCHANGED <<holder, csvc, ckind, cseq, cres, cctx, ccb>>
        PROVE  CallTypeOK' /\ Held'
    <3>1. CallTypeOK'
      BY <2>6 DEF CallTypeOK
    <3>2. cpc'[c] = to /\ \A d \in Calls \ {c} : cpc'[d] = cpc[d]
      BY <2>6 DEF CallTypeOK
    <3> QED
      BY <2>6, <3>1, <3>2 DEF Held, Over
  <2>7. CASE CallWrites(c) \/ StopReadsEOF(c) \/ StopMarks(c)
    BY <2>6, <2>7 DEF CallWrites, StopReadsEOF, StopMarks, Over
  <2>8. ASSUME cpc[c] \notin Over, NEW r \in Causes \cup {"ok", "exit"}, Returns(c, r),
               UNCHANGED <<csvc, ckind, cseq, cctx>>
        PROVE  CallTypeOK' /\ Held'
    BY <2>1, <2>8, Returning DEF CallTypeOK
  <2>9. CASE CallFails(c)
    BY <2>1, <2>6, <2>8, <2>9 DEF CallFails, IOFailed, Over
  <2>10. CASE CallReads(c)
    BY <2>6, <2>8, <2>10 DEF CallReads, Over
  <2>11. CASE StopReaps(c)
    BY <2>1, <2>8, <2>11, WaitResults DEF StopReaps, Over
  <2> QED
    BY <1>2, <2>2, <2>3, <2>5, <2>7, <2>9, <2>10, <2>11 DEF CallSteps, CallProceeds
<1>3. CASE UNCHANGED vars
  BY <1>3 DEF vars, CallTypeOK, Held
<1> QED
  BY <1>1, <1>2, <1>3 DEF Next, ServiceSteps

-----------------------------------------------------------------------------
(* The life of a service *)

\* The child moves between the states of a process that is not reaped.
LEMMA ChildMoves ==
    ASSUME ProcessTypeOK, NEW s \in Services, ChildRuns(s)
    PROVE  /\ child[s] \in Alive /\ child'[s] \in Alive \cup {"exited"}
           /\ child[s] = "stopping" => child'[s] \in {"stopping", "exited"}
           /\ \A t \in Services \ {s} : /\ child'[t] = child[t] /\ exitOK'[t] = exitOK[t]
                                        /\ noisy'[t] = noisy[t]
           /\ UNCHANGED <<runnerVars, startVars, parent, killed, ctlOpen, outOpen, expired, abortVars,
                          svcVars, waitVars>>
<1>1. ASSUME NEW ok \in BOOLEAN, Exit(s, ok)
      PROVE  /\ child'[s] = "exited"
             /\ \A t \in Services \ {s} : child'[t] = child[t] /\ exitOK'[t] = exitOK[t] /\ noisy'[t] = noisy[t]
  BY <1>1 DEF Exit, ProcessTypeOK
<1>2. ASSUME NEW n, NEW to \in {"exited"} \cup Alive, Reply(s, n, to)
      PROVE  /\ child'[s] \in {to, "exited"}
             /\ \A t \in Services \ {s} : child'[t] = child[t] /\ exitOK'[t] = exitOK[t] /\ noisy'[t] = noisy[t]
  BY <1>1, <1>2 DEF Reply, ProcessTypeOK
<1>3. CASE ChildReady(s) \/ ChildStops(s)
  BY <1>2, <1>3 DEF ChildReady, ChildStops, Alive
<1>4. CASE ChildApplies(s)
  BY <1>2, <1>4 DEF ChildApplies, Alive
<1>5. CASE ChildExits(s) \/ ChildFails(s)
  BY <1>1, <1>5 DEF ChildExits, ChildFails, Alive
<1> QED
  BY <1>3, <1>4, <1>5 DEF ChildRuns

\* waitProcess, abort and Start agree on how far the service has come.
LEMMA LifecycleStep ==
    ASSUME TypeOK, Lifecycle, Entered, [Next]_vars
    PROVE  Lifecycle'
<1>0. RunnerTypeOK /\ ProcessTypeOK /\ PipeTypeOK /\ ServiceTypeOK /\ CallTypeOK
  BY DEF TypeOK
<1>1. ASSUME NEW s \in Services, NEW why \in Causes, Abort(s, why), UNCHANGED <<wpc, child, done, stopped>>,
             spc' = spc \/ (spc' = [spc EXCEPT ![s] = "reap"] /\ spc[s] \in {"send", "await"})
      PROVE  Lifecycle'
  <2>1. /\ spc'[s] = spc[s] \/ spc'[s] = "reap"
        /\ \A t \in Services \ {s} : spc'[t] = spc[t]
    BY <1>0, <1>1 DEF RunnerTypeOK
  <2>2. /\ cause'[s] # None /\ tdone'[s] \in BOOLEAN
        /\ timer'[s] = "armed" => timer[s] = "armed" \/ ~done[s]
        /\ \A t \in Services \ {s} : cause'[t] = cause[t] /\ tdone'[t] = tdone[t] /\ timer'[t] = timer[t]
    BY <1>0, <1>1, Aborting
  <2> QED
    BY <1>1, <2>1, <2>2 DEF Lifecycle
<1>2. ASSUME NEW s \in Services, Starts(s)
      PROVE  Lifecycle'
  <2>1. CASE StartSend(s)
    <3>1. CASE SGoto(s, "reap") /\ Abort(s, "io")
      BY <1>1, <2>1, <3>1 DEF StartSend, Causes
    <3>2. CASE SGoto(s, "await") /\ UNCHANGED <<abortVars, ctlOpen, outOpen>>
      BY <1>0, <2>1, <3>2 DEF StartSend, Lifecycle, RunnerTypeOK
    <3> QED
      BY <2>1, <3>1, <3>2 DEF StartSend
  <2>2. CASE StartReady(s)
    <3>1. CASE Abort(s, "parent") /\ SGoto(s, "reap")
      BY <1>1, <2>2, <3>1 DEF StartReady, Causes
    <3>2. CASE SGoto(s, "ok") /\ UNCHANGED <<abortVars, ctlOpen, outOpen>>
      BY <1>0, <2>2, <3>2 DEF StartReady, Lifecycle, RunnerTypeOK
    <3> QED
      BY <2>2, <3>1, <3>2 DEF StartReady
  <2>3. CASE StartNotReady(s)
    BY <1>1, <2>3 DEF StartNotReady, Causes
  <2>4. CASE StartReap(s)
    BY <1>0, <2>4 DEF StartReap, Lifecycle, RunnerTypeOK
  <2>5. CASE StartLaunch(s)
    BY <1>0, <2>5 DEF StartLaunch, Lifecycle, RunnerTypeOK, ProcessTypeOK, ServiceTypeOK, None
  <2>6. CASE StartRefused(s) \/ StartLaunchFails(s) \/ StartRelease(s)
    BY <1>0, <2>6 DEF StartRefused, MayStart, StartLaunchFails, StartRelease, Lifecycle, RunnerTypeOK
  <2>7. CASE \E b \in Bindings : StartReserve(s, b)
    BY <1>0, <2>7 DEF StartReserve, MayStart, Lifecycle, RunnerTypeOK
  <2>8. CASE StartReapTimeout(s)
    BY <2>8 DEF StartReapTimeout, Lifecycle
  <2> QED
    BY <1>2, <2>1, <2>2, <2>3, <2>4, <2>5, <2>6, <2>7, <2>8 DEF Starts
<1>3. ASSUME NEW s \in Services, Background(s)
      PROVE  Lifecycle'
  <2>1. CASE WatchParent(s)
    <3>1. CASE Abort(s, "parent")
      BY <1>1, <2>1, <3>1 DEF WatchParent, Causes
    <3>2. CASE UNCHANGED <<abortVars, ctlOpen, outOpen>>
      BY <2>1, <3>2 DEF WatchParent, Lifecycle
    <3> QED
      BY <2>1, <3>1, <3>2 DEF WatchParent
  <2>2. CASE AbortTimer(s)
    BY <1>0, <2>2 DEF AbortTimer, Lifecycle, ServiceTypeOK
  <2>3. CASE ProcessReaped(s)
    BY <1>0, <2>3 DEF ProcessReaped, Lifecycle, ServiceTypeOK, ProcessTypeOK, None
  <2>4. CASE StderrDrained(s) \/ RunnerReleased(s)
    BY <1>0, <2>4 DEF StderrDrained, RunnerReleased, Lifecycle, ServiceTypeOK, None
  <2>5. CASE DoneClosed(s)
    BY <1>0, <2>5 DEF DoneClosed, Lifecycle, ServiceTypeOK, None
  <2> QED
    BY <1>3, <2>1, <2>2, <2>3, <2>4, <2>5 DEF Background
<1>4. ASSUME NEW s \in Services, ChildRuns(s)
      PROVE  Lifecycle'
  BY <1>0, <1>4, ChildMoves DEF Lifecycle, Alive, None
<1>5. ASSUME NEW s \in Services, Waiting(s) \/ Environment(s)
      PROVE  Lifecycle'
  BY <1>5 DEF Waiting, WaitCalled, WaitWakes, WaitAnswers, Environment, ParentCancelled, ServiceDeadline,
     Lifecycle
<1>6. ASSUME NEW c \in Calls, CallSteps(c)
      PROVE  Lifecycle'
  <2>1. FailCause(c) \in Causes /\ (cpc[c] \notin Over => csvc[c] \in Services)
    BY <1>0 DEF FailCause, Causes, Entered, CallTypeOK
  <2>2. CASE CallFails(c)
    BY <1>1, <2>1, <2>2 DEF CallFails, IOFailed, Over
  <2>3. CASE StopReadsEOF(c)
    <3>1. CASE Abort(csvc[c], "result")
      BY <1>1, <2>1, <2>3, <3>1 DEF StopReadsEOF, Over, Causes
    <3>2. CASE UNCHANGED <<abortVars, ctlOpen, outOpen>>
      BY <2>3, <3>2 DEF StopReadsEOF, Lifecycle
    <3> QED
      BY <2>3, <3>1, <3>2 DEF StopReadsEOF
  <2>4. CASE StopReapTimeout(c)
    BY <1>1, <2>1, <2>4 DEF StopReapTimeout, Over, Causes
  <2>5. CASE StopMarks(c)
    BY <1>0, <2>1, <2>5 DEF StopMarks, Lifecycle, ServiceTypeOK, Over
  <2>6. ASSUME UNCHANGED <<abortVars, spc, wpc, child, done, stopped>>
        PROVE  Lifecycle'
    BY <2>6 DEF Lifecycle
  <2>7. CASE \E s \in Services, kind \in {"exchange", "stop"} : CallBegins(c, s, kind)
    BY <2>6, <2>7 DEF CallBegins
  <2> QED
    BY <1>6, <2>2, <2>3, <2>4, <2>5, <2>6, <2>7 DEF CallSteps, CallProceeds, CallRefused, CallWrites, CallReads,
       StopReaps, ContextLapses, ContextEnds, Callback
<1> QED
  BY <1>2, <1>3, <1>4, <1>5, <1>6 DEF Next, vars, Lifecycle

\* Starts that take turns never hold the runner together.
LEMMA TakingTurnsStep ==
    ASSUME TypeOK, Lifecycle, TakingTurns, [Next]_vars
    PROVE  TakingTurns'
<1>0. RunnerTypeOK /\ ProcessTypeOK /\ ServiceTypeOK
  BY DEF TypeOK
<1>1. ASSUME UNCHANGED <<spc, wpc, active>>
      PROVE  TakingTurns'
  BY <1>1 DEF TakingTurns, Occupies
<1>2. ASSUME NEW s \in Services, SGoto(s, "ok") \/ SGoto(s, "error") \/ SGoto(s, "reap")
                                 \/ SGoto(s, "release") \/ SGoto(s, "await"),
             spc[s] \in Starting \cup {"idle"}, spc[s] = "idle" => spc'[s] = "error", UNCHANGED <<wpc, active>>
      PROVE  TakingTurns'
  BY <1>0, <1>2 DEF TakingTurns, Occupies, RunnerTypeOK, Starting
<1>3. ASSUME NEW s \in Services, Starts(s)
      PROVE  TakingTurns'
  <2>1. CASE StartRefused(s) \/ StartLaunchFails(s) \/ StartSend(s) \/ StartReady(s)
             \/ StartNotReady(s) \/ StartReap(s)
    <3>1. spc'[s] = "error" <=> SGoto(s, "error")
      BY <1>0, <2>1 DEF StartRefused, StartLaunchFails, StartSend, StartReady, StartNotReady,
         StartReap, RunnerTypeOK
    <3> QED
      BY <1>2, <2>1, <3>1 DEF StartRefused, MayStart, StartLaunchFails, StartSend, StartReady,
         StartNotReady, StartReap, Starting
  <2>2. CASE \E b \in Bindings : StartReserve(s, b)
    <3>1. /\ ~active /\ UNCHANGED wpc /\ active' = TRUE
          /\ Sequential => \A t \in Services : spc[t] \notin Starting
          /\ spc'[s] = "reserved" /\ \A t \in Services \ {s} : spc'[t] = spc[t]
      BY <1>0, <2>2 DEF StartReserve, MayStart, MayReserve, RunnerTypeOK
    <3> QED
      BY <3>1 DEF TakingTurns, Occupies
  <2>3. CASE StartLaunch(s)
    <3>1. /\ spc[s] \in Starting /\ \A t \in Services \ {s} : spc'[t] = spc[t] /\ wpc'[t] = wpc[t]
          /\ spc[s] = "reserved"  /\ UNCHANGED active
      BY <1>0, <2>3 DEF StartLaunch, RunnerTypeOK, ServiceTypeOK, Starting
    <3> QED
      BY <3>1 DEF TakingTurns, Occupies
  <2>4. CASE StartRelease(s)
    <3>1. /\ spc[s] = "release" /\ wpc[s] \in {None, "over"} /\ UNCHANGED wpc
          /\ spc'[s] = "error" /\ \A t \in Services \ {s} : spc'[t] = spc[t]
      BY <1>0, <2>4 DEF StartRelease, RunnerTypeOK, Lifecycle
    <3> QED
      BY <3>1 DEF TakingTurns, Occupies, Starting, None
  <2>5. CASE StartReapTimeout(s)
    BY <1>1, <2>5 DEF StartReapTimeout
  <2> QED
    BY <1>3, <2>1, <2>2, <2>3, <2>4, <2>5 DEF Starts
<1>4. ASSUME NEW s \in Services, Background(s)
      PROVE  TakingTurns'
  <2>1. CASE AbortTimer(s) \/ WatchParent(s)
    BY <1>1, <2>1 DEF AbortTimer, WatchParent
  <2>2. CASE ProcessReaped(s) \/ StderrDrained(s) \/ DoneClosed(s)
    BY <1>0, <2>2 DEF ProcessReaped, StderrDrained, DoneClosed, TakingTurns, Occupies, ServiceTypeOK
  <2>3. CASE RunnerReleased(s)
    <3>1. /\ wpc[s] = "release" /\ wpc'[s] = "signal" /\ spc[s] # "reserved" /\ UNCHANGED spc
          /\ \A t \in Services \ {s} : wpc'[t] = wpc[t]
      BY <1>0, <2>3 DEF RunnerReleased, Lifecycle, ServiceTypeOK, None
    <3> QED
      BY <3>1 DEF TakingTurns, Occupies, Starting
  <2> QED
    BY <1>4, <2>1, <2>2, <2>3 DEF Background
<1>5. ASSUME NEW s \in Services, Waiting(s) \/ Environment(s) \/ ChildRuns(s)
      PROVE  TakingTurns'
  BY <1>1, <1>5 DEF Waiting, WaitCalled, WaitWakes, WaitAnswers, Environment, ParentCancelled,
     ServiceDeadline, ChildRuns, ChildReady, ChildApplies, ChildStops, ChildExits, ChildFails
<1>6. ASSUME NEW c \in Calls, CallSteps(c)
      PROVE  TakingTurns'
  BY <1>1, <1>6 DEF CallSteps, CallRefused, CallBegins, CallProceeds, CallWrites, CallFails, CallReads,
     StopReadsEOF, StopMarks, StopReaps, StopReapTimeout, ContextLapses, ContextEnds, Callback
<1> QED
  BY <1>1, <1>3, <1>4, <1>5, <1>6 DEF Next, vars

\* A cause is never forgotten and the pipes are never opened again.
LEMMA ClosedStep ==
    ASSUME TypeOK, Entered, GivenBack, [Next]_vars, NEW t \in Services
    PROVE  /\ cause'[t] # None => ~ctlOpen'[t] /\ ~outOpen'[t]
           /\ cause[t] # None => cause'[t] # None
<1>0. PipeTypeOK /\ ServiceTypeOK /\ CallTypeOK
  BY DEF TypeOK
<1> DEFINE P == /\ cause'[t] # None => ~ctlOpen'[t] /\ ~outOpen'[t]
                /\ cause[t] # None => cause'[t] # None
<1>1. ASSUME NEW s \in Services, NEW why \in Causes, Abort(s, why)
      PROVE  P
  <2>1. cause'[s] # None /\ \A u \in Services \ {s} : cause'[u] = cause[u]
    BY <1>0, <1>1, Aborting
  <2>2. CASE cause[s] # None
    BY <1>1, <2>2 DEF Abort, GivenBack
  <2>3. CASE cause[s] = None
    BY <1>0, <1>1, <2>1, <2>3 DEF Abort, GivenBack, PipeTypeOK
  <2> QED
    BY <2>2, <2>3
<1>2. ASSUME cause' = cause, ctlOpen'[t] => ctlOpen[t], outOpen'[t] => outOpen[t]
      PROVE  P
  BY <1>2 DEF GivenBack
<1>3. ASSUME NEW s \in Services, Starts(s)
      PROVE  P
  <2>1. CASE StartSend(s) \/ StartReady(s) \/ StartNotReady(s)
    BY <1>1, <1>2, <2>1 DEF StartSend, StartReady, StartNotReady, Causes
  <2>2. CASE StartReap(s)
    BY <1>0, <1>2, <2>2 DEF StartReap, PipeTypeOK
  <2> QED
    BY <1>2, <1>3, <2>1, <2>2 DEF Starts, StartRefused, StartReserve, StartLaunchFails, StartLaunch,
       StartReapTimeout, StartRelease
<1>4. ASSUME NEW s \in Services, Background(s)
      PROVE  P
  <2>1. CASE WatchParent(s)
    BY <1>1, <1>2, <2>1 DEF WatchParent, Causes
  <2>2. CASE StderrDrained(s)
    BY <1>0, <1>2, <2>2 DEF StderrDrained, PipeTypeOK
  <2> QED
    BY <1>2, <1>4, <2>1, <2>2 DEF Background, AbortTimer, ProcessReaped, RunnerReleased, DoneClosed
<1>5. ASSUME NEW s \in Services, Waiting(s) \/ Environment(s) \/ ChildRuns(s)
      PROVE  P
  <2>1. CASE WaitWakes(s)
    BY <1>0, <1>2, <2>1 DEF WaitWakes, PipeTypeOK
  <2> QED
    BY <1>2, <1>5, <2>1 DEF Waiting, WaitCalled, WaitAnswers, Environment, ParentCancelled,
       ServiceDeadline, ChildRuns, ChildReady, ChildApplies, ChildStops, ChildExits, ChildFails
<1>6. ASSUME NEW c \in Calls, CallSteps(c)
      PROVE  P
  <2>1. FailCause(c) \in Causes /\ (cpc[c] \notin Over => csvc[c] \in Services)
    BY <1>0 DEF FailCause, Causes, Entered, CallTypeOK
  <2>2. CASE CallFails(c)
    BY <1>1, <2>1, <2>2 DEF CallFails, IOFailed, Over
  <2>3. CASE StopReadsEOF(c) \/ StopReapTimeout(c)
    BY <1>1, <1>2, <2>1, <2>3 DEF StopReadsEOF, StopReapTimeout, Causes, Over
  <2>4. CASE StopMarks(c) \/ StopReaps(c)
    BY <1>0, <1>2, <2>1, <2>4 DEF StopMarks, StopReaps, Over, PipeTypeOK
  <2> QED
    BY <1>2, <1>6, <2>2, <2>3, <2>4 DEF CallSteps, CallProceeds, CallRefused, CallBegins, CallWrites,
       CallReads, ContextLapses, ContextEnds, Callback
<1> QED
  BY <1>2, <1>3, <1>4, <1>5, <1>6 DEF Next, vars

\* The reservation is given up by the start or the service it is for.
LEMMA OwnedStep ==
    ASSUME TypeOK, Lifecycle, GivenBack, [Next]_vars, active'
    PROVE  \E s \in Services : Owns(s)'
<1>0. RunnerTypeOK /\ ServiceTypeOK
  BY DEF TypeOK
<1>1. ASSUME NEW s \in Services, \E b \in Bindings : StartReserve(s, b)
      PROVE  Owns(s)'
  BY <1>0, <1>1 DEF StartReserve, Owns, RunnerTypeOK
<1>2. ASSUME active' = active, \A s \in Services : Owns(s) => Owns(s)'
      PROVE  \E s \in Services : Owns(s)'
  BY <1>2 DEF GivenBack
<1>3. ASSUME NEW s \in Services, Starts(s), ~\E b \in Bindings : StartReserve(s, b)
      PROVE  active' = active /\ \A t \in Services : Owns(t) => Owns(t)'
  <2>1. ~StartRelease(s)
    BY DEF StartRelease
  <2>2. CASE StartLaunch(s)
    BY <1>0, <2>2 DEF StartLaunch, Owns, RunnerTypeOK, ServiceTypeOK
  <2>3. CASE StartLaunchFails(s)
    BY <1>0, <2>3 DEF StartLaunchFails, Owns, RunnerTypeOK, Lifecycle
  <2>4. CASE StartRefused(s) \/ StartReap(s)
    BY <1>0, <2>4 DEF StartRefused, MayStart, StartReap, Owns, RunnerTypeOK
  <2>5. CASE StartSend(s) \/ StartReady(s) \/ StartNotReady(s)
    BY <1>0, <2>5 DEF StartSend, StartReady, StartNotReady, Owns, RunnerTypeOK
  <2>6. CASE StartReapTimeout(s)
    BY <2>6 DEF StartReapTimeout, Owns
  <2> QED
    BY <1>3, <2>1, <2>2, <2>3, <2>4, <2>5, <2>6 DEF Starts
<1>4. ASSUME NEW s \in Services, Background(s)
      PROVE  active' = active /\ \A t \in Services : Owns(t) => Owns(t)'
  <2>1. ~RunnerReleased(s)
    BY DEF RunnerReleased
  <2>2. CASE ProcessReaped(s) \/ StderrDrained(s) \/ DoneClosed(s)
    BY <1>0, <2>2 DEF ProcessReaped, StderrDrained, DoneClosed, Owns, ServiceTypeOK, None
  <2>3. CASE AbortTimer(s) \/ WatchParent(s)
    BY <2>3 DEF AbortTimer, WatchParent, Owns
  <2> QED
    BY <1>4, <2>1, <2>2, <2>3 DEF Background
<1>5. ASSUME NEW s \in Services, Waiting(s) \/ Environment(s) \/ ChildRuns(s)
      PROVE  UNCHANGED <<active, spc, wpc>>
  BY <1>5 DEF Waiting, WaitCalled, WaitWakes, WaitAnswers, Environment, ParentCancelled,
     ServiceDeadline, ChildRuns, ChildReady, ChildApplies, ChildStops, ChildExits, ChildFails
<1>6. ASSUME NEW c \in Calls, CallSteps(c)
      PROVE  UNCHANGED <<active, spc, wpc>>
  BY <1>6 DEF CallSteps, CallRefused, CallBegins, CallProceeds, CallWrites, CallFails, CallReads,
     StopReadsEOF, StopMarks, StopReaps, StopReapTimeout, ContextLapses, ContextEnds, Callback
<1>7. ASSUME UNCHANGED <<active, spc, wpc>>
      PROVE  \E s \in Services : Owns(s)'
  BY <1>2, <1>7 DEF Owns
<1>8. CASE \E s \in Services : Starts(s) \/ Background(s)
  BY <1>1, <1>2, <1>3, <1>4, <1>8
<1> QED
  BY <1>5, <1>6, <1>7, <1>8 DEF Next, vars

LEMMA GivenBackStep ==
    ASSUME TypeOK, Lifecycle, Entered, GivenBack, [Next]_vars
    PROVE  GivenBack'
<1>0. RunnerTypeOK /\ ServiceTypeOK
  BY DEF TypeOK
<1>1. ASSUME NEW t \in Services, spc'[t] \in {"release", "error"}, wpc'[t] # None
      PROVE  cause'[t] # None
  <2>0. cause[t] # None => cause'[t] # None
    BY ClosedStep
  <2>1. ASSUME NEW s \in Services, Starts(s)
        PROVE  spc[t] \in {"release", "error", "reap"} /\ wpc[t] # None
    <3>1. CASE StartLaunch(s)
      BY <1>0, <1>1, <3>1 DEF StartLaunch, RunnerTypeOK, ServiceTypeOK
    <3>2. CASE StartRefused(s) \/ StartLaunchFails(s) \/ \E b \in Bindings : StartReserve(s, b)
      BY <1>0, <1>1, <3>2 DEF StartRefused, MayStart, StartLaunchFails, StartReserve, Lifecycle,
         RunnerTypeOK
    <3>3. CASE StartSend(s) \/ StartReady(s) \/ StartNotReady(s) \/ StartReap(s) \/ StartRelease(s)
      BY <1>0, <1>1, <3>3 DEF StartSend, StartReady, StartNotReady, StartReap, StartRelease,
         RunnerTypeOK
    <3>4. CASE StartReapTimeout(s)
      BY <1>1, <3>4 DEF StartReapTimeout
    <3> QED
      BY <2>1, <3>1, <3>2, <3>3, <3>4 DEF Starts
  <2>2. ASSUME NEW s \in Services, Background(s)
        PROVE  spc' = spc /\ wpc[t] # None
    BY <1>0, <1>1, <2>2 DEF Background, AbortTimer, WatchParent, ProcessReaped, StderrDrained,
       RunnerReleased, DoneClosed, ServiceTypeOK, None
  <2>3. ASSUME NEW s \in Services, Waiting(s) \/ Environment(s) \/ ChildRuns(s)
        PROVE  UNCHANGED <<spc, wpc>>
    BY <2>3 DEF Waiting, WaitCalled, WaitWakes, WaitAnswers, Environment, ParentCancelled,
       ServiceDeadline, ChildRuns, ChildReady, ChildApplies, ChildStops, ChildExits, ChildFails
  <2>4. ASSUME NEW c \in Calls, CallSteps(c)
        PROVE  UNCHANGED <<spc, wpc>>
    BY <2>4 DEF CallSteps, CallRefused, CallBegins, CallProceeds, CallWrites, CallFails, CallReads,
       StopReadsEOF, StopMarks, StopReaps, StopReapTimeout, ContextLapses, ContextEnds, Callback
  <2>5. spc[t] \in {"release", "error", "reap"} /\ wpc[t] # None
    BY <1>1, <2>1, <2>2, <2>3, <2>4 DEF Next, vars
  <2> QED
    BY <2>0, <2>5 DEF GivenBack, Lifecycle
<1>2. \A t \in Services : cause'[t] # None => ~ctlOpen'[t] /\ ~outOpen'[t]
  BY ClosedStep
<1>3. active' => \E s \in Services : Owns(s)'
  BY OwnedStep
<1> QED
  BY <1>1, <1>2, <1>3 DEF GivenBack

-----------------------------------------------------------------------------
(* Calls *)

SameCall(d) ==
    /\ cpc'[d] = cpc[d] /\ csvc'[d] = csvc[d] /\ ckind'[d] = ckind[d] /\ cseq'[d] = cseq[d]
    /\ cres'[d] = cres[d] /\ cctx'[d] = cctx[d] /\ ccb'[d] = ccb[d]

\* A step of one call leaves the other calls, and every started service, alone.
LEMMA OthersKeep ==
    ASSUME CallTypeOK, NEW c \in Calls, CallSteps(c)
    PROVE  UNCHANGED spc /\ \A d \in Calls \ {c} : SameCall(d)
<1> USE DEF CallTypeOK, SameCall, Returns
<1>1. CASE \E s \in Services : CallRefused(c, s)
  BY <1>1 DEF CallRefused
<1>2. CASE \E s \in Services, kind \in {"exchange", "stop"} : CallBegins(c, s, kind)
  BY <1>2 DEF CallBegins
<1>3. CASE CallWrites(c) \/ StopReadsEOF(c) \/ StopMarks(c) \/ StopReapTimeout(c)
  BY <1>3 DEF CallWrites, StopReadsEOF, StopMarks, StopReapTimeout
<1>4. CASE CallFails(c)
  BY <1>4 DEF CallFails
<1>5. CASE CallReads(c)
  BY <1>5 DEF CallReads
<1>6. CASE StopReaps(c)
  BY <1>6 DEF StopReaps
<1>7. CASE ContextLapses(c) \/ ContextEnds(c) \/ Callback(c)
  BY <1>7 DEF ContextLapses, ContextEnds, Callback
<1> QED
  BY <1>1, <1>2, <1>3, <1>4, <1>5, <1>6, <1>7 DEF CallSteps, CallProceeds

\* A started service stays started.
LEMMA StartedStays ==
    ASSUME RunnerTypeOK, NEW s \in Services, ServiceSteps(s)
    PROVE  \A t \in Services : spc[t] = "ok" => spc'[t] = "ok"
<1>1. CASE Starts(s)
  BY <1>1 DEF RunnerTypeOK, Starts, StartRefused, MayStart, StartReserve, StartLaunchFails, StartLaunch,
     StartSend, StartReady, StartNotReady, StartReap, StartReapTimeout, StartRelease
<1>2. CASE Background(s) \/ Waiting(s)
  BY <1>2 DEF Background, AbortTimer, WatchParent, ProcessReaped, StderrDrained, RunnerReleased,
     DoneClosed, Waiting, WaitCalled, WaitWakes, WaitAnswers
<1>3. CASE Environment(s) \/ ChildRuns(s)
  BY <1>3 DEF Environment, ParentCancelled, ServiceDeadline, ChildRuns, ChildReady, ChildApplies,
     ChildStops, ChildExits, ChildFails
<1> QED
  BY <1>1, <1>2, <1>3 DEF ServiceSteps

\* What a call that begins changes.
LEMMA Beginning ==
    ASSUME CallTypeOK, ServiceTypeOK, NEW c \in Calls, NEW s \in Services,
           NEW kind \in {"exchange", "stop"}, CallBegins(c, s, kind)
    PROVE  /\ cpc'[c] = "write" /\ csvc'[c] = s /\ ckind'[c] = kind /\ ccb'[c] = "armed"
           /\ cseq'[c] = sequence[s] + 1 /\ sequence'[s] = sequence[s] + 1
           /\ cres'[c] = cres[c] /\ cctx'[c] = cctx[c]
           /\ (stopReq'[s] <=> stopReq[s] \/ kind = "stop")
           /\ \A t \in Services \ {s} : stopReq'[t] = stopReq[t] /\ sequence'[t] = sequence[t]
<1>1. stopReq'[s] = (stopReq[s] \/ kind = "stop")
  BY DEF CallBegins, ServiceTypeOK
<1>2. stopReq'[s] <=> stopReq[s] \/ kind = "stop"
  BY <1>1, Zenon
<1> QED
  BY <1>2 DEF CallBegins, CallTypeOK, ServiceTypeOK

\* What a call is, and what it becomes, in each of its steps.
LEMMA CallMoves ==
    ASSUME TypeOK, Entered, NEW c \in Calls, CallSteps(c)
    PROVE  \/ /\ cpc[c] = "idle" /\ cpc'[c] = "returned" /\ cres'[c] = "refused"
              /\ UNCHANGED <<csvc, ckind, cseq, cctx, ccb, sequence, stopReq>>
           \/ \E s \in Services, kind \in {"exchange", "stop"} :
                 /\ CallBegins(c, s, kind)
                 /\ cpc'[c] = "write" /\ csvc'[c] = s /\ ckind'[c] = kind /\ ccb'[c] = "armed"
                 /\ cseq'[c] = sequence[s] + 1 /\ sequence'[s] = sequence[s] + 1
                 /\ cres'[c] = cres[c] /\ cctx'[c] = cctx[c]
                 /\ (stopReq'[s] <=> stopReq[s] \/ kind = "stop")
                 /\ \A t \in Services \ {s} : stopReq'[t] = stopReq[t] /\ sequence'[t] = sequence[t]
           \/ /\ cpc[c] \notin Over /\ csvc[c] \in Services
              /\ \/ /\ cpc'[c] = "returned" /\ ccb'[c] \in {"stale", "off"}
                    /\ cres'[c] \in Causes \cup {"ok", "exit"}
                 \/ /\ cpc'[c] \notin Over /\ cres'[c] = cres[c] /\ ccb'[c] = ccb[c]
                    /\ cpc'[c] \in {"eof", "mark", "reap"} => ckind[c] = "stop"
              /\ UNCHANGED <<csvc, ckind, cseq, cctx, sequence, stopReq>>
           \/ /\ cpc[c] \notin Over
              /\ cctx'[c] = cctx[c] \/ (cctx[c] = "live" /\ cctx'[c] = "lapsing") \/ cctx'[c] = "done"
              /\ ccb'[c] = ccb[c] \/ (ccb'[c] = "fired" /\ cctx'[c] = "done")
              /\ UNCHANGED <<cpc, csvc, ckind, cseq, cres, sequence, stopReq>>
           \/ /\ Callback(c) /\ ccb'[c] = "off"
              /\ UNCHANGED <<cpc, csvc, ckind, cseq, cres, cctx, sequence, stopReq>>
<1>0. CallTypeOK /\ ServiceTypeOK /\ Held
  BY DEF TypeOK, Held, Over
<1>1. FailCause(c) \in Causes /\ (cpc[c] \notin Over => csvc[c] \in Services)
  BY <1>0 DEF FailCause, Causes, Entered, CallTypeOK
<1>2. CASE \E s \in Services : CallRefused(c, s)
  BY <1>0, <1>2 DEF CallRefused, CallTypeOK
<1>3. ASSUME NEW s \in Services, NEW kind \in {"exchange", "stop"}, CallBegins(c, s, kind)
      PROVE  /\ cpc'[c] = "write" /\ csvc'[c] = s /\ ckind'[c] = kind /\ ccb'[c] = "armed"
             /\ cseq'[c] = sequence[s] + 1 /\ sequence'[s] = sequence[s] + 1
             /\ cres'[c] = cres[c] /\ cctx'[c] = cctx[c]
             /\ (stopReq'[s] <=> stopReq[s] \/ kind = "stop")
             /\ \A t \in Services \ {s} : stopReq'[t] = stopReq[t] /\ sequence'[t] = sequence[t]
  BY <1>0, <1>3, Beginning
<1>4. CASE CallWrites(c) \/ StopReadsEOF(c) \/ StopMarks(c)
  BY <1>0, <1>1, <1>4 DEF CallWrites, StopReadsEOF, StopMarks, CallTypeOK, Over, Entered
<1>5. ASSUME NEW r \in Causes \cup {"ok", "exit"}, Returns(c, r), cpc[c] \notin Over, UNCHANGED csvc
      PROVE  cpc'[c] = "returned" /\ ccb'[c] \in {"stale", "off"} /\ cres'[c] = r
  BY <1>0, <1>1, <1>5, Returning
<1>6. CASE CallFails(c)
  <2>1. cpc[c] \notin Over
    BY <1>6 DEF CallFails, IOFailed, Over
  <2>2. CASE Returns(c, FailCause(c))
    BY <1>1, <1>5, <1>6, <2>1, <2>2 DEF CallFails
  <2>3. CASE ckind[c] = "stop" /\ cpc' = [cpc EXCEPT ![c] = "reap"] /\ UNCHANGED <<holder, cres, ccb>>
    BY <1>0, <1>1, <1>6, <2>1, <2>3 DEF CallFails, CallTypeOK, Over
  <2> QED
    BY <1>6, <2>2, <2>3 DEF CallFails
<1>7. CASE CallReads(c)
  <2>1. cpc[c] \notin Over
    BY <1>7 DEF CallReads, Over
  <2>2. CASE Returns(c, "ok")
    BY <1>1, <1>5, <1>7, <2>1, <2>2 DEF CallReads
  <2>3. CASE ckind[c] = "stop" /\ cpc' = [cpc EXCEPT ![c] = "eof"] /\ UNCHANGED <<holder, cres, ccb>>
    BY <1>0, <1>1, <1>7, <2>1, <2>3 DEF CallReads, CallTypeOK, Over
  <2> QED
    BY <1>7, <2>2, <2>3 DEF CallReads
<1>8. CASE StopReaps(c)
  <2>1. cpc[c] \notin Over /\ WaitResult(csvc[c]) \in Causes \cup {"ok", "exit"}
    BY <1>0, <1>1, <1>8, WaitResults DEF StopReaps, Over
  <2> QED
    BY <1>1, <1>5, <1>8, <2>1 DEF StopReaps
<1>9. CASE StopReapTimeout(c) \/ ContextLapses(c) \/ ContextEnds(c)
  <2>1. CASE StopReapTimeout(c)
    BY <2>1 DEF StopReapTimeout, Over
  <2>2. CASE ContextLapses(c)
    BY <1>0, <2>2 DEF ContextLapses, CallTypeOK, Over, UsesPipes
  <2>3. CASE ContextEnds(c)
    BY <1>0, <2>3 DEF ContextEnds, CallTypeOK, Over, UsesPipes
  <2> QED
    BY <1>9, <2>1, <2>2, <2>3
<1>10. CASE Callback(c)
  BY <1>0, <1>10 DEF Callback, CallTypeOK
<1> QED
  BY <1>2, <1>3, <1>4, <1>6, <1>7, <1>8, <1>9, <1>10 DEF CallSteps, CallProceeds

LEMMA EnteredStep ==
    ASSUME TypeOK, Entered, [Next]_vars
    PROVE  Entered'
<1>0. RunnerTypeOK /\ CallTypeOK /\ ServiceTypeOK /\ Held
  BY DEF TypeOK, Held, Over
<1>1. ASSUME NEW s \in Services, ServiceSteps(s)
      PROVE  Entered'
  BY <1>0, <1>1, CallsUntouched, StartedStays DEF Entered, CallTypeOK
<1>2. ASSUME NEW c \in Calls, CallSteps(c)
      PROVE  Entered'
  <2> DEFINE Good(d) ==
        /\ csvc[d] = None => cpc[d] \in Over /\ ckind[d] = None /\ cres[d] # "ok" /\ ccb[d] = "off"
        /\ cpc[d] = "idle" => cres[d] = None
        /\ csvc[d] # None => /\ cpc[d] # "idle" /\ spc[csvc[d]] = "ok"
                             /\ ckind[d] # None /\ cseq[d] \in 1..sequence[csvc[d]]
        /\ cpc[d] \notin Over => cseq[d] = sequence[csvc[d]] /\ cres[d] = None
        /\ cpc[d] \in {"eof", "mark", "reap"} => ckind[d] = "stop"
        /\ ckind[d] = "stop" => stopReq[csvc[d]]
        /\ ccb[d] \in {"armed", "fired"} => cpc[d] \notin Over
        /\ ccb[d] = "fired" => cctx[d] = "done"
  <2>1. \A d \in Calls : Good(d)
    BY DEF Entered
  <2>2. UNCHANGED spc /\ \A d \in Calls \ {c} : SameCall(d)
    BY <1>0, <1>2, OthersKeep
  <2>3. Good(c)' /\ \A d \in Calls \ {c} : Good(d)'
    <3>1. CASE UNCHANGED <<sequence, stopReq>>
      <4>1. \A d \in Calls \ {c} : Good(d)'
        BY <2>1, <2>2, <3>1 DEF SameCall
      <4>2. Good(c)'
        BY <1>0, <1>2, <2>1, <2>2, <3>1, CallMoves DEF CallTypeOK, ServiceTypeOK, Over, None, CallBegins, Callback
      <4> QED
        BY <4>1, <4>2
    <3>2. ASSUME NEW s \in Services, NEW kind \in {"exchange", "stop"}, CallBegins(c, s, kind)
          PROVE  Good(c)' /\ \A d \in Calls \ {c} : Good(d)'
      <4>1. /\ cpc'[c] = "write" /\ csvc'[c] = s /\ ckind'[c] = kind /\ ccb'[c] = "armed"
            /\ cseq'[c] = sequence[s] + 1 /\ sequence'[s] = sequence[s] + 1 /\ cres'[c] = cres[c]
            /\ (stopReq'[s] <=> stopReq[s] \/ kind = "stop")
            /\ \A t \in Services \ {s} : stopReq'[t] = stopReq[t] /\ sequence'[t] = sequence[t]
        BY <1>0, <3>2, Beginning
      <4>2. cpc[c] = "idle" /\ spc[s] = "ok" /\ holder[s] = None /\ sequence[s] \in Nat /\ s # None
        BY <1>0, <3>2, SupervisorAssumption DEF CallBegins, ServiceTypeOK
      <4>3. Good(c)'
        BY <2>1, <2>2, <4>1, <4>2 DEF Over, None
      <4>4. ASSUME NEW d \in Calls \ {c}
            PROVE  Good(d)'
        <5>1. csvc[d] = s => cpc[d] \in Over
          BY <1>0, <4>2, SupervisorAssumption DEF Held
        <5>2. csvc[d] \in Services \cup {None} /\ cseq[d] \in Nat
          BY <1>0 DEF CallTypeOK
        <5>3. SameCall(d) /\ Good(d)
          BY <2>1, <2>2
        <5>4. CASE csvc[d] = s
          BY <2>2, <4>1, <4>2, <5>1, <5>2, <5>3, <5>4 DEF SameCall
        <5>5. CASE csvc[d] # s /\ csvc[d] # None
          BY <2>2, <4>1, <5>2, <5>3, <5>5 DEF SameCall
        <5>6. CASE csvc[d] = None
          <6>1. ckind[d] # "stop"
            BY <5>3, <5>6 DEF None
          <6> QED
            BY <2>2, <5>3, <5>6, <6>1 DEF SameCall, Over
        <5> QED
          BY <5>4, <5>5, <5>6
      <4> QED
        BY <4>3, <4>4
    <3>3. UNCHANGED <<sequence, stopReq>>
          \/ \E s \in Services, kind \in {"exchange", "stop"} : CallBegins(c, s, kind)
      BY <1>2, CallMoves
    <3> QED
      BY <3>1, <3>2, <3>3
  <2>4. \A d \in Calls : Good(d)'
    BY <2>3
  <2> QED
    BY <2>4 DEF Entered
<1>3. CASE UNCHANGED vars
  BY <1>3 DEF vars, Entered
<1> QED
  BY <1>1, <1>2, <1>3 DEF Next, ServiceSteps

\* The first cause stays, and so do stopped and done.
LEMMA Lasting ==
    ASSUME TypeOK, Entered, [Next]_vars, NEW t \in Services
    PROVE  /\ cause[t] # None => cause'[t] = cause[t]
           /\ done[t] => done'[t]
           /\ stopped[t] => stopped'[t]
<1>0. ServiceTypeOK /\ PipeTypeOK /\ CallTypeOK
  BY DEF TypeOK
<1>1. ASSUME NEW s \in Services, NEW why \in Causes, Abort(s, why)
      PROVE  cause[t] # None => cause'[t] = cause[t]
  BY <1>0, <1>1, Aborting
<1>2. ASSUME NEW s \in Services, Starts(s)
      PROVE  (cause[t] # None => cause'[t] = cause[t]) /\ UNCHANGED <<done, stopped>>
  BY <1>1, <1>2 DEF Starts, StartRefused, StartReserve, StartLaunchFails, StartLaunch, StartSend,
     StartReady, StartNotReady, StartReap, StartReapTimeout, StartRelease, Causes
<1>3. ASSUME NEW s \in Services, Background(s)
      PROVE  (cause[t] # None => cause'[t] = cause[t]) /\ (done[t] => done'[t]) /\ UNCHANGED stopped
  <2>1. CASE DoneClosed(s)
    BY <1>0, <2>1 DEF DoneClosed, ServiceTypeOK
  <2> QED
    BY <1>1, <1>3, <2>1 DEF Background, AbortTimer, WatchParent, ProcessReaped, StderrDrained,
       RunnerReleased, Causes
<1>4. ASSUME NEW s \in Services, Waiting(s) \/ Environment(s) \/ ChildRuns(s)
      PROVE  UNCHANGED <<cause, done, stopped>>
  BY <1>4 DEF Waiting, WaitCalled, WaitWakes, WaitAnswers, Environment, ParentCancelled,
     ServiceDeadline, ChildRuns, ChildReady, ChildApplies, ChildStops, ChildExits, ChildFails
<1>5. ASSUME NEW c \in Calls, CallSteps(c)
      PROVE  (cause[t] # None => cause'[t] = cause[t]) /\ UNCHANGED done /\ (stopped[t] => stopped'[t])
  <2>1. FailCause(c) \in Causes /\ (cpc[c] \notin Over => csvc[c] \in Services)
    BY <1>0 DEF FailCause, Causes, Entered, CallTypeOK
  <2>2. CASE CallFails(c) \/ StopReadsEOF(c) \/ StopReapTimeout(c)
    BY <1>1, <2>1, <2>2 DEF CallFails, IOFailed, StopReadsEOF, StopReapTimeout, Causes, Over
  <2>3. CASE StopMarks(c)
    BY <1>0, <2>3 DEF StopMarks, ServiceTypeOK
  <2> QED
    BY <1>5, <2>2, <2>3 DEF CallSteps, CallProceeds, CallRefused, CallBegins, CallWrites, CallReads,
       StopReaps, ContextLapses, ContextEnds, Callback
<1> QED
  BY <1>2, <1>3, <1>4, <1>5 DEF Next, vars

LEMMA LeftStep ==
    ASSUME TypeOK, Entered, Left, [Next]_vars
    PROVE  Left'
<1>0. RunnerTypeOK /\ CallTypeOK /\ ServiceTypeOK /\ PipeTypeOK /\ Held
  BY DEF TypeOK, Held, Over
<1> DEFINE Settled(d) ==
      csvc[d] # None /\ cpc[d] = "returned" =>
          /\ cres[d] # "ok" => cause[csvc[d]] # None \/ done[csvc[d]]
          /\ ckind[d] = "stop" => done[csvc[d]]
<1>1. ASSUME NEW d \in Calls, SameCall(d)
      PROVE  Settled(d)'
  <2>1. csvc[d] \in Services \cup {None} /\ Settled(d)
    BY <1>0 DEF Left, CallTypeOK
  <2> QED
    BY <1>1, <2>1, Lasting DEF SameCall
<1>2. ASSUME NEW s \in Services, ServiceSteps(s)
      PROVE  Left'
  <2>1. \A d \in Calls : SameCall(d)
    BY <1>2, CallsUntouched DEF SameCall
  <2>2. \A d \in Calls : Settled(d)'
    BY <1>1, <2>1
  <2> QED
    BY <2>2 DEF Left
<1>3. ASSUME NEW c \in Calls, CallSteps(c)
      PROVE  Left'
  <2>1. \A d \in Calls \ {c} : Settled(d)'
    BY <1>0, <1>1, <1>3, OthersKeep
  <2>2. FailCause(c) \in Causes /\ (cpc[c] \notin Over => csvc[c] \in Services)
    BY <1>0 DEF FailCause, Causes, Entered, CallTypeOK
  <2>3. Settled(c)'
    <3>1. CASE CallFails(c)
      <4>1. cause'[csvc[c]] # None /\ csvc' = csvc /\ csvc[c] \in Services
        BY <1>0, <2>2, <3>1, Aborting DEF CallFails, IOFailed, Over
      <4>2. CASE ckind[c] = "exchange"
        BY <3>1, <4>1, <4>2 DEF CallFails
      <4>3. CASE cpc' = [cpc EXCEPT ![c] = "reap"]
        BY <1>0, <4>3 DEF CallTypeOK
      <4> QED
        BY <3>1, <4>2, <4>3 DEF CallFails
    <3>2. CASE CallReads(c)
      <4>1. CASE ckind[c] = "exchange" /\ Returns(c, "ok")
        <5>1. cres'[c] = "ok" /\ ckind'[c] = "exchange"
          BY <1>0, <3>2, <4>1 DEF CallReads, Returns, CallTypeOK
        <5> QED
          BY <5>1
      <4>2. CASE cpc' = [cpc EXCEPT ![c] = "eof"]
        BY <1>0, <4>2 DEF CallTypeOK
      <4> QED
        BY <3>2, <4>1, <4>2 DEF CallReads
    <3>3. CASE StopReaps(c)
      BY <3>3 DEF StopReaps
    <3>4. CASE \E s \in Services : CallRefused(c, s)
      BY <3>4 DEF CallRefused, Entered
    <3>5. CASE cpc'[c] # "returned"
      BY <3>5
    <3>6. CASE UNCHANGED <<cpc, csvc, ckind, cseq, cres>>
      <4>1. csvc[c] \in Services \cup {None} /\ Settled(c)
        BY <1>0 DEF Left, CallTypeOK
      <4> QED
        BY <3>6, <4>1, Lasting
    <3> QED
      BY <1>0, <1>3, <3>1, <3>2, <3>3, <3>4, <3>5, <3>6
         DEF CallSteps, CallProceeds, CallBegins, CallWrites, StopReadsEOF, StopMarks, StopReapTimeout,
             ContextLapses, ContextEnds, Callback, CallTypeOK
  <2>4. \A d \in Calls : Settled(d)'
    BY <2>1, <2>3
  <2> QED
    BY <2>4 DEF Left
<1>4. CASE UNCHANGED vars
  BY <1>4 DEF vars, Left
<1> QED
  BY <1>2, <1>3, <1>4 DEF Next, ServiceSteps

LEMMA NumberedStep ==
    ASSUME TypeOK, Entered, Left, Numbered, [Next]_vars
    PROVE  Numbered'
<1>0. CallTypeOK /\ ServiceTypeOK /\ Held
  BY DEF TypeOK, Held, Over
<1>1. ASSUME NEW s \in Services, ServiceSteps(s)
      PROVE  Numbered'
  BY <1>1, CallsUntouched DEF Numbered
<1>2. ASSUME NEW e \in Calls, CallSteps(e)
      PROVE  Numbered'
  <2>1. \A d \in Calls \ {e} : SameCall(d)
    BY <1>0, <1>2, OthersKeep
  <2>2. ASSUME NEW s \in Services, NEW kind \in {"exchange", "stop"}, CallBegins(e, s, kind)
        PROVE  Numbered'
    <3>1. csvc'[e] = s /\ cseq'[e] = sequence[s] + 1 /\ sequence[s] \in Nat
      BY <1>0, <2>2, Beginning DEF ServiceTypeOK
    <3>2. ASSUME NEW d \in Calls \ {e}, csvc[d] = s
          PROVE  cseq[d] \in 1..sequence[s] /\ ckind[d] = "exchange" /\ cres[d] = "ok"
      <4>1. holder[s] = None /\ cause[s] = None /\ ~done[s]
        BY <2>2 DEF CallBegins
      <4>2. s # None /\ holder[s] # d
        BY <4>1, SupervisorAssumption
      <4>3. cpc[d] = "returned"
        BY <1>0, <3>2, <4>2 DEF Held, Over, Entered
      <4> QED
        BY <1>0, <3>2, <4>1, <4>2, <4>3 DEF Left, Entered, CallTypeOK
    <3>3. \A d \in Calls : cseq[d] \in Nat
      BY <1>0 DEF CallTypeOK
    <3> QED
      BY <2>1, <3>1, <3>2, <3>3 DEF Numbered, SameCall
  <2>3. CASE UNCHANGED <<csvc, ckind, cseq>> /\ (csvc[e] = None \/ cres'[e] = cres[e] \/ cres[e] = None)
    <3>1. \A d \in Calls : csvc[d] # None /\ cres[d] = "ok" => cres'[d] = "ok"
      BY <2>1, <2>3 DEF SameCall, None
    <3> QED
      BY <2>3, <3>1 DEF Numbered
  <2>4. CASE cpc[e] = "idle" /\ UNCHANGED <<csvc, ckind, cseq>>
    BY <2>3, <2>4 DEF Entered
  <2>5. cpc[e] \notin Over => cres[e] = None
    BY DEF Entered
  <2> QED
    BY <1>2, <2>2, <2>3, <2>4, <2>5, CallMoves
<1>3. CASE UNCHANGED vars
  BY <1>3 DEF vars, Numbered
<1> QED
  BY <1>1, <1>2, <1>3 DEF Next, ServiceSteps

\* Only the call that holds commandMu, and its service, cut its I/O off.
LEMMA OwnDeadlineStep ==
    ASSUME TypeOK, Entered, OwnDeadlineOnly, [Next]_vars
    PROVE  OwnDeadlineOnly'
<1>0. RunnerTypeOK /\ CallTypeOK /\ PipeTypeOK /\ ServiceTypeOK /\ Held
  BY DEF TypeOK, Held, Over
<1>1. ASSUME NEW s \in Services, ServiceSteps(s)
      PROVE  OwnDeadlineOnly'
  <2>1. UNCHANGED callVars
    BY <1>1, CallsUntouched
  <2>2. CASE Environment(s)
    BY <1>0, <2>1, <2>2 DEF Environment, ParentCancelled, ServiceDeadline, OwnDeadlineOnly, RunnerTypeOK,
       PipeTypeOK
  <2>3. CASE UNCHANGED <<parent, expired>>
    BY <2>1, <2>3 DEF OwnDeadlineOnly
  <2>4. CASE Starts(s)
    BY <2>3, <2>4 DEF Starts, StartRefused, StartReserve, StartLaunchFails, StartLaunch, StartSend,
       StartReady, StartNotReady, StartReap, StartReapTimeout, StartRelease
  <2>5. CASE Background(s) \/ Waiting(s) \/ ChildRuns(s)
    BY <2>3, <2>5 DEF Background, AbortTimer, WatchParent, ProcessReaped, StderrDrained, RunnerReleased,
       DoneClosed, Waiting, WaitCalled, WaitWakes, WaitAnswers, ChildRuns, ChildReady, ChildApplies,
       ChildStops, ChildExits, ChildFails
  <2> QED
    BY <1>1, <2>2, <2>4, <2>5 DEF ServiceSteps
<1>2. ASSUME NEW c \in Calls, CallSteps(c)
      PROVE  OwnDeadlineOnly'
  <2>1. \A d \in Calls \ {c} : cctx'[d] = cctx[d]
    BY <1>0, <1>2, OthersKeep DEF SameCall
  <2>2. UNCHANGED parent
    BY <1>2 DEF CallSteps, CallRefused, CallBegins, CallProceeds, CallWrites, CallFails, CallReads,
       StopReadsEOF, StopMarks, StopReaps, StopReapTimeout, ContextLapses, ContextEnds, Callback
  <2>3. \A d \in Calls : cctx[d] # "live" => cctx'[d] # "live"
    BY <1>0, <1>2, <2>1, CallMoves DEF CallTypeOK
  <2>4. ASSUME UNCHANGED expired, \A s \in Services : holder'[s] = holder[s] \/ holder'[s] = None
        PROVE  OwnDeadlineOnly'
    BY <1>0, <2>2, <2>3, <2>4 DEF OwnDeadlineOnly, CallTypeOK
  <2>5. CASE UNCHANGED <<expired, holder>>
    BY <2>4, <2>5
  <2>6. ASSUME UNCHANGED expired, NEW r, Returns(c, r)
        PROVE  OwnDeadlineOnly'
    <3>1. \A s \in Services : holder'[s] = holder[s] \/ holder'[s] = None
      BY <1>0, <2>6 DEF Returns, CallTypeOK
    <3> QED
      BY <2>4, <2>6, <3>1
  <2>7. CASE CallFails(c) \/ CallReads(c) \/ StopReaps(c)
    BY <2>5, <2>6, <2>7 DEF CallFails, CallReads, StopReaps
  <2>8. ASSUME NEW s \in Services, NEW kind \in {"exchange", "stop"}, CallBegins(c, s, kind)
        PROVE  OwnDeadlineOnly'
    <3>1. /\ ~expired'[s]
          /\ \A t \in Services \ {s} : expired'[t] = expired[t] /\ holder'[t] = holder[t]
      BY <1>0, <2>8 DEF CallBegins, CallTypeOK, PipeTypeOK
    <3> QED
      BY <1>0, <2>2, <2>3, <3>1 DEF OwnDeadlineOnly, CallTypeOK
  <2>9. CASE ContextLapses(c)
    <3>1. /\ cctx'[c] # "live" /\ UNCHANGED holder
          /\ \A t \in Services : expired'[t] => expired[t] \/ holder[t] = c
      BY <1>0, <2>9 DEF ContextLapses, CallTypeOK, PipeTypeOK
    <3> QED
      BY <1>0, <2>2, <2>3, <3>1 DEF OwnDeadlineOnly, CallTypeOK
  <2>10. CASE Callback(c)
    <3>1. csvc[c] \in Services
      BY <1>0, <2>10 DEF Callback, Entered, CallTypeOK
    <3>2. CASE ccb[c] = "fired"
      <4>1. holder[csvc[c]] = c /\ cctx[c] # "live"
        BY <1>0, <3>1, <3>2 DEF Entered, Held
      <4>2. UNCHANGED holder /\ \A t \in Services \ {csvc[c]} : expired'[t] = expired[t]
        BY <1>0, <2>10, <3>1 DEF Callback, PipeTypeOK
      <4> QED
        BY <1>0, <2>2, <2>3, <4>1, <4>2 DEF OwnDeadlineOnly, CallTypeOK
    <3>3. CASE ccb[c] # "fired"
      <4>1. UNCHANGED holder /\ \A t \in Services : expired'[t] = expired[t]
        BY <1>0, <2>10, <3>1, <3>3 DEF Callback, PipeTypeOK
      <4> QED
        BY <1>0, <2>2, <2>3, <4>1 DEF OwnDeadlineOnly, CallTypeOK
    <3> QED
      BY <3>2, <3>3
  <2> QED
    BY <1>2, <2>5, <2>7, <2>8, <2>9, <2>10 DEF CallSteps, CallProceeds, CallRefused, CallWrites,
       StopReadsEOF, StopMarks, StopReapTimeout, ContextEnds
<1>3. CASE UNCHANGED vars
  BY <1>3 DEF vars, OwnDeadlineOnly
<1> QED
  BY <1>1, <1>2, <1>3 DEF Next, ServiceSteps

-----------------------------------------------------------------------------
(* The command loop *)

\* A call that has begun keeps its service, its kind and its number.
LEMMA CallFixed ==
    ASSUME TypeOK, Entered, [Next]_vars, NEW d \in Calls, csvc[d] # None
    PROVE  csvc'[d] = csvc[d] /\ cseq'[d] = cseq[d] /\ ckind'[d] = ckind[d]
<1>0. CallTypeOK
  BY DEF TypeOK
<1>1. ASSUME NEW c \in Calls, CallSteps(c)
      PROVE  csvc'[d] = csvc[d] /\ cseq'[d] = cseq[d] /\ ckind'[d] = ckind[d]
  <2>1. CASE c # d
    BY <1>0, <1>1, <2>1, OthersKeep DEF SameCall
  <2>2. CASE c = d
    BY <1>1, <2>2, CallMoves DEF CallBegins, Entered
  <2> QED
    BY <2>1, <2>2
<1> QED
  BY <1>1, CallsUntouched DEF Next, ServiceSteps, vars

\* The child's loop is all that changes what was applied.
LEMMA LoopOnly ==
    ASSUME ProcessTypeOK, [Next]_vars
    PROVE  \/ \E s \in Services : ChildRuns(s)
           \/ /\ UNCHANGED <<nextSeq, applied>>
              /\ \A t \in Services :
                    \/ child'[t] = child[t]
                    \/ child[t] = "exited" /\ child'[t] = "reaped"
                    \/ child'[t] = "boot" /\ spc[t] = "reserved"
<1>1. ASSUME NEW s \in Services, Starts(s)
      PROVE  /\ UNCHANGED <<nextSeq, applied>>
             /\ \A t \in Services : child'[t] = child[t] \/ (child'[t] = "boot" /\ spc[t] = "reserved")
  <2>1. CASE StartLaunch(s)
    BY <2>1 DEF StartLaunch, ProcessTypeOK
  <2> QED
    BY <1>1, <2>1 DEF Starts, StartRefused, StartReserve, StartLaunchFails, StartSend, StartReady,
       StartNotReady, StartReap, StartReapTimeout, StartRelease
<1>2. ASSUME NEW s \in Services, Background(s)
      PROVE  /\ UNCHANGED <<nextSeq, applied>>
             /\ \A t \in Services : child'[t] = child[t] \/ (child[t] = "exited" /\ child'[t] = "reaped")
  <2>1. CASE ProcessReaped(s)
    BY <2>1 DEF ProcessReaped, ProcessTypeOK
  <2> QED
    BY <1>2, <2>1 DEF Background, AbortTimer, WatchParent, StderrDrained, RunnerReleased, DoneClosed
<1>3. ASSUME NEW s \in Services, Waiting(s) \/ Environment(s)
      PROVE  UNCHANGED <<nextSeq, applied, child>>
  BY <1>3 DEF Waiting, WaitCalled, WaitWakes, WaitAnswers, Environment, ParentCancelled, ServiceDeadline
<1>4. ASSUME NEW c \in Calls, CallSteps(c)
      PROVE  UNCHANGED <<nextSeq, applied, child>>
  BY <1>4 DEF CallSteps, CallRefused, CallBegins, CallProceeds, CallWrites, CallFails, CallReads,
     StopReadsEOF, StopMarks, StopReaps, StopReapTimeout, ContextLapses, ContextEnds, Callback
<1> QED
  BY <1>1, <1>2, <1>3, <1>4 DEF Next, vars

\* Of the pipes, calls write one and read the other; the child does the reverse.
LEMMA InboxOnly ==
    ASSUME PipeTypeOK, CallTypeOK, Entered, [Next]_vars, NEW t \in Services
    PROVE  \/ inbox'[t] = inbox[t]
           \/ inbox[t] # <<>> /\ inbox'[t] = Tail(inbox[t])
           \/ \E c \in Calls : csvc[c] = t /\ inbox'[t] = Append(inbox[t], c)
<1>1. ASSUME NEW s \in Services, ChildApplies(s) \/ ChildStops(s)
      PROVE  inbox'[t] = inbox[t] \/ (inbox[t] # <<>> /\ inbox'[t] = Tail(inbox[t]))
  BY <1>1 DEF ChildApplies, ChildStops, PipeTypeOK
<1>2. ASSUME NEW c \in Calls, CallWrites(c)
      PROVE  inbox'[t] = inbox[t] \/ (csvc[c] = t /\ inbox'[t] = Append(inbox[t], c))
  <2>1. cpc[c] \notin Over
    BY <1>2 DEF CallWrites, Over
  <2>2. csvc[c] \in Services
    BY <2>1 DEF Entered, CallTypeOK
  <2> QED
    BY <1>2, <2>2 DEF CallWrites, PipeTypeOK
<1>3. ASSUME NEW s \in Services, Starts(s) \/ Environment(s)
      PROVE  UNCHANGED inbox
  BY <1>3 DEF Starts, StartRefused, StartReserve, StartLaunchFails, StartLaunch, StartSend, StartReady,
     StartNotReady, StartReap, StartReapTimeout, StartRelease, Environment, ParentCancelled, ServiceDeadline
<1>4. ASSUME NEW s \in Services, Background(s) \/ Waiting(s)
      PROVE  UNCHANGED inbox
  BY <1>4 DEF Background, AbortTimer, WatchParent, ProcessReaped, StderrDrained, RunnerReleased,
     DoneClosed, Waiting, WaitCalled, WaitWakes, WaitAnswers
<1>5. ASSUME NEW s \in Services, ChildReady(s) \/ ChildExits(s) \/ ChildFails(s)
      PROVE  UNCHANGED inbox
  BY <1>5 DEF ChildReady, ChildExits, ChildFails
<1>6. ASSUME NEW c \in Calls, CallSteps(c), ~CallWrites(c)
      PROVE  UNCHANGED inbox
  BY <1>6 DEF CallSteps, CallRefused, CallBegins, CallProceeds, CallFails, CallReads,
     StopReadsEOF, StopMarks, StopReaps, StopReapTimeout, ContextLapses, ContextEnds, Callback
<1> QED
  BY <1>1, <1>2, <1>3, <1>4, <1>5, <1>6 DEF Next, ChildRuns, vars

\* The loop counts what it applies.
LEMMA AppliedStep ==
    ASSUME TypeOK, Lifecycle, Entered, Applied, [Next]_vars
    PROVE  Applied'
<1>0. ProcessTypeOK /\ PipeTypeOK /\ CallTypeOK /\ None \notin Services /\ MaxCommands \in Nat \ {0}
  BY SupervisorAssumption DEF TypeOK
<1>1. ASSUME NEW t \in Services
      PROVE  \A i \in 1..Len(inbox'[t]) : csvc'[inbox'[t][i]] = t
  <2>1. inbox[t] \in Seq(Calls) /\ \A i \in 1..Len(inbox[t]) : csvc[inbox[t][i]] = t
    BY <1>0 DEF PipeTypeOK, Applied
  <2>2. \A d \in Calls : csvc[d] = t => csvc'[d] = t
    BY <1>0, CallFixed
  <2>3. CASE inbox'[t] = inbox[t]
    BY <2>1, <2>2, <2>3
  <2>4. CASE inbox[t] # <<>> /\ inbox'[t] = Tail(inbox[t])
    BY <2>1, <2>2, <2>4, Taking
  <2>5. ASSUME NEW c \in Calls, csvc[c] = t, inbox'[t] = Append(inbox[t], c)
        PROVE  \A i \in 1..Len(inbox'[t]) : csvc'[inbox'[t][i]] = t
    BY <2>1, <2>2, <2>5, Appending
  <2> QED
    BY <1>0, <2>3, <2>4, <2>5, InboxOnly
<1>2. ASSUME NEW t \in Services, applied'[t] = applied[t], nextSeq'[t] = nextSeq[t]
      PROVE  /\ nextSeq'[t] = Len(applied'[t]) + 1
             /\ \A i \in 1..Len(applied'[t]) :
                   LET c == applied'[t][i] IN csvc'[c] = t /\ cseq'[c] = i /\ ckind'[c] = "exchange"
  <2>1. applied[t] \in Seq(Calls)
    BY <1>0 DEF ProcessTypeOK
  <2>2. \A d \in Calls : csvc[d] = t => csvc'[d] = t /\ cseq'[d] = cseq[d] /\ ckind'[d] = ckind[d]
    BY <1>0, CallFixed
  <2> QED
    BY <1>2, <2>1, <2>2 DEF Applied
<1>3. CASE /\ UNCHANGED <<nextSeq, applied>>
           /\ \A t \in Services :
                 \/ child'[t] = child[t]
                 \/ child[t] = "exited" /\ child'[t] = "reaped"
                 \/ child'[t] = "boot" /\ spc[t] = "reserved"
  <2>1. ASSUME NEW t \in Services
        PROVE  child'[t] \in {None, "boot", "serving"} => nextSeq'[t] <= MaxCommands
    BY <1>3 DEF Applied, Lifecycle, None
  <2> QED
    BY <1>1, <1>2, <1>3, <2>1 DEF Applied
<1>4. ASSUME NEW s \in Services, ChildRuns(s)
      PROVE  Applied'
  <2>1. CASE ChildApplies(s)
    <3>1. /\ Head(inbox[s]) \in Calls /\ csvc[Head(inbox[s])] = s /\ cseq[Head(inbox[s])] = nextSeq[s]
          /\ ckind[Head(inbox[s])] = "exchange" /\ applied[s] \in Seq(Calls)
      BY <1>0, <2>1, Taking DEF ChildApplies, Applied, PipeTypeOK, ProcessTypeOK
    <3>2. /\ applied'[s] = Append(applied[s], Head(inbox[s])) /\ nextSeq'[s] = nextSeq[s] + 1
          /\ \A t \in Services \ {s} : applied'[t] = applied[t] /\ nextSeq'[t] = nextSeq[t]
      BY <1>0, <2>1 DEF ChildApplies, ProcessTypeOK
    <3>3. /\ nextSeq'[s] = Len(applied'[s]) + 1
          /\ \A i \in 1..Len(applied'[s]) :
                LET c == applied'[s][i] IN csvc'[c] = s /\ cseq'[c] = i /\ ckind'[c] = "exchange"
      <4>1. \A d \in Calls : csvc[d] = s => csvc'[d] = s /\ cseq'[d] = cseq[d] /\ ckind'[d] = ckind[d]
        BY <1>0, CallFixed
      <4>2. \A i \in 1..Len(applied[s]) :
               applied[s][i] \in Calls /\ csvc[applied[s][i]] = s /\ cseq[applied[s][i]] = i
               /\ ckind[applied[s][i]] = "exchange"
        BY <3>1 DEF Applied
      <4>3. nextSeq[s] = Len(applied[s]) + 1
        BY DEF Applied
      <4> QED
        BY <3>1, <3>2, <4>1, <4>2, <4>3, Appending
    <3>4. child'[s] \in {None, "boot", "serving"} => nextSeq'[s] <= MaxCommands
      <4>1. CASE nextSeq[s] = MaxCommands
        <5>1. child'[s] = "exited"
          BY <1>0, <2>1, <4>1 DEF ChildApplies, Reply, Exit, ProcessTypeOK
        <5> QED
          BY <5>1 DEF None
      <4>2. CASE nextSeq[s] # MaxCommands
        <5>1. nextSeq[s] \in Nat /\ nextSeq[s] <= MaxCommands
          BY <1>0, <2>1 DEF ChildApplies, Applied, ProcessTypeOK
        <5> QED
          BY <1>0, <3>2, <4>2, <5>1
      <4> QED
        BY <4>1, <4>2
    <3>5. \A t \in Services \ {s} : child'[t] = child[t]
      BY <1>0, <1>4, ChildMoves
    <3>6. ASSUME NEW t \in Services \ {s}
          PROVE  child'[t] \in {None, "boot", "serving"} => nextSeq'[t] <= MaxCommands
      BY <3>2, <3>5, <3>6 DEF Applied
    <3>7. ASSUME NEW t \in Services
          PROVE  /\ nextSeq'[t] = Len(applied'[t]) + 1
                 /\ child'[t] \in {None, "boot", "serving"} => nextSeq'[t] <= MaxCommands
                 /\ \A i \in 1..Len(applied'[t]) :
                       LET c == applied'[t][i] IN csvc'[c] = t /\ cseq'[c] = i /\ ckind'[c] = "exchange"
      <4>1. CASE t = s
        BY <3>3, <3>4, <4>1
      <4>2. CASE t # s
        BY <1>2, <3>2, <3>6, <4>2
      <4> QED
        BY <4>1, <4>2
    <3> QED
      BY <1>1, <3>7 DEF Applied
  <2>2. CASE ~ChildApplies(s)
    <3>1. UNCHANGED <<nextSeq, applied>>
      BY <1>4, <2>2 DEF ChildRuns, ChildReady, ChildStops, ChildExits, ChildFails
    <3>2. /\ child[s] \in Alive /\ child'[s] \in Alive \cup {"exited"}
          /\ child[s] = "stopping" => child'[s] \in {"stopping", "exited"}
          /\ \A t \in Services \ {s} : child'[t] = child[t]
      BY <1>0, <1>4, ChildMoves
    <3> QED
      BY <1>1, <1>2, <3>1, <3>2 DEF Applied, Alive, None
  <2> QED
    BY <2>1, <2>2
<1> QED
  BY <1>0, <1>3, <1>4, LoopOnly

\* What was applied stays so, and nothing more is once the child is leaving.
LEMMA AppliedLasts ==
    ASSUME TypeOK, Lifecycle, Applied, [Next]_vars, NEW t \in Services
    PROVE  /\ Len(applied[t]) \in Nat /\ Len(applied'[t]) \in Nat /\ Len(applied[t]) <= Len(applied'[t])
           /\ \A i \in 1..Len(applied[t]) : applied'[t][i] = applied[t][i]
           /\ child[t] \in Gone => child'[t] \in Gone /\ applied'[t] = applied[t]
<1>0. ProcessTypeOK /\ PipeTypeOK /\ applied[t] \in Seq(Calls)
  BY DEF TypeOK, ProcessTypeOK
<1>1. CASE UNCHANGED <<nextSeq, applied>> /\ \/ child'[t] = child[t]
                                             \/ child[t] = "exited" /\ child'[t] = "reaped"
                                             \/ child'[t] = "boot" /\ spc[t] = "reserved"
  <2>1. child'[t] = "boot" /\ spc[t] = "reserved" => child[t] \notin Gone
    BY DEF Lifecycle, Gone, None
  <2> QED
    BY <1>0, <1>1, <2>1 DEF Gone
<1>2. ASSUME NEW s \in Services, ChildRuns(s)
      PROVE  /\ Len(applied[t]) \in Nat /\ Len(applied'[t]) \in Nat /\ Len(applied[t]) <= Len(applied'[t])
             /\ \A i \in 1..Len(applied[t]) : applied'[t][i] = applied[t][i]
             /\ child[t] \in Gone => child'[t] \in Gone /\ applied'[t] = applied[t]
  <2>1. child[t] \in Gone => child'[t] \in Gone
    BY <1>0, <1>2, ChildMoves DEF Gone, Alive
  <2>2. CASE applied'[t] = applied[t]
    BY <1>0, <2>1, <2>2
  <2>3. CASE ChildApplies(s) /\ s = t
    <3>1. /\ applied'[t] = Append(applied[t], Head(inbox[t])) /\ child[t] = "serving"
          /\ inbox[t] # <<>> /\ inbox[t] \in Seq(Calls)
      BY <1>0, <2>3 DEF ChildApplies, ProcessTypeOK, PipeTypeOK
    <3>2. Head(inbox[t]) \in Calls
      BY <3>1, Taking
    <3> QED
      BY <1>0, <3>1, <3>2, Appending DEF Gone
  <2>4. applied'[t] = applied[t] \/ (ChildApplies(s) /\ s = t)
    BY <1>0, <1>2 DEF ChildRuns, ChildReady, ChildApplies, ChildStops, ChildExits, ChildFails, ProcessTypeOK
  <2> QED
    BY <2>2, <2>3, <2>4
<1> QED
  BY <1>0, <1>1, <1>2, LoopOnly

\* What a step does to the output pipe.
LEMMA OutboxOnly ==
    ASSUME PipeTypeOK, ProcessTypeOK, CallTypeOK, Entered, [Next]_vars, NEW t \in Services
    PROVE  \/ outbox'[t] = outbox[t]
           \/ outbox[t] # <<>> /\ outbox'[t] = Tail(outbox[t])
           \/ ChildReady(t) /\ outbox'[t] = Append(outbox[t], 0)
           \/ ChildApplies(t) /\ outbox'[t] = Append(outbox[t], nextSeq[t])
           \/ ChildStops(t) /\ outbox'[t] = Append(outbox[t], nextSeq[t])
<1>1. ASSUME NEW s \in Services, NEW n, NEW to, Reply(s, n, to)
      PROVE  /\ outbox'[s] = outbox[s] \/ outbox'[s] = Append(outbox[s], n)
             /\ \A u \in Services \ {s} : outbox'[u] = outbox[u]
  BY <1>1 DEF Reply, PipeTypeOK
<1>2. ASSUME NEW s \in Services, ChildReady(s)
      PROVE  outbox'[t] = outbox[t] \/ (s = t /\ outbox'[t] = Append(outbox[t], 0))
  BY <1>1, <1>2 DEF ChildReady
<1>3. ASSUME NEW s \in Services, ChildApplies(s) \/ ChildStops(s)
      PROVE  outbox'[t] = outbox[t] \/ (s = t /\ outbox'[t] = Append(outbox[t], nextSeq[t]))
  BY <1>1, <1>3 DEF ChildApplies, ChildStops
<1>4. ASSUME NEW s \in Services, StartReady(s)
      PROVE  outbox'[t] = outbox[t] \/ (outbox[t] # <<>> /\ outbox'[t] = Tail(outbox[t]))
  BY <1>4 DEF StartReady, PipeTypeOK
<1>5. ASSUME NEW c \in Calls, CallReads(c)
      PROVE  outbox'[t] = outbox[t] \/ (outbox[t] # <<>> /\ outbox'[t] = Tail(outbox[t]))
  <2>1. cpc[c] \notin Over
    BY <1>5 DEF CallReads, Over
  <2>2. csvc[c] \in Services
    BY <2>1 DEF Entered, CallTypeOK
  <2> QED
    BY <1>5, <2>2 DEF CallReads, PipeTypeOK
<1>6. ASSUME NEW s \in Services, Starts(s), ~StartReady(s)
      PROVE  UNCHANGED outbox
  BY <1>6 DEF Starts, StartRefused, StartReserve, StartLaunchFails, StartLaunch, StartSend,
     StartNotReady, StartReap, StartReapTimeout, StartRelease
<1>7. ASSUME NEW s \in Services, Background(s) \/ Waiting(s) \/ Environment(s)
      PROVE  UNCHANGED outbox
  BY <1>7 DEF Background, AbortTimer, WatchParent, ProcessReaped, StderrDrained, RunnerReleased,
     DoneClosed, Waiting, WaitCalled, WaitWakes, WaitAnswers, Environment, ParentCancelled, ServiceDeadline
<1>8. ASSUME NEW s \in Services, ChildExits(s) \/ ChildFails(s)
      PROVE  UNCHANGED outbox
  BY <1>8 DEF ChildExits, ChildFails
<1>9. ASSUME NEW c \in Calls, CallSteps(c), ~CallReads(c)
      PROVE  UNCHANGED outbox
  BY <1>9 DEF CallSteps, CallRefused, CallBegins, CallProceeds, CallWrites, CallFails,
     StopReadsEOF, StopMarks, StopReaps, StopReapTimeout, ContextLapses, ContextEnds, Callback
<1> QED
  BY <1>2, <1>3, <1>4, <1>5, <1>6, <1>7, <1>8, <1>9 DEF Next, ChildRuns, vars

\* A number on the output pipe keeps its meaning until it is read.
LEMMA RepliedStep ==
    ASSUME TypeOK, Lifecycle, Entered, Applied, Replied, [Next]_vars
    PROVE  Replied'
<1>0. ProcessTypeOK /\ PipeTypeOK /\ CallTypeOK /\ None \notin Services
  BY SupervisorAssumption DEF TypeOK
<1>1. SUFFICES ASSUME NEW t \in Services
      PROVE  \A i \in 1..Len(outbox'[t]) :
                \/ outbox'[t][i] <= Len(applied'[t])
                \/ /\ outbox'[t][i] = Len(applied'[t]) + 1 /\ child'[t] \in Gone
                   /\ \E c \in Calls : csvc'[c] = t /\ ckind'[c] = "stop" /\ cseq'[c] = outbox'[t][i]
  BY DEF Replied, IsStop
<1> DEFINE WasStop(c, n) == csvc'[c] = t /\ ckind'[c] = "stop" /\ cseq'[c] = n
           Fits(n) == \/ n <= Len(applied[t])
                      \/ /\ n = Len(applied[t]) + 1 /\ child[t] \in Gone
                         /\ \E c \in Calls : IsStop(c, t, n)
           After(n) == \/ n <= Len(applied'[t])
                       \/ /\ n = Len(applied'[t]) + 1 /\ child'[t] \in Gone
                          /\ \E c \in Calls : WasStop(c, n)
<1>2. \A c \in Calls, n \in Nat : IsStop(c, t, n) => WasStop(c, n)
  BY <1>0, CallFixed DEF IsStop
<1>3. ASSUME NEW n \in Nat, Fits(n)
      PROVE  After(n)
  BY <1>2, <1>3, AppliedLasts
<1>4. outbox[t] \in Seq(Nat) /\ \A i \in 1..Len(outbox[t]) : outbox[t][i] \in Nat /\ Fits(outbox[t][i])
  BY <1>0 DEF PipeTypeOK, Replied
<1>5. \A i \in 1..Len(outbox[t]) : After(outbox[t][i])
  BY <1>3, <1>4
<1>6. CASE outbox'[t] = outbox[t]
  BY <1>5, <1>6
<1>7. CASE outbox[t] # <<>> /\ outbox'[t] = Tail(outbox[t])
  <2>1. \A i \in 1..Len(outbox'[t]) : After(outbox'[t][i])
    BY <1>4, <1>5, <1>7, Taking
  <2> QED
    BY <2>1
<1>8. ASSUME NEW n \in Nat, After(n), outbox'[t] = Append(outbox[t], n)
      PROVE  \A i \in 1..Len(outbox'[t]) : After(outbox'[t][i])
  BY <1>4, <1>5, <1>8, Appending
<1>9. After(0)
  BY AppliedLasts
<1>10. nextSeq[t] \in Nat /\ nextSeq[t] = Len(applied[t]) + 1
  BY <1>0 DEF ProcessTypeOK, Applied
<1>11. CASE ChildApplies(t) /\ outbox'[t] = Append(outbox[t], nextSeq[t])
  <2>1. inbox[t] \in Seq(Calls) /\ inbox[t] # <<>> /\ applied[t] \in Seq(Calls)
        /\ applied'[t] = Append(applied[t], Head(inbox[t]))
    BY <1>0, <1>11 DEF ChildApplies, ProcessTypeOK, PipeTypeOK
  <2>2. Len(applied'[t]) = Len(applied[t]) + 1
    BY <2>1, Taking, Appending
  <2>3. After(nextSeq[t])
    BY <1>10, <2>2
  <2> QED
    BY <1>8, <1>10, <1>11, <2>3
<1>12. CASE ChildStops(t) /\ outbox'[t] = Append(outbox[t], nextSeq[t])
  <2>1. inbox[t] \in Seq(Calls) /\ inbox[t] # <<>> /\ UNCHANGED <<applied, csvc, cseq, ckind>>
        /\ cseq[Head(inbox[t])] = nextSeq[t] /\ ckind[Head(inbox[t])] = "stop"
    BY <1>0, <1>12 DEF ChildStops, PipeTypeOK
  <2>2. Head(inbox[t]) \in Calls /\ csvc[Head(inbox[t])] = t
    BY <2>1, Taking DEF Applied
  <2>3. WasStop(Head(inbox[t]), nextSeq[t])
    BY <2>1, <2>2 DEF IsStop
  <2>4. child'[t] \in Gone
    BY <1>0, <1>12 DEF ChildStops, Reply, Exit, ProcessTypeOK, Gone
  <2>5. After(nextSeq[t])
    BY <1>10, <2>1, <2>2, <2>3, <2>4
  <2> QED
    BY <1>8, <1>10, <1>12, <2>5
<1> QED
  BY <1>0, <1>6, <1>7, <1>8, <1>9, <1>11, <1>12, OutboxOnly

\* A reply that carries a call's number is the reply to that call.
LEMMA ReplyIsOwn ==
    ASSUME TypeOK, Entered, Numbered, Applied, Replied, NEW c \in Calls, CallReads(c)
    PROVE  /\ csvc[c] \in Services
           /\ ckind[c] = "exchange" =>
                  cseq[c] <= Len(applied[csvc[c]]) /\ applied[csvc[c]][cseq[c]] = c
           /\ ckind[c] = "stop" =>
                  cseq[c] = Len(applied[csvc[c]]) + 1 /\ child[csvc[c]] \in Gone
<1>0. ProcessTypeOK /\ PipeTypeOK /\ CallTypeOK /\ None \notin Services
  BY SupervisorAssumption DEF TypeOK
<1>1. cpc[c] \notin Over
  BY DEF CallReads, Over
<1>2. csvc[c] \in Services /\ csvc[c] # None /\ cseq[c] \in Nat \ {0}
  BY <1>0, <1>1 DEF Entered, CallTypeOK
<1> DEFINE s == csvc[c]
<1>3. outbox[s] \in Seq(Nat) /\ outbox[s] # <<>> /\ Head(outbox[s]) = cseq[c]
  BY <1>0, <1>2 DEF CallReads, PipeTypeOK
<1>4. 1 \in 1..Len(outbox[s]) /\ outbox[s][1] = cseq[c]
  BY <1>3, Taking
<1>5. ASSUME NEW d \in Calls, csvc[d] = s, cseq[d] = cseq[c]
      PROVE  d = c
  BY <1>2, <1>5 DEF Numbered
<1>6. \/ cseq[c] <= Len(applied[s])
      \/ /\ cseq[c] = Len(applied[s]) + 1 /\ child[s] \in Gone
         /\ \E d \in Calls : IsStop(d, s, cseq[c])
  BY <1>2, <1>4 DEF Replied
<1>7. CASE cseq[c] <= Len(applied[s])
  <2>1. applied[s] \in Seq(Calls) /\ cseq[c] \in 1..Len(applied[s])
    BY <1>0, <1>2, <1>7 DEF ProcessTypeOK
  <2>2. /\ applied[s][cseq[c]] \in Calls /\ csvc[applied[s][cseq[c]]] = s
        /\ cseq[applied[s][cseq[c]]] = cseq[c] /\ ckind[applied[s][cseq[c]]] = "exchange"
    BY <1>2, <2>1 DEF Applied
  <2>3. applied[s][cseq[c]] = c
    BY <1>5, <2>2
  <2> QED
    BY <1>2, <1>7, <2>2, <2>3
<1>8. CASE /\ cseq[c] = Len(applied[s]) + 1 /\ child[s] \in Gone
           /\ \E d \in Calls : IsStop(d, s, cseq[c])
  BY <1>2, <1>5, <1>8 DEF IsStop
<1> QED
  BY <1>6, <1>7, <1>8

LEMMA AnsweredStep ==
    ASSUME TypeOK, Lifecycle, Entered, Numbered, Applied, Replied, Answered, [Next]_vars
    PROVE  Answered'
<1>0. CallTypeOK /\ ServiceTypeOK /\ None \notin Services
  BY SupervisorAssumption DEF TypeOK
<1> DEFINE Known(d) == ckind[d] = "exchange" /\ cres[d] = "ok" =>
                           cseq[d] <= Len(applied[csvc[d]]) /\ applied[csvc[d]][cseq[d]] = d
           Ended(d) == cpc[d] \in {"eof", "mark"} \/ (ckind[d] = "stop" /\ stopped[csvc[d]]) =>
                           cseq[d] = Len(applied[csvc[d]]) + 1 /\ child[csvc[d]] \in Gone
<1>1. \A d \in Calls : Known(d) /\ Ended(d)
  BY DEF Answered
<1>2. ASSUME NEW d \in Calls, csvc[d] # None
      PROVE  /\ csvc[d] \in Services /\ cseq[d] \in Nat \ {0}
             /\ csvc'[d] = csvc[d] /\ cseq'[d] = cseq[d] /\ ckind'[d] = ckind[d]
             /\ Len(applied[csvc[d]]) \in Nat
             /\ Len(applied'[csvc[d]]) \in Nat /\ Len(applied[csvc[d]]) <= Len(applied'[csvc[d]])
             /\ \A i \in 1..Len(applied[csvc[d]]) : applied'[csvc[d]][i] = applied[csvc[d]][i]
             /\ child[csvc[d]] \in Gone => child'[csvc[d]] \in Gone /\ applied'[csvc[d]] = applied[csvc[d]]
  <2>1. csvc[d] \in Services /\ cseq[d] \in Nat \ {0}
    BY <1>0, <1>2 DEF Entered, CallTypeOK, ServiceTypeOK
  <2> QED
    BY <1>2, <2>1, CallFixed, AppliedLasts
<1>3. ASSUME NEW d \in Calls, csvc[d] # None, cres'[d] = "ok" => cres[d] = "ok"
      PROVE  Known(d)'
  BY <1>1, <1>2, <1>3
<1>4. ASSUME NEW d \in Calls, csvc[d] # None,
             cpc'[d] \in {"eof", "mark"} => cpc[d] \in {"eof", "mark"},
             ckind[d] = "stop" /\ stopped'[csvc[d]] => stopped[csvc[d]] \/ cpc[d] = "mark"
      PROVE  Ended(d)'
  BY <1>1, <1>2, <1>4
<1>5. ASSUME NEW d \in Calls, csvc'[d] = None, ckind'[d] = None, cpc'[d] \in Over
      PROVE  Known(d)' /\ Ended(d)'
  BY <1>5 DEF None, Over
<1>6. \A d \in Calls : csvc[d] = None => ckind[d] = None /\ cpc[d] \in Over
  BY DEF Entered
<1>7. ASSUME \A d \in Calls : SameCall(d), UNCHANGED stopped
      PROVE  \A d \in Calls : Known(d)' /\ Ended(d)'
  BY <1>3, <1>4, <1>5, <1>6, <1>7 DEF SameCall
<1>8. ASSUME NEW s \in Services, ServiceSteps(s)
      PROVE  \A d \in Calls : Known(d)' /\ Ended(d)'
  BY <1>7, <1>8, CallsUntouched DEF SameCall
<1>9. ASSUME NEW c \in Calls, CallSteps(c)
      PROVE  \A d \in Calls : Known(d)' /\ Ended(d)'
  <2>1. \A d \in Calls \ {c} : SameCall(d)
    BY <1>0, <1>9, OthersKeep
  <2>2. ASSUME NEW d \in Calls \ {c}
        PROVE  Known(d)' /\ Ended(d)'
    <3>1. CASE csvc[d] = None
      BY <1>5, <1>6, <2>1, <3>1 DEF SameCall
    <3>2. CASE csvc[d] # None /\ StopMarks(c)
      <4>1. csvc[c] \in Services /\ csvc[c] # None /\ ckind[c] = "stop"
        BY <1>0, <3>2 DEF StopMarks, Entered, CallTypeOK, Over
      <4>2. ckind[d] = "stop" => csvc[d] # csvc[c]
        <5>1. cseq[c] \in Nat /\ cseq[d] \in Nat
          BY <1>0 DEF CallTypeOK
        <5> QED
          BY <4>1, <5>1 DEF Numbered
      <4>3. ckind[d] = "stop" /\ stopped'[csvc[d]] => stopped[csvc[d]]
        BY <1>0, <1>2, <3>2, <4>2 DEF StopMarks, ServiceTypeOK
      <4> QED
        BY <1>3, <1>4, <2>1, <3>2, <4>3 DEF SameCall
    <3>3. CASE csvc[d] # None /\ UNCHANGED stopped
      BY <1>3, <1>4, <2>1, <3>3 DEF SameCall
    <3> QED
      BY <1>9, <3>1, <3>2, <3>3 DEF CallSteps, CallRefused, CallBegins, CallProceeds, CallWrites,
         CallFails, CallReads, StopReadsEOF, StopReaps, StopReapTimeout, ContextLapses, ContextEnds, Callback
  <2>3. Known(c)' /\ Ended(c)'
    <3>1. CASE CallReads(c)
      <4>1. csvc[c] \in Services /\ csvc[c] # None /\ UNCHANGED <<applied, child, csvc, cseq, ckind, stopped>>
        BY <1>0, <3>1, ReplyIsOwn DEF CallReads
      <4>2. Known(c)'
        BY <3>1, <4>1, ReplyIsOwn
      <4>3. CASE ckind[c] = "stop"
        BY <3>1, <4>1, <4>2, <4>3, ReplyIsOwn
      <4>4. CASE ckind[c] = "exchange" /\ Returns(c, "ok")
        <5>1. cpc'[c] = "returned"
          BY <1>0, <4>4 DEF Returns, CallTypeOK
        <5> QED
          BY <4>1, <4>2, <4>4, <5>1
      <4> QED
        BY <3>1, <4>3, <4>4 DEF CallReads
    <3>2. ASSUME NEW s \in Services, NEW kind \in {"exchange", "stop"}, CallBegins(c, s, kind)
          PROVE  Known(c)' /\ Ended(c)'
      <4>1. cpc'[c] = "write" /\ csvc'[c] = s /\ cres'[c] = cres[c]
        BY <1>0, <3>2, Beginning
      <4>2. cres[c] = None /\ ~stopped'[s]
        BY <3>2 DEF CallBegins, Entered
      <4> QED
        BY <4>1, <4>2 DEF None
    <3>3. CASE \E s \in Services : CallRefused(c, s)
      BY <1>0, <3>3 DEF CallRefused, Entered, CallTypeOK, None, Over
    <3>4. CASE CallFails(c)
      <4>1. cpc[c] \notin Over /\ FailCause(c) # "ok" /\ UNCHANGED stopped
        BY <3>4 DEF CallFails, IOFailed, FailCause, Over
      <4>2. csvc[c] # None /\ cres[c] # "ok"
        BY <4>1 DEF Entered, None
      <4>3. cpc'[c] \notin {"eof", "mark"} /\ cres'[c] # "ok"
        BY <1>0, <3>4, <4>1, <4>2 DEF CallFails, Returns, CallTypeOK
      <4> QED
        BY <1>3, <1>4, <4>1, <4>2, <4>3
    <3>5. CASE StopReaps(c)
      <4>1. /\ cpc[c] \notin Over /\ ckind[c] = "stop" /\ UNCHANGED <<stopped, ckind>> /\ cpc'[c] = "returned"
        BY <1>0, <3>5 DEF StopReaps, Returns, CallTypeOK, Over, Entered
      <4>2. csvc[c] # None
        BY <4>1 DEF Entered
      <4>3. Ended(c)'
        BY <1>4, <4>1, <4>2
      <4> QED
        BY <4>1, <4>3
    <3>6. CASE CallWrites(c) \/ StopReadsEOF(c) \/ StopMarks(c)
      <4>1. cpc[c] \notin Over /\ UNCHANGED cres
        BY <3>6 DEF CallWrites, StopReadsEOF, StopMarks, Over
      <4>2. csvc[c] # None
        BY <4>1 DEF Entered
      <4>3. cpc'[c] \in {"eof", "mark"} => cpc[c] \in {"eof", "mark"}
        BY <1>0, <3>6 DEF CallWrites, StopReadsEOF, StopMarks, CallTypeOK
      <4>4. stopped'[csvc[c]] => stopped[csvc[c]] \/ cpc[c] = "mark"
        BY <3>6 DEF CallWrites, StopReadsEOF, StopMarks
      <4> QED
        BY <1>3, <1>4, <4>1, <4>2, <4>3, <4>4
    <3>7. CASE UNCHANGED <<cpc, csvc, ckind, cseq, cres, stopped>>
      BY <1>3, <1>4, <1>5, <1>6, <3>7
    <3> QED
      BY <1>9, <3>1, <3>2, <3>3, <3>4, <3>5, <3>6, <3>7 DEF CallSteps, CallProceeds, StopReapTimeout,
         ContextLapses, ContextEnds, Callback
  <2> QED
    BY <2>2, <2>3
<1>10. ASSUME UNCHANGED vars
       PROVE  \A d \in Calls : Known(d)' /\ Ended(d)'
  BY <1>7, <1>10 DEF vars, SameCall
<1>11. \A d \in Calls : Known(d)' /\ Ended(d)'
  BY <1>8, <1>9, <1>10 DEF Next, ServiceSteps
<1> QED
  BY <1>11 DEF Answered

-----------------------------------------------------------------------------
(* How a service ends *)

\* A reaped process has its exit status; its stderr is settled with done.
LEMMA Reaped ==
    ASSUME TypeOK, Lifecycle, [Next]_vars, NEW t \in Services, child[t] = "reaped"
    PROVE  /\ child'[t] = "reaped" /\ exitOK'[t] = exitOK[t]
           /\ noisy[t] => noisy'[t]
           /\ done[t] => noisy'[t] = noisy[t]
<1>0. ProcessTypeOK /\ ServiceTypeOK
  BY DEF TypeOK
<1>1. wpc[t] # None /\ wpc[t] # "wait" /\ (done[t] => wpc[t] = "over")
  BY DEF Lifecycle, None
<1>2. ASSUME NEW s \in Services, Starts(s)
      PROVE  child'[t] = child[t] /\ UNCHANGED <<exitOK, noisy>>
  <2>1. CASE StartLaunch(s)
    <3>1. s # t
      BY <1>1, <2>1 DEF StartLaunch, Lifecycle
    <3> QED
      BY <1>0, <2>1, <3>1 DEF StartLaunch, ProcessTypeOK
  <2> QED
    BY <1>2, <2>1 DEF Starts, StartRefused, StartReserve, StartLaunchFails, StartSend, StartReady,
       StartNotReady, StartReap, StartReapTimeout, StartRelease
<1>3. ASSUME NEW s \in Services, Background(s)
      PROVE  /\ child'[t] = child[t] /\ UNCHANGED exitOK /\ (noisy[t] => noisy'[t])
             /\ (done[t] => noisy'[t] = noisy[t])
  <2>1. CASE ProcessReaped(s)
    <3>1. s # t
      BY <1>1, <2>1 DEF ProcessReaped
    <3> QED
      BY <1>0, <2>1, <3>1 DEF ProcessReaped, ProcessTypeOK
  <2>2. CASE StderrDrained(s)
    <3>1. done[t] => s # t
      BY <1>1, <2>2 DEF StderrDrained
    <3> QED
      BY <1>0, <2>2, <3>1 DEF StderrDrained, ProcessTypeOK
  <2> QED
    BY <1>3, <2>1, <2>2 DEF Background, AbortTimer, WatchParent, RunnerReleased, DoneClosed
<1>4. ASSUME NEW s \in Services, ChildRuns(s)
      PROVE  child'[t] = child[t] /\ exitOK'[t] = exitOK[t] /\ noisy'[t] = noisy[t]
  <2>1. s # t
    BY <1>0, <1>4, ChildMoves DEF Alive
  <2> QED
    BY <1>0, <1>4, <2>1, ChildMoves
<1>5. ASSUME NEW s \in Services, Waiting(s) \/ Environment(s)
      PROVE  UNCHANGED <<child, exitOK, noisy>>
  BY <1>5 DEF Waiting, WaitCalled, WaitWakes, WaitAnswers, Environment, ParentCancelled, ServiceDeadline
<1>6. ASSUME NEW c \in Calls, CallSteps(c)
      PROVE  UNCHANGED <<child, exitOK, noisy>>
  BY <1>6 DEF CallSteps, CallRefused, CallBegins, CallProceeds, CallWrites, CallFails, CallReads,
     StopReadsEOF, StopMarks, StopReaps, StopReapTimeout, ContextLapses, ContextEnds, Callback
<1> QED
  BY <1>2, <1>3, <1>4, <1>5, <1>6 DEF Next, vars

\* Who aborts a service, and who kills its process group.
LEMMA Blaming ==
    ASSUME TypeOK, Entered, [Next]_vars, NEW t \in Services, cause'[t] # cause[t]
    PROVE  \/ spc[t] \in {"send", "await"}
           \/ cause'[t] = "parent"
           \/ \E c \in Calls : cpc[c] \notin Over /\ csvc[c] = t
<1>0. ServiceTypeOK /\ PipeTypeOK /\ CallTypeOK
  BY DEF TypeOK
<1>1. ASSUME NEW s \in Services, NEW why \in Causes, Abort(s, why)
      PROVE  s = t
  BY <1>0, <1>1, Aborting
<1>2. ASSUME NEW s \in Services, Starts(s)
      PROVE  spc[t] \in {"send", "await"}
  BY <1>1, <1>2 DEF Starts, StartRefused, StartReserve, StartLaunchFails, StartLaunch, StartSend,
     StartReady, StartNotReady, StartReap, StartReapTimeout, StartRelease, Causes
<1>3. ASSUME NEW s \in Services, Background(s)
      PROVE  cause'[t] = "parent"
  <2>1. CASE WatchParent(s) /\ Abort(s, "parent")
    <3>1. s = t
      BY <1>1, <2>1 DEF Causes
    <3> QED
      BY <1>0, <2>1, <3>1 DEF Abort, ServiceTypeOK
  <2> QED
    BY <1>3, <2>1 DEF Background, AbortTimer, WatchParent, ProcessReaped, StderrDrained,
       RunnerReleased, DoneClosed
<1>4. ASSUME NEW s \in Services, Waiting(s) \/ Environment(s) \/ ChildRuns(s)
      PROVE  UNCHANGED cause
  BY <1>4 DEF Waiting, WaitCalled, WaitWakes, WaitAnswers, Environment, ParentCancelled,
     ServiceDeadline, ChildRuns, ChildReady, ChildApplies, ChildStops, ChildExits, ChildFails
<1>5. ASSUME NEW c \in Calls, CallSteps(c)
      PROVE  cpc[c] \notin Over /\ csvc[c] = t
  <2>1. FailCause(c) \in Causes /\ (cpc[c] \notin Over => csvc[c] \in Services)
    BY <1>0 DEF FailCause, Causes, Entered, CallTypeOK
  <2>2. CASE CallFails(c)
    BY <1>1, <2>1, <2>2 DEF CallFails, IOFailed, Over
  <2>3. CASE StopReadsEOF(c) \/ StopReapTimeout(c)
    BY <1>1, <2>1, <2>3 DEF StopReadsEOF, StopReapTimeout, Causes, Over
  <2> QED
    BY <1>5, <2>2, <2>3 DEF CallSteps, CallProceeds, CallRefused, CallBegins, CallWrites, CallReads,
       StopMarks, StopReaps, ContextLapses, ContextEnds, Callback
<1> QED
  BY <1>2, <1>3, <1>4, <1>5 DEF Next, vars

LEMMA Killing ==
    ASSUME TypeOK, Lifecycle, Entered, [Next]_vars, NEW t \in Services, killed'[t] # killed[t]
    PROVE  \/ cause[t] # None /\ (~done[t] \/ spc[t] = "reap")
           \/ cause'[t] # None /\ ~done[t]
           \/ noisy'[t] /\ child[t] = "reaped" /\ ~done[t]
<1>0. ServiceTypeOK /\ PipeTypeOK /\ CallTypeOK /\ ProcessTypeOK
  BY DEF TypeOK
<1>1. ASSUME NEW s \in Services, Starts(s)
      PROVE  spc[t] = "reap"
  BY <1>0, <1>1 DEF Starts, StartRefused, StartReserve, StartLaunchFails, StartLaunch, StartSend,
     StartReady, StartNotReady, StartReap, StartReapTimeout, StartRelease, ProcessTypeOK
<1>2. ASSUME NEW s \in Services, Background(s)
      PROVE  timer[t] = "armed" \/ (wpc[t] = "drain" /\ noisy'[t])
  <2>1. CASE AbortTimer(s)
    BY <1>0, <2>1 DEF AbortTimer, ProcessTypeOK
  <2>2. CASE StderrDrained(s)
    BY <1>0, <2>2 DEF StderrDrained, ProcessTypeOK
  <2> QED
    BY <1>2, <2>1, <2>2 DEF Background, WatchParent, ProcessReaped, RunnerReleased, DoneClosed
<1>3. ASSUME NEW s \in Services, Waiting(s) \/ Environment(s) \/ ChildRuns(s)
      PROVE  UNCHANGED killed
  BY <1>3 DEF Waiting, WaitCalled, WaitWakes, WaitAnswers, Environment, ParentCancelled,
     ServiceDeadline, ChildRuns, ChildReady, ChildApplies, ChildStops, ChildExits, ChildFails
<1>4. ASSUME NEW c \in Calls, CallSteps(c)
      PROVE  cause'[t] # None /\ ~done[t]
  <2>1. cpc[c] \notin Over => csvc[c] \in Services
    BY <1>0 DEF Entered, CallTypeOK
  <2>2. CASE StopReapTimeout(c)
    <3>1. csvc[c] = t /\ Abort(t, "timeout") /\ ~done[t]
      BY <1>0, <2>1, <2>2 DEF StopReapTimeout, ProcessTypeOK, Over
    <3> QED
      BY <1>0, <3>1, Aborting DEF Causes
  <2> QED
    BY <1>4, <2>2 DEF CallSteps, CallProceeds, CallRefused, CallBegins, CallWrites, CallFails, CallReads,
       StopReadsEOF, StopMarks, StopReaps, ContextLapses, ContextEnds, Callback
<1>5. /\ timer[t] = "armed" => cause[t] # None /\ ~done[t]
      /\ wpc[t] = "drain" => child[t] = "reaped" /\ ~done[t]
      /\ spc[t] = "reap" => cause[t] # None
  BY DEF Lifecycle
<1> QED
  BY <1>1, <1>2, <1>3, <1>4, <1>5 DEF Next, vars

\* What moves Wait on, and how Stop's marks are set.
LEMMA WaitMoves ==
    ASSUME TypeOK, Entered, [Next]_vars, NEW t \in Services
    PROVE  /\ \/ qpc'[t] = qpc[t] /\ qres'[t] = qres[t]
              \/ qpc[t] = "idle" /\ qpc'[t] = "blocked" /\ qres'[t] = qres[t]
              \/ /\ qpc[t] = "blocked" /\ done[t] /\ qres'[t] = qres[t]
                 /\ \/ qpc'[t] = "terminal"
                    \/ qpc'[t] = "answer" /\ ~(stopReq[t] /\ ~stopped[t] /\ cause[t] = None)
                 /\ UNCHANGED <<cause, stopReq, stopped, exitOK, noisy>>
              \/ /\ qpc[t] = "answer" \/ (qpc[t] = "terminal" /\ tdone[t])
                 /\ qpc'[t] = "returned" /\ qres'[t] = WaitResult(t)
                 /\ UNCHANGED <<cause, stopReq, stopped, exitOK, noisy>>
           /\ stopReq'[t] => stopReq[t] \/ ~done[t]
           /\ stopped'[t] => stopped[t] \/ stopReq[t]
<1>0. ServiceTypeOK /\ CallTypeOK
  BY DEF TypeOK
<1>1. ASSUME NEW s \in Services, Waiting(s)
      PROVE  \/ qpc'[t] = qpc[t] /\ qres'[t] = qres[t]
             \/ qpc[t] = "idle" /\ qpc'[t] = "blocked" /\ qres'[t] = qres[t]
             \/ /\ qpc[t] = "blocked" /\ done[t] /\ qres'[t] = qres[t]
                /\ \/ qpc'[t] = "terminal"
                   \/ qpc'[t] = "answer" /\ ~(stopReq[t] /\ ~stopped[t] /\ cause[t] = None)
                /\ UNCHANGED <<cause, stopReq, stopped, exitOK, noisy>>
             \/ /\ qpc[t] = "answer" \/ (qpc[t] = "terminal" /\ tdone[t])
                /\ qpc'[t] = "returned" /\ qres'[t] = WaitResult(t)
                /\ UNCHANGED <<cause, stopReq, stopped, exitOK, noisy>>
  <2>1. CASE WaitCalled(s)
    BY <1>0, <2>1 DEF WaitCalled, ServiceTypeOK
  <2>2. CASE WaitWakes(s)
    BY <1>0, <2>2 DEF WaitWakes, ServiceTypeOK
  <2>3. CASE WaitAnswers(s)
    BY <1>0, <2>3 DEF WaitAnswers, ServiceTypeOK
  <2> QED
    BY <1>1, <2>1, <2>2, <2>3 DEF Waiting
<1>2. ASSUME NEW s \in Services, Starts(s) \/ Environment(s)
      PROVE  UNCHANGED waitVars
  BY <1>2 DEF Starts, StartRefused, StartReserve, StartLaunchFails, StartLaunch, StartSend, StartReady,
     StartNotReady, StartReap, StartReapTimeout, StartRelease, Environment, ParentCancelled, ServiceDeadline
<1>3. ASSUME NEW s \in Services, Background(s) \/ ChildRuns(s)
      PROVE  UNCHANGED waitVars
  BY <1>3 DEF Background, AbortTimer, WatchParent, ProcessReaped, StderrDrained, RunnerReleased,
     DoneClosed, ChildRuns, ChildReady, ChildApplies, ChildStops, ChildExits, ChildFails
<1>4. ASSUME NEW c \in Calls, CallSteps(c)
      PROVE  UNCHANGED waitVars
  BY <1>4 DEF CallSteps, CallRefused, CallBegins, CallProceeds, CallWrites, CallFails, CallReads,
     StopReadsEOF, StopMarks, StopReaps, StopReapTimeout, ContextLapses, ContextEnds, Callback
<1>5. ASSUME NEW s \in Services, ServiceSteps(s)
      PROVE  UNCHANGED <<stopReq, stopped>>
  BY <1>5, CallsUntouched
<1>6. ASSUME NEW c \in Calls, CallSteps(c)
      PROVE  /\ stopReq'[t] => stopReq[t] \/ ~done[t]
             /\ stopped'[t] => stopped[t] \/ stopReq[t]
  <2>1. ASSUME NEW s \in Services, NEW kind \in {"exchange", "stop"}, CallBegins(c, s, kind)
        PROVE  (stopReq'[t] => stopReq[t] \/ ~done[t]) /\ UNCHANGED stopped
    <3>1. ~done[s] /\ UNCHANGED stopped /\ \A u \in Services \ {s} : stopReq'[u] = stopReq[u]
      BY <1>0, <2>1, Beginning DEF CallBegins
    <3> QED
      BY <3>1
  <2>2. CASE StopMarks(c)
    <3>1. ckind[c] = "stop" /\ stopReq[csvc[c]]
      BY <2>2 DEF StopMarks, Entered
    <3> QED
      BY <1>0, <2>2, <3>1 DEF StopMarks, ServiceTypeOK
  <2> QED
    BY <1>6, <2>1, <2>2 DEF CallSteps, CallProceeds, CallRefused, CallWrites, CallFails, CallReads,
       StopReadsEOF, StopReaps, StopReapTimeout, ContextLapses, ContextEnds, Callback
<1>7. \/ \E s \in Services : ServiceSteps(s)
      \/ \E c \in Calls : CallSteps(c)
      \/ UNCHANGED vars
  BY DEF Next, ServiceSteps
<1>8. /\ stopReq'[t] => stopReq[t] \/ ~done[t]
      /\ stopped'[t] => stopped[t] \/ stopReq[t]
  BY <1>5, <1>6, <1>7 DEF vars
<1> QED
  BY <1>1, <1>2, <1>3, <1>4, <1>7, <1>8 DEF ServiceSteps, vars

\* Only Stop's own reaping makes a Stop succeed.
LEMMA StopSucceeds ==
    ASSUME TypeOK, Entered, [Next]_vars, NEW c \in Calls, ckind'[c] = "stop", cres'[c] = "ok"
    PROVE  \/ ckind[c] = "stop" /\ cres[c] = "ok"
           \/ StopReaps(c) /\ csvc[c] \in Services /\ WaitResult(csvc[c]) = "ok" /\ ckind[c] = "stop"
<1>0. CallTypeOK /\ ServiceTypeOK
  BY DEF TypeOK
<1>1. ASSUME NEW d \in Calls, CallSteps(d)
      PROVE  \/ ckind[c] = "stop" /\ cres[c] = "ok"
             \/ StopReaps(c) /\ csvc[c] \in Services /\ WaitResult(csvc[c]) = "ok" /\ ckind[c] = "stop"
  <2>1. CASE c # d
    BY <1>0, <1>1, <2>1, OthersKeep DEF SameCall
  <2>2. CASE c = d /\ StopReaps(d)
    <3>1. cpc[c] \notin Over /\ ckind[c] = "stop"
      BY <2>2 DEF StopReaps, Over, Entered
    <3>2. csvc[c] \in Services
      BY <1>0, <3>1 DEF Entered, CallTypeOK
    <3> QED
      BY <1>0, <2>2, <3>1, <3>2 DEF StopReaps, Returns, CallTypeOK
  <2>3. ASSUME c = d, NEW s \in Services, NEW kind \in {"exchange", "stop"}, CallBegins(c, s, kind)
        PROVE  FALSE
    BY <1>0, <2>3, Beginning DEF CallBegins, Entered, None
  <2>4. CASE c = d /\ CallReads(d)
    BY <1>0, <2>4 DEF CallReads, Returns, CallTypeOK
  <2>5. CASE c = d /\ CallFails(d)
    <3>1. FailCause(c) # "ok"
      BY DEF FailCause
    <3> QED
      BY <1>0, <2>5, <3>1 DEF CallFails, Returns, CallTypeOK
  <2>6. CASE c = d /\ \E s \in Services : CallRefused(c, s)
    BY <1>0, <2>6 DEF CallRefused, CallTypeOK
  <2>7. CASE UNCHANGED <<ckind, cres>>
    BY <2>7
  <2> QED
    BY <1>1, <2>1, <2>2, <2>3, <2>4, <2>5, <2>6, <2>7 DEF CallSteps, CallProceeds, CallWrites,
       StopReadsEOF, StopMarks, StopReapTimeout, ContextLapses, ContextEnds, Callback
<1> QED
  BY <1>1, CallsUntouched DEF Next, ServiceSteps, vars

LEMMA VerdictStep ==
    ASSUME TypeOK, Lifecycle, Entered, Left, Numbered, Verdict, [Next]_vars
    PROVE  Verdict'
<1>0. ProcessTypeOK /\ ServiceTypeOK /\ CallTypeOK /\ None \notin Services
  BY SupervisorAssumption DEF TypeOK
<1> DEFINE Blamed(s)  == killed[s] => cause[s] # None \/ (noisy[s] /\ child[s] = "reaped")
           Woken(s)   == /\ qpc[s] \in {"terminal", "answer", "returned"} => done[s]
                         /\ qpc[s] \in {"answer", "returned"} /\ stopReq[s] => stopped[s] \/ cause[s] # None
                         /\ qpc[s] # "returned" => qres[s] = None
           Told(s)    == qpc[s] = "returned" /\ cause[s] = None => qres[s] = WaitResult(s)
           Clean(s)   == /\ stopped[s] /\ exitOK[s] /\ ~noisy[s] /\ ~killed[s]
                         /\ cause[s] \in {None, "parent"} /\ qres[s] \in {None, "ok", "parent"}
<1>1. /\ \A s \in Services : Blamed(s) /\ Woken(s) /\ Told(s)
      /\ \A c \in Calls : ckind[c] = "stop" /\ cres[c] = "ok" => Clean(csvc[c])
  BY DEF Verdict
<1>2. ASSUME NEW t \in Services
      PROVE  Blamed(t)'
  <2>1. CASE killed'[t] # killed[t]
    <3>1. \/ cause[t] # None \/ cause'[t] # None
          \/ noisy'[t] /\ child[t] = "reaped"
      BY <2>1, Killing
    <3> QED
      BY <3>1, Lasting, Reaped
  <2>2. CASE killed'[t] = killed[t]
    <3>1. killed'[t] => killed[t]
      BY <2>2
    <3>2. Blamed(t)
      BY <1>1
    <3> QED
      BY <3>1, <3>2, Lasting, Reaped
  <2> QED
    BY <2>1, <2>2
<1>3. ASSUME NEW t \in Services
      PROVE  Woken(t)'
  <2>1. tdone[t] => cause[t] # None \/ stopped[t]
    BY DEF Lifecycle
  <2>2. Woken(t) /\ qpc[t] \in {"idle", "blocked", "terminal", "answer", "returned"}
    BY <1>0, <1>1 DEF ServiceTypeOK
  <2> QED
    BY <2>1, <2>2, Lasting, WaitMoves
<1>4. ASSUME NEW t \in Services, done[t]
      PROVE  child[t] = "reaped" /\ child'[t] = "reaped" /\ exitOK'[t] = exitOK[t] /\ noisy'[t] = noisy[t]
  BY <1>4, Reaped DEF Lifecycle
<1>5. ASSUME NEW t \in Services
      PROVE  Told(t)'
  <2>1. SUFFICES ASSUME qpc'[t] = "returned", cause'[t] = None
        PROVE  qres'[t] = WaitResult(t)'
    OBVIOUS
  <2>2. cause[t] = None
    BY <2>1, Lasting
  <2>3. CASE qpc[t] = "returned"
    <3>1. done[t] /\ qres[t] = WaitResult(t) /\ qres'[t] = qres[t]
      BY <1>1, <2>2, <2>3, WaitMoves
    <3>2. stopped'[t] <=> stopped[t]
      BY <1>1, <2>2, <2>3, WaitMoves, Lasting
    <3>3. exitOK'[t] = exitOK[t] /\ noisy'[t] = noisy[t]
      BY <1>4, <3>1
    <3> QED
      BY <2>1, <2>2, <3>1, <3>2, <3>3 DEF WaitResult
  <2>4. CASE qpc[t] # "returned"
    <3>1. qres'[t] = WaitResult(t) /\ UNCHANGED <<cause, stopped, exitOK, noisy>>
      BY <2>1, <2>4, WaitMoves
    <3> QED
      BY <3>1 DEF WaitResult
  <2> QED
    BY <2>3, <2>4
<1>6. ASSUME NEW c \in Calls, ckind'[c] = "stop", cres'[c] = "ok"
      PROVE  Clean(csvc[c])' /\ csvc'[c] = csvc[c]
  <2>1. CASE ckind[c] = "stop" /\ cres[c] = "ok"
    <3>1. csvc[c] \in Services /\ csvc[c] # None /\ cpc[c] = "returned" /\ spc[csvc[c]] = "ok"
      BY <1>0, <2>1 DEF Entered, CallTypeOK, None, Over
    <3>2. done[csvc[c]] /\ Clean(csvc[c]) /\ csvc'[c] = csvc[c]
      BY <1>1, <2>1, <3>1, CallFixed DEF Left
    <3>3. killed'[csvc[c]] = killed[csvc[c]]
      BY <3>1, <3>2, Killing
    <3>4. cause'[csvc[c]] \in {None, "parent"}
      <4>1. ASSUME NEW d \in Calls, cpc[d] \notin Over, csvc[d] = csvc[c]
            PROVE  FALSE
        <5>1. cres[d] = None /\ d # c /\ cseq[d] \in Nat /\ cseq[c] \in Nat
          BY <1>0, <3>1, <4>1 DEF Entered, CallTypeOK, Over
        <5> QED
          BY <2>1, <3>1, <4>1, <5>1 DEF Numbered, None
      <4> QED
        BY <3>1, <3>2, <4>1, Blaming
    <3>5. stopped'[csvc[c]] /\ exitOK'[csvc[c]] /\ ~noisy'[csvc[c]]
      BY <1>4, <3>1, <3>2, Lasting
    <3>6. qres'[csvc[c]] \in {None, "ok", "parent"}
      <4>1. WaitResult(csvc[c]) \in {"ok", "parent"}
        BY <3>1, <3>2 DEF WaitResult, None
      <4> QED
        BY <3>1, <3>2, <4>1, WaitMoves
    <3> QED
      BY <3>2, <3>3, <3>4, <3>5, <3>6
  <2>2. CASE StopReaps(c) /\ csvc[c] \in Services /\ WaitResult(csvc[c]) = "ok"
    <3>1. /\ UNCHANGED <<cause, stopped, exitOK, noisy, killed, qres, csvc>> /\ done[csvc[c]]
      BY <2>2 DEF StopReaps
    <3>2. cause[csvc[c]] = None /\ stopped[csvc[c]] /\ exitOK[csvc[c]] /\ ~noisy[csvc[c]]
      BY <1>0, <2>2 DEF WaitResult, ServiceTypeOK, Causes, None
    <3>3. ~killed[csvc[c]]
      BY <1>1, <2>2, <3>2
    <3>4. qres[csvc[c]] \in {None, "ok"}
      BY <1>1, <2>2, <3>2
    <3> QED
      BY <3>1, <3>2, <3>3, <3>4
  <2> QED
    BY <1>6, <2>1, <2>2, StopSucceeds
<1> QED
  BY <1>2, <1>3, <1>5, <1>6 DEF Verdict

-----------------------------------------------------------------------------
(* Theorems *)

LEMMA TypeStep ==
    ASSUME TypeOK, Entered, Applied, [Next]_vars
    PROVE  TypeOK'
<1>1. RunnerTypeOK /\ ProcessTypeOK /\ PipeTypeOK /\ ServiceTypeOK /\ CallTypeOK /\ Held
  BY DEF TypeOK, Held, Over
<1>2. RunnerTypeOK' /\ ProcessTypeOK' /\ PipeTypeOK' /\ ServiceTypeOK' /\ CallTypeOK' /\ Held'
  BY <1>1, RunnerTyped, ProcessTyped, PipeTyped, ServiceTyped, CallTyped
<1> QED
  BY <1>2 DEF TypeOK, Held, Over

LEMMA Initially ==
    Init => IInv
<1> SUFFICES ASSUME Init PROVE IInv
  OBVIOUS
<1>0. MaxCommands \in Nat \ {0} /\ None \notin Services \cup Calls
  BY SupervisorAssumption
<1>1. RunnerTypeOK /\ ServiceTypeOK
  BY DEF Init, RunnerTypeOK, ServiceTypeOK, Starting, None
<1>2. ProcessTypeOK /\ PipeTypeOK
  BY <1>0 DEF Init, ProcessTypeOK, PipeTypeOK, Alive
<1>3. CallTypeOK /\ Held
  BY <1>0 DEF Init, CallTypeOK, Held, Over
<1>4. TypeOK
  BY <1>1, <1>2, <1>3 DEF TypeOK, Held, Over
<1>5. Lifecycle
  BY DEF Init, Lifecycle, None
<1>6. Entered /\ Left /\ Numbered
  BY DEF Init, Entered, Left, Numbered, Over, None
<1>7. Applied /\ Replied
  BY <1>0 DEF Init, Applied, Replied
<1>8. Answered /\ OwnDeadlineOnly /\ Verdict
  BY DEF Init, Answered, OwnDeadlineOnly, Verdict, None
<1>9. TakingTurns /\ GivenBack
  BY DEF Init, TakingTurns, GivenBack, Occupies, Starting, None
<1> QED
  BY <1>4, <1>5, <1>6, <1>7, <1>8, <1>9 DEF IInv

\* The inductive invariant: every interleaving of Start, the calls, Wait, abort,
\* waitProcess, watchParent and the child's loop keeps all its parts.
THEOREM SupervisorInvariance == Spec => []IInv
<1>1. IInv /\ [Next]_vars => IInv'
  <2> SUFFICES ASSUME IInv, [Next]_vars PROVE IInv'
    OBVIOUS
  <2>0. /\ TypeOK /\ Lifecycle /\ Entered /\ Left /\ Numbered
        /\ Applied /\ Replied /\ Answered /\ OwnDeadlineOnly /\ Verdict /\ TakingTurns /\ GivenBack
    BY DEF IInv
  <2>1. TypeOK' /\ Lifecycle' /\ Entered' /\ Left' /\ Numbered'
    BY <2>0, TypeStep, LifecycleStep, EnteredStep, LeftStep, NumberedStep
  <2>2. Applied' /\ Replied' /\ Answered'
    BY <2>0, AppliedStep, RepliedStep, AnsweredStep
  <2>3. OwnDeadlineOnly' /\ Verdict' /\ TakingTurns' /\ GivenBack'
    BY <2>0, OwnDeadlineStep, VerdictStep, TakingTurnsStep, GivenBackStep
  <2> QED
    BY <2>1, <2>2, <2>3 DEF IInv
<1> QED
  BY <1>1, Initially, PTL DEF Spec

\* Every variable keeps its type, commandMu is held by the call in progress, and
\* the child's counter stays within the limit of its loop.
THEOREM SupervisorTyped == Spec => []TypeOK
<1>1. IInv => TypeOK
  BY DEF IInv
<1> QED
  BY <1>1, SupervisorInvariance, PTL

\* exchange: a reply is the answer to the call that reads it, and to no other,
\* and nothing is applied after an exchange whose outcome is not known.
THEOREM ExchangeIsAlwaysExact == Spec => []ExchangeIsExact
<1>1. ASSUME IInv
      PROVE  ExchangeIsExact
  <2>0. Answered /\ Numbered /\ Entered /\ CallTypeOK
    BY <1>1 DEF IInv, TypeOK
  <2>1. ASSUME NEW c \in Calls, ckind[c] = "exchange", cres[c] = "ok"
        PROVE  /\ Len(applied[csvc[c]]) >= cseq[c] /\ applied[csvc[c]][cseq[c]] = c
               /\ \A d \in Calls :
                     csvc[d] = csvc[c] /\ 0 < cseq[d] /\ cseq[d] < cseq[c] => cres[d] = "ok"
    <3>1. csvc[c] # None /\ cseq[c] \in Nat /\ \A d \in Calls : cseq[d] \in Nat
      BY <2>0, <2>1 DEF Entered, CallTypeOK, None
    <3>2. csvc[c] \in Services
      BY <2>0, <3>1 DEF CallTypeOK
    <3>3. Len(applied[csvc[c]]) \in Nat
      BY <1>1, <3>2 DEF IInv, TypeOK, ProcessTypeOK
    <3> QED
      BY <2>0, <2>1, <3>1, <3>3 DEF Answered, Numbered
  <2> QED
    BY <2>1 DEF ExchangeIsExact
<1> QED
  BY <1>1, SupervisorInvariance, PTL

\* watchOperationCancellation: a callback that runs late cuts no other call off.
THEOREM DeadlinesAreAlwaysOwn == Spec => []OwnDeadlineOnly
<1>1. IInv => OwnDeadlineOnly
  BY DEF IInv
<1> QED
  BY <1>1, SupervisorInvariance, PTL

\* Stop: success means that every command was answered and that the child left
\* by itself, whatever Wait, watchParent and the timers were doing meanwhile.
THEOREM StopIsAlwaysGraceful == Spec => []GracefulStop
<1>1. ASSUME IInv
      PROVE  GracefulStop
  <2>0. Answered /\ Verdict /\ Entered /\ Left /\ Lifecycle /\ CallTypeOK
    BY <1>1 DEF IInv, TypeOK
  <2>1. ASSUME NEW c \in Calls, ckind[c] = "stop", cres[c] = "ok"
        PROVE  /\ child[csvc[c]] = "reaped" /\ exitOK[csvc[c]] /\ ~noisy[csvc[c]] /\ ~killed[csvc[c]]
               /\ Len(applied[csvc[c]]) = cseq[c] - 1
               /\ qres[csvc[c]] \in {None, "ok", "parent"}
    <3>1. csvc[c] \in Services /\ csvc[c] # None /\ cpc[c] = "returned"
      BY <2>0, <2>1 DEF Entered, CallTypeOK, None, Over
    <3>2. done[csvc[c]] /\ child[csvc[c]] = "reaped"
      BY <2>0, <2>1, <3>1 DEF Left, Lifecycle
    <3>3. /\ stopped[csvc[c]] /\ exitOK[csvc[c]] /\ ~noisy[csvc[c]] /\ ~killed[csvc[c]]
          /\ qres[csvc[c]] \in {None, "ok", "parent"}
      BY <2>0, <2>1 DEF Verdict
    <3>4. cseq[c] = Len(applied[csvc[c]]) + 1
      BY <2>0, <2>1, <3>3 DEF Answered
    <3>5. Len(applied[csvc[c]]) \in Nat
      BY <1>1, <3>1 DEF IInv, TypeOK, ProcessTypeOK
    <3> QED
      BY <3>2, <3>3, <3>4, <3>5
  <2> QED
    BY <2>1 DEF GracefulStop
<1> QED
  BY <1>1, SupervisorInvariance, PTL

\* Start: an error is returned only once the process is reaped, its pipes are
\* closed and the reservation is given up (FailedStartLeavesNothing).
THEOREM FailedStartAlwaysLeavesNothing == Spec => []FailedStartLeavesNothing
<1>1. IInv => FailedStartLeavesNothing
  <2> SUFFICES ASSUME IInv PROVE FailedStartLeavesNothing
    OBVIOUS
  <2>0. Lifecycle /\ GivenBack /\ RunnerTypeOK
    BY DEF IInv, TypeOK
  <2>1. ASSUME NEW s \in Services, spc[s] = "error", child[s] # None
        PROVE  child[s] = "reaped" /\ done[s] /\ ~ctlOpen[s] /\ ~outOpen[s]
    BY <2>0, <2>1 DEF Lifecycle, GivenBack
  <2>2. ASSUME NEW s \in Services, Owns(s)
        PROVE  spc[s] \in Starting \/ (spc[s] = "ok" /\ ~done[s])
    <3>1. wpc[s] \in {"wait", "drain", "release"} => spc[s] \notin {"idle", "error"} /\ ~done[s]
      BY <2>0 DEF Lifecycle, None
    <3> QED
      BY <2>0, <2>2, <3>1 DEF Owns, Starting, RunnerTypeOK
  <2>3. active => \E s \in Services : spc[s] \in Starting \/ (spc[s] = "ok" /\ ~done[s])
    BY <2>0, <2>2 DEF GivenBack
  <2> QED
    BY <2>1, <2>3 DEF FailedStartLeavesNothing
<1> QED
  BY <1>1, SupervisorInvariance, PTL

\* The active flag alone keeps a runner's services apart when its owner does not
\* overlap two Starts; without that restriction release lets them overlap.
THEOREM SequentialStartsNeverOverlap ==
    ASSUME Sequential
    PROVE  Spec => []OneServiceAtATime
<1>1. IInv => OneServiceAtATime
  <2> SUFFICES ASSUME IInv, NEW s \in Services, NEW t \in Services, s # t,
                      child[s] \in Alive \cup {"exited"}, child[t] \in Alive \cup {"exited"}
               PROVE  FALSE
    BY DEF OneServiceAtATime
  <2>1. Lifecycle /\ TakingTurns /\ ServiceTypeOK
    BY DEF IInv, TypeOK
  <2>2. wpc[s] = "wait" /\ wpc[t] = "wait"
    BY <2>1 DEF Lifecycle, ServiceTypeOK, Alive, None
  <2> QED
    BY <2>1, <2>2 DEF TakingTurns, Occupies
<1> QED
  BY <1>1, SupervisorInvariance, PTL

=============================================================================
