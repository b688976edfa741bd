---------------------------- MODULE PhaseMachine ----------------------------
(***************************************************************************)
(* protocol.PhaseMachine and the OutputEncoder under it                     *)
(* (internal/protocol/machine.go, output.go): the order in which one        *)
(* adapter process may write protocol records to stdout.                    *)
(*                                                                         *)
(* A record keeps its message type, sequence number and case (0 for none).  *)
(* A case is its position in the locked list of its phase.  Every method    *)
(* runs under the machine's mutex and is one action; a method called in the *)
(* wrong state fails the machine.  A method has returned an error exactly   *)
(* when it leaves the machine failed, except ConsumeInvocation, which may   *)
(* also return one after it has written its own terminal record.            *)
(***************************************************************************)
EXTENDS Integers, Sequences, FiniteSets

CONSTANTS
    Phases,      \* phases of the locked profile
    CaseCount,   \* number of cases of each phase
    MaxSequence, \* MaxAdapterOutputSequence
    MaxRecords   \* MaxAdapterOutputRecords, the startup record included

ASSUME ProfileAssumption ==
    /\ CaseCount \in [Phases -> Nat \ {0}]
    /\ MaxSequence \in Nat /\ MaxRecords = MaxSequence + 1
    /\ \A p \in Phases : 2 * CaseCount[p] + 2 <= MaxSequence

VARIABLES
    mstate,     \* PhaseMachine.state
    phase,      \* accepted phase, "none" before
    nextCase,   \* cases with a result
    nextSeq,    \* PhaseMachine.nextSequence
    skipped,    \* anyNotExecuted
    efailed,    \* OutputEncoder.failed
    out         \* complete records written to stdout

machineVars == <<mstate, phase, nextCase, nextSeq, skipped, efailed, out>>

Awaiting == {"awaiting-next-scenario", "awaiting-started-result", "awaiting-terminal"}
MachineStates == Awaiting \cup
    {"awaiting-startup", "ready-for-invocation", "awaiting-invocation-acceptance",
     "terminal-observed", "terminal-eof-observed", "complete", "failed"}
Terminals == {"completed", "stopped", "protocol_error"}
MessageTypes == Terminals \cup
    {"startup", "invocation_accepted", "scenario_started", "result_completed",
     "result_not_executed"}

Rec(type, seq, case) == [type |-> type, seq |-> seq, case |-> case]

\* Every variable has its type.
MachineTypeOK ==
    /\ mstate \in MachineStates
    /\ phase \in Phases \cup {"none"}
    /\ nextCase \in Nat
    /\ nextSeq \in 1..(MaxSequence + 1)
    /\ skipped \in BOOLEAN
    /\ efailed \in BOOLEAN
    /\ out \in Seq([type : MessageTypes, seq : Nat, case : Nat])

\* NewPhaseMachine
MachineInit ==
    /\ mstate = "awaiting-startup" /\ phase = "none"
    /\ nextCase = 0 /\ nextSeq = 1
    /\ skipped = FALSE /\ efailed = FALSE
    /\ out = <<>>

-----------------------------------------------------------------------------
(* Writing *)

\* invalidTransition: an illegal call fails the machine unless it is over.
InvalidTransition ==
    /\ mstate' = IF mstate = "complete" THEN mstate ELSE "failed"
    /\ UNCHANGED <<phase, nextCase, nextSeq, skipped, efailed, out>>

\* OutputEncoder.Write refuses after a failure and at the record limit, and
\* fails when stdout does, after any part of the record.
EncoderAccepts == ~efailed /\ Len(out) < MaxRecords

\* Mutant: the last sequence number is never used.
WithinLimitsOffByOne == nextSeq < MaxSequence /\ EncoderAccepts

\* PhaseMachine.write: the sequence limit, then the encoder.
WithinLimits == nextSeq <= MaxSequence /\ EncoderAccepts

Write(type, case, to) ==
    /\ WithinLimits
    /\ out' = Append(out, Rec(type, nextSeq, case))
    /\ nextSeq' = nextSeq + 1
    /\ mstate' = to
    /\ UNCHANGED efailed

WriteFails ==
    /\ mstate' = "failed"
    /\ efailed' = (efailed \/ nextSeq <= MaxSequence)
    /\ UNCHANGED <<nextSeq, out>>

-----------------------------------------------------------------------------
(* Methods *)

Start ==
    /\ mstate = "awaiting-startup"
    /\ \/ /\ EncoderAccepts
          /\ out' = Append(out, Rec("startup", 0, 0))
          /\ mstate' = "ready-for-invocation"
          /\ UNCHANGED efailed
       \/ mstate' = "failed" /\ efailed' = TRUE /\ UNCHANGED out
    /\ UNCHANGED <<phase, nextCase, nextSeq, skipped>>

\* A well formed invocation of a known phase whose channels match.
ConsumeInvocation(p) ==
    /\ mstate = "ready-for-invocation"
    /\ mstate' = "awaiting-invocation-acceptance"
    /\ phase' = p
    /\ UNCHANGED <<nextCase, nextSeq, skipped, efailed, out>>

\* Anything else is answered by one terminal record (writeInvalidInvocation).
ConsumeInvalidInvocation ==
    /\ mstate = "ready-for-invocation"
    /\ \/ Write("protocol_error", 0, "terminal-observed")
       \/ WriteFails
    /\ UNCHANGED <<phase, nextCase, skipped>>

AcceptInvocation ==
    /\ mstate = "awaiting-invocation-acceptance" /\ phase # "none" /\ nextSeq = 1
    /\ \/ Write("invocation_accepted", 0, "awaiting-next-scenario")
       \/ WriteFails
    /\ UNCHANGED <<phase, nextCase, skipped>>

\* ErrScenarioOrder fails the machine without a record.
OutOfOrder(c) == nextCase >= CaseCount[phase] \/ c # nextCase + 1

StartScenario(c) ==
    /\ mstate = "awaiting-next-scenario"
    /\ IF OutOfOrder(c) THEN InvalidTransition
       ELSE /\ \/ Write("scenario_started", c, "awaiting-started-result")
               \/ WriteFails
            /\ UNCHANGED <<phase, nextCase, skipped>>

\* Mutant: a started case may be given up and a case that was not started
\* reported as completed.
AnyDisposition(disposition) == disposition \in {"completed", "not_executed"}

\* A started case completes; a case that was not started is not executed.
DispositionFits(disposition) ==
    disposition = (IF mstate = "awaiting-started-result" THEN "completed" ELSE "not_executed")

Result(c, disposition) ==
    /\ mstate \in {"awaiting-next-scenario", "awaiting-started-result"}
    /\ IF OutOfOrder(c) \/ ~DispositionFits(disposition) THEN InvalidTransition
       ELSE /\ \/ /\ Write(IF disposition = "completed" THEN "result_completed"
                           ELSE "result_not_executed", c,
                           IF nextCase + 1 = CaseCount[phase] THEN "awaiting-terminal"
                           ELSE "awaiting-next-scenario")
                  /\ nextCase' = nextCase + 1
                  /\ skipped' = (skipped \/ disposition = "not_executed")
               \/ WriteFails /\ UNCHANGED <<nextCase, skipped>>
            /\ UNCHANGED phase

\* invocation_finished, with its completion.
Finish ==
    /\ mstate = "awaiting-terminal"
    /\ \/ Write(IF skipped THEN "stopped" ELSE "completed", 0, "terminal-observed")
       \/ WriteFails
    /\ UNCHANGED <<phase, nextCase, skipped>>

\* protocol_error with one of the public codes.
Fail ==
    /\ mstate \in Awaiting
    /\ \/ Write("protocol_error", 0, "terminal-observed")
       \/ WriteFails
    /\ UNCHANGED <<phase, nextCase, skipped>>

ObserveEOF ==
    /\ mstate = "terminal-observed"
    /\ mstate' = "terminal-eof-observed"
    /\ UNCHANGED <<phase, nextCase, nextSeq, skipped, efailed, out>>

ObserveCleanProcessExit ==
    /\ mstate = "terminal-eof-observed"
    /\ mstate' = "complete"
    /\ UNCHANGED <<phase, nextCase, nextSeq, skipped, efailed, out>>

ObserveByteAfterTerminal ==
    /\ mstate \in {"terminal-observed", "terminal-eof-observed"}
    /\ mstate' = "failed"
    /\ UNCHANGED <<phase, nextCase, nextSeq, skipped, efailed, out>>

\* A method called in a state it is not meant for.
IllegalCall ==
    /\ InvalidTransition
    /\ mstate' # mstate

MachineNext ==
    \/ Start
    \/ \E p \in Phases : ConsumeInvocation(p)
    \/ ConsumeInvalidInvocation
    \/ AcceptInvocation
    \/ \E c \in 1..MaxSequence : StartScenario(c)
    \/ \E c \in 1..MaxSequence, d \in {"completed", "not_executed"} : Result(c, d)
    \/ Finish
    \/ Fail
    \/ ObserveEOF
    \/ ObserveCleanProcessExit
    \/ ObserveByteAfterTerminal
    \/ IllegalCall

MachineSpec == MachineInit /\ [][MachineNext]_machineVars

-----------------------------------------------------------------------------
(* Properties *)

\* Gap-free sequence numbers and at most one terminal record, the last one.
TerminalIsLast ==
    \A i \in 1..Len(out) :
        /\ out[i].seq = i - 1
        /\ out[i].type \in Terminals => i = Len(out)

IsResult(r) == r.type \in {"result_completed", "result_not_executed"}

\* Where the first i records of a stream hold results.
ResultsUpTo(s, i) == {j \in 1..i : IsResult(s[j])}

\* A case is reported completed exactly when the record before it announced its
\* start, an announced case is followed by its own result or by the terminal
\* record, and the k-th result is the result of the k-th locked case.
CasesInOrder ==
    /\ \A i \in 1..Len(out) :
          IsResult(out[i]) => out[i].case = Cardinality(ResultsUpTo(out, i))
    /\ \A i \in 1..(Len(out) - 1) :
          /\ out[i + 1].type = "result_completed" =>
                out[i].type = "scenario_started" /\ out[i].case = out[i + 1].case
          /\ out[i].type = "scenario_started" =>
                out[i + 1].type \in {"result_completed", "protocol_error"}

\* A phase is reported completed only if every locked case of the accepted phase
\* ran to its result; one case that was not executed makes it stopped.
CompletionIsHonest ==
    (out # <<>> /\ out[Len(out)].type = "completed") =>
        /\ Len(out) = 2 * CaseCount[phase] + 3
        /\ \A c \in 1..CaseCount[phase] :
              out[2 * c + 2].type = "result_completed" /\ out[2 * c + 2].case = c

\* Whatever order the methods are called in, and whichever writes fail, stdout
\* carries a stream a harness can follow and believe: numbered without gaps, ended
\* once, the cases in their order, and completed only if all of them ran.
StreamIsWellFormed == TerminalIsLast /\ CasesInOrder /\ CompletionIsHonest

\* An accepted phase that has not ended can still write its terminal record: the
\* sequence and record limits (32 and 33, for at most 15 cases of two records)
\* are never what silences Finish or Fail.
RoomForTerminal == mstate \in Awaiting => WithinLimits

=============================================================================
