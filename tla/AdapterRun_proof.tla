-------------------------- MODULE AdapterRun_proof --------------------------
(***************************************************************************)
(* Proofs about PhaseMachine and about AdapterRun, for every locked profile  *)
(* the machine's assumption admits.  First the machine alone, for every      *)
(* order of method calls and write failures; then the adapter, which uses    *)
(* its machine as PhaseMachine specifies and reports what is true of the     *)
(* caller process.                                                          *)
(***************************************************************************)
EXTENDS AdapterRun, FiniteSetTheorems, TLAPS

-----------------------------------------------------------------------------
(* The phase machine *)

Records == [type : MessageTypes, seq : Nat, case : Nat]

\* States before an invocation is accepted on stdout.
Early == {"awaiting-startup", "ready-for-invocation", "awaiting-invocation-acceptance"}

\* nextSequence counts the records written after startup, nextCase the results,
\* and an encoder failure fails the machine.
Counted ==
    /\ mstate = "awaiting-startup" => Len(out) = 0
    /\ mstate \notin {"awaiting-startup", "failed"} => Len(out) = nextSeq
    /\ mstate # "failed" => ~efailed
    /\ nextCase = Cardinality(ResultsUpTo(out, Len(out)))

\* Nothing but the startup record precedes the acceptance.
Unaccepted ==
    mstate \in Early =>
        /\ nextSeq = 1 /\ nextCase = 0 /\ ~skipped
        /\ mstate # "awaiting-startup" => out[1].type = "startup"
        /\ mstate = "awaiting-invocation-acceptance" => phase \in Phases

\* A machine that can still write a terminal record has written none.
Unended == mstate \in Early \cup Awaiting => \A i \in 1..Len(out) : out[i].type \notin Terminals

\* The last record of an accepted phase announces a case exactly while its
\* result is awaited.
Announced ==
    mstate \in Awaiting =>
        /\ nextSeq >= 2
        /\ mstate = "awaiting-started-result" =>
               out[nextSeq].type = "scenario_started" /\ out[nextSeq].case = nextCase + 1
        /\ mstate # "awaiting-started-result" => out[nextSeq].type # "scenario_started"

\* Records of an accepted phase so far, had every case with a result run.
Expected == 2 * nextCase + (IF mstate = "awaiting-started-result" THEN 3 ELSE 2)

\* Where an accepted phase stands in its locked list: two records for each case
\* that ran, one for each that did not.
Position ==
    mstate \in Awaiting =>
        /\ phase \in Phases
        /\ nextCase <= CaseCount[phase]
        /\ mstate = "awaiting-terminal" <=> nextCase = CaseCount[phase]
        /\ nextSeq <= Expected
        /\ ~skipped => nextSeq = Expected

\* While nothing was skipped, every second record is the result of its case.
AllRan ==
    mstate \in Awaiting /\ ~skipped =>
        \A c \in 1..nextCase :
            out[2 * c + 2].type = "result_completed" /\ out[2 * c + 2].case = c

MachineInv ==
    /\ MachineTypeOK
    /\ Counted /\ Unaccepted /\ Unended /\ Announced /\ Position /\ AllRan
    /\ TerminalIsLast /\ CasesInOrder /\ CompletionIsHonest

-----------------------------------------------------------------------------
(* Writing a record *)

\* A record added to the stream leaves the earlier ones where they were.
LEMMA Appended ==
    ASSUME out \in Seq(Records), NEW r \in Records, out' = Append(out, r)
    PROVE  /\ out' \in Seq(Records)
           /\ Len(out') = Len(out) + 1
           /\ \A i \in 1..Len(out) : out'[i] = out[i]
           /\ out'[Len(out) + 1] = r
  OBVIOUS

\* The number of results among the first records does not change, and a record
\* added to the stream counts when it is a result.
LEMMA ResultsCounted ==
    ASSUME out \in Seq(Records), NEW r \in Records, out' = Append(out, r)
    PROVE  /\ \A i \in 1..Len(out) : ResultsUpTo(out', i) = ResultsUpTo(out, i)
           /\ Cardinality(ResultsUpTo(out, Len(out))) \in Nat
           /\ Cardinality(ResultsUpTo(out', Len(out) + 1)) =
                Cardinality(ResultsUpTo(out, Len(out))) + (IF IsResult(r) THEN 1 ELSE 0)
<1> DEFINE n == Len(out)
           R == ResultsUpTo(out, n)
<1>1. n \in Nat /\ \A i \in 1..n : out'[i] = out[i]
  BY Appended
<1>2. out'[n + 1] = r
  BY Appended
<1>3. \A i \in 1..n : ResultsUpTo(out', i) = ResultsUpTo(out, i)
  BY <1>1 DEF ResultsUpTo
<1>4. IsFiniteSet(R)
  <2>1. IsFiniteSet(1..n)
    BY <1>1, FS_Interval
  <2> QED
    BY <2>1, FS_Subset DEF ResultsUpTo
<1>5. n + 1 \notin R
  BY <1>1 DEF ResultsUpTo
<1>6. ResultsUpTo(out', n + 1) = IF IsResult(r) THEN R \cup {n + 1} ELSE R
  BY <1>1, <1>2 DEF ResultsUpTo
<1>7. Cardinality(R) \in Nat /\ Cardinality(R \cup {n + 1}) = Cardinality(R) + 1
  BY <1>4, <1>5, FS_AddElement, FS_CardinalityType
<1> QED
  BY <1>3, <1>6, <1>7

\* A record that PhaseMachine.write sends keeps the stream well formed, when its
\* type and case fit the record before it.
LEMMA Written ==
    ASSUME MachineInv, mstate \in (Early \cup Awaiting) \ {"awaiting-startup"},
           NEW t \in MessageTypes, NEW c \in Nat, NEW to, Write(t, c, to),
           IsResult(Rec(t, nextSeq, c)) => c = nextCase + 1,
           t = "result_completed" =>
               out[nextSeq].type = "scenario_started" /\ out[nextSeq].case = c,
           out[nextSeq].type = "scenario_started" => t \in {"result_completed", "protocol_error"}
    PROVE  /\ out' \in Seq(Records) /\ Len(out') = nextSeq' /\ nextSeq' = nextSeq + 1
           /\ Len(out) = nextSeq
           /\ nextSeq' \in 1..(MaxSequence + 1)
           /\ \A i \in 1..nextSeq : out'[i] = out[i]
           /\ out'[nextSeq'] = Rec(t, nextSeq, c)
           /\ Cardinality(ResultsUpTo(out', Len(out'))) =
                nextCase + (IF IsResult(Rec(t, nextSeq, c)) THEN 1 ELSE 0)
           /\ ~efailed'
           /\ t \notin Terminals => \A i \in 1..Len(out') : out'[i].type \notin Terminals
           /\ TerminalIsLast' /\ CasesInOrder'
<1> DEFINE r == Rec(t, nextSeq, c)
           n == Len(out)
<1>1. /\ out \in Seq(Records) /\ n = nextSeq /\ n \in Nat \ {0} /\ ~efailed
      /\ nextCase = Cardinality(ResultsUpTo(out, n)) /\ nextCase \in Nat
      /\ nextSeq \in 1..(MaxSequence + 1) /\ MaxSequence \in Nat
  BY ProfileAssumption DEF MachineInv, MachineTypeOK, Counted, Records, Early, Awaiting
<1>2. r \in Records
  BY <1>1 DEF Rec, Records
<1>3. out' = Append(out, r) /\ nextSeq' = nextSeq + 1 /\ nextSeq <= MaxSequence /\ efailed' = efailed
  BY DEF Write, WithinLimits
<1>4. /\ out' \in Seq(Records) /\ Len(out') = n + 1
      /\ \A i \in 1..n : out'[i] = out[i]
      /\ out'[n + 1] = r
  BY <1>1, <1>2, <1>3, Appended
<1>5. /\ \A i \in 1..n : ResultsUpTo(out', i) = ResultsUpTo(out, i)
      /\ Cardinality(ResultsUpTo(out', n + 1)) = nextCase + (IF IsResult(r) THEN 1 ELSE 0)
  BY <1>1, <1>2, <1>3, ResultsCounted
<1>6. \A i \in 1..n : out[i].type \notin Terminals /\ out[i].seq = i - 1
  BY <1>1 DEF MachineInv, Unended, TerminalIsLast
<1>7. TerminalIsLast'
  BY <1>1, <1>4, <1>6 DEF TerminalIsLast, Rec
<1>8. t \notin Terminals => \A i \in 1..Len(out') : out'[i].type \notin Terminals
  BY <1>1, <1>4, <1>6 DEF Rec
<1>9. ResultsUpTo(out', Len(out')) = ResultsUpTo(out', n + 1)
  BY <1>4 DEF ResultsUpTo
<1>10. CasesInOrder'
  <2>1. \A i \in 1..Len(out') : IsResult(out'[i]) => out'[i].case = Cardinality(ResultsUpTo(out', i))
    <3> SUFFICES ASSUME NEW i \in 1..Len(out'), IsResult(out'[i])
                 PROVE  out'[i].case = Cardinality(ResultsUpTo(out', i))
      OBVIOUS
    <3>1. CASE i \in 1..n
      BY <3>1, <1>4, <1>5 DEF MachineInv, CasesInOrder
    <3>2. CASE i = n + 1
      BY <3>2, <1>1, <1>4, <1>5 DEF Rec
    <3> QED
      BY <3>1, <3>2, <1>1, <1>4
  <2>2. ASSUME NEW i \in 1..(Len(out') - 1)
        PROVE  /\ out'[i + 1].type = "result_completed" =>
                     out'[i].type = "scenario_started" /\ out'[i].case = out'[i + 1].case
               /\ out'[i].type = "scenario_started" =>
                     out'[i + 1].type \in {"result_completed", "protocol_error"}
    <3>1. CASE i \in 1..(n - 1)
      <4>1. i \in 1..n /\ i + 1 \in 1..n
        BY <3>1, <1>1
      <4>2. out'[i] = out[i] /\ out'[i + 1] = out[i + 1]
        BY <4>1, <1>4
      <4> QED
        BY <3>1, <4>2 DEF MachineInv, CasesInOrder
    <3>2. CASE i = n
      BY <3>2, <1>1, <1>4 DEF Rec
    <3> QED
      BY <3>1, <3>2, <1>1, <1>4
  <2> QED
    BY <2>1, <2>2 DEF CasesInOrder
<1> QED
  BY <1>1, <1>3, <1>4, <1>5, <1>7, <1>8, <1>9, <1>10

-----------------------------------------------------------------------------
(* Every step *)

\* A machine fails without writing, whether a call was illegal or a write failed.
FailsSilently ==
    /\ mstate' = "failed"
    /\ efailed' \in BOOLEAN
    /\ UNCHANGED <<phase, nextCase, nextSeq, skipped, out>>

LEMMA FailurePreserves ==
    ASSUME MachineInv, FailsSilently
    PROVE  MachineInv'
<1> USE DEF MachineInv, FailsSilently
<1>1. MachineTypeOK'
  <2>1. efailed' \in BOOLEAN /\ skipped' \in BOOLEAN
    BY Zenon DEF MachineTypeOK
  <2> QED
    BY <2>1 DEF MachineTypeOK, MachineStates
<1>2. Counted' /\ Unaccepted' /\ Unended' /\ Announced' /\ Position' /\ AllRan'
  BY DEF Counted, Unaccepted, Unended, Announced, Position, AllRan, Early, Awaiting
<1>3. TerminalIsLast' /\ CasesInOrder' /\ CompletionIsHonest'
  BY DEF TerminalIsLast, CasesInOrder, CompletionIsHonest
<1> QED
  BY <1>1, <1>2, <1>3

LEMMA FailingWrites ==
    ASSUME MachineInv, mstate # "complete",
           \/ InvalidTransition
           \/ WriteFails /\ UNCHANGED <<phase, nextCase, skipped>>
    PROVE  MachineInv'
<1>1. efailed' \in BOOLEAN
  BY Zenon DEF MachineInv, MachineTypeOK, InvalidTransition, WriteFails
<1>2. FailsSilently
  BY <1>1 DEF FailsSilently, InvalidTransition, WriteFails
<1> QED
  BY <1>2, FailurePreserves

\* The states after the terminal record: nothing is written any more.
LEMMA EndPreserves ==
    ASSUME MachineInv, mstate \in {"terminal-observed", "terminal-eof-observed"},
           mstate' \in {"terminal-eof-observed", "complete"},
           UNCHANGED <<phase, nextCase, nextSeq, skipped, efailed, out>>
    PROVE  MachineInv'
<1> USE DEF MachineInv
<1>1. MachineTypeOK'
  BY DEF MachineTypeOK, MachineStates
<1>2. Counted' /\ Unaccepted' /\ Unended' /\ Announced' /\ Position' /\ AllRan'
  BY DEF Counted, Unaccepted, Unended, Announced, Position, AllRan, Early, Awaiting
<1>3. TerminalIsLast' /\ CasesInOrder' /\ CompletionIsHonest'
  BY DEF TerminalIsLast, CasesInOrder, CompletionIsHonest
<1> QED
  BY <1>1, <1>2, <1>3

\* A terminal record, from any state that may write one.
LEMMA TerminalPreserves ==
    ASSUME MachineInv, mstate \in Awaiting \cup {"ready-for-invocation"},
           NEW t \in Terminals, Write(t, 0, "terminal-observed"),
           UNCHANGED <<phase, nextCase, skipped>>,
           t # "protocol_error" => mstate = "awaiting-terminal",
           t = "completed" => ~skipped
    PROVE  MachineInv'
<1> USE DEF MachineInv
<1>1. t \in MessageTypes /\ ~IsResult(Rec(t, nextSeq, 0)) /\ t # "result_completed"
  BY DEF MessageTypes, Terminals, IsResult, Rec
<1>2. mstate \in (Early \cup Awaiting) \ {"awaiting-startup"}
  BY DEF Early, Awaiting
<1>3. out[nextSeq].type = "scenario_started" => t \in {"result_completed", "protocol_error"}
  BY DEF Announced, Awaiting
<1>4. /\ out' \in Seq(Records) /\ Len(out') = nextSeq' /\ nextSeq' = nextSeq + 1
      /\ nextSeq' \in 1..(MaxSequence + 1) /\ Len(out) = nextSeq
      /\ \A i \in 1..nextSeq : out'[i] = out[i]
      /\ out'[nextSeq'] = Rec(t, nextSeq, 0)
      /\ Cardinality(ResultsUpTo(out', Len(out'))) = nextCase
      /\ ~efailed' /\ TerminalIsLast' /\ CasesInOrder'
  BY <1>1, <1>2, <1>3, Written DEF MachineTypeOK
<1>5. mstate' = "terminal-observed"
  BY DEF Write
<1>6. MachineTypeOK'
  BY <1>4, <1>5 DEF MachineTypeOK, MachineStates, Records, Write
<1>7. Counted' /\ Unaccepted' /\ Unended' /\ Announced' /\ Position' /\ AllRan'
  BY <1>4, <1>5 DEF Counted, Unaccepted, Unended, Announced, Position, AllRan, Early, Awaiting
<1>8. CompletionIsHonest'
  <2>1. CASE t = "completed"
    <3>1. /\ phase' = phase /\ phase \in Phases /\ nextCase = CaseCount[phase]
          /\ nextSeq = 2 * CaseCount[phase] + 2 /\ CaseCount[phase] \in Nat
      BY <2>1, ProfileAssumption DEF Position, Expected, Awaiting
    <3>2. Len(out') = 2 * CaseCount[phase] + 3
      BY <3>1, <1>4
    <3>3. ASSUME NEW c \in 1..CaseCount[phase]
          PROVE  out'[2 * c + 2].type = "result_completed" /\ out'[2 * c + 2].case = c
      <4>1. 2 * c + 2 \in 1..nextSeq
        BY <3>1
      <4>2. out'[2 * c + 2] = out[2 * c + 2]
        BY <4>1, <1>4
      <4> QED
        BY <3>1, <4>2, <2>1 DEF AllRan, Awaiting
    <3> QED
      BY <3>1, <3>2, <3>3 DEF CompletionIsHonest
  <2>2. CASE t # "completed"
    BY <2>2, <1>4 DEF CompletionIsHonest, Rec
  <2> QED
    BY <2>1, <2>2
<1> QED
  BY <1>4, <1>6, <1>7, <1>8

LEMMA StartPreserves ==
    ASSUME MachineInv, Start
    PROVE  MachineInv'
<1> USE DEF MachineInv
<1>1. CASE mstate' = "failed" /\ efailed' = TRUE /\ UNCHANGED out
  <2>1. FailsSilently
    BY <1>1 DEF Start, FailsSilently
  <2> QED
    BY <2>1, FailurePreserves
<1>2. CASE mstate' = "ready-for-invocation" /\ out' = Append(out, Rec("startup", 0, 0)) /\ UNCHANGED efailed
  <2> DEFINE r == Rec("startup", 0, 0)
  <2>1. r \in Records /\ ~IsResult(r) /\ r.type = "startup" /\ r.seq = 0
    BY DEF Records, Rec, IsResult, MessageTypes
  <2>2. /\ out \in Seq(Records) /\ Len(out) = 0 /\ ~efailed
        /\ nextSeq = 1 /\ nextCase = 0 /\ ~skipped
        /\ nextCase = Cardinality(ResultsUpTo(out, Len(out)))
    BY DEF Start, MachineTypeOK, Records, Counted, Unaccepted, Early
  <2>3. UNCHANGED <<phase, nextCase, nextSeq, skipped>>
    BY DEF Start
  <2>4. out' \in Seq(Records) /\ Len(out') = 1 /\ out'[1] = r
    BY <1>2, <2>1, <2>2, Appended
  <2>5. Cardinality(ResultsUpTo(out', 1)) = 0
    <3>1. out' = Append(out, r)
      BY <1>2
    <3> HIDE DEF r
    <3>2. Cardinality(ResultsUpTo(out', Len(out) + 1)) =
            Cardinality(ResultsUpTo(out, Len(out))) + (IF IsResult(r) THEN 1 ELSE 0)
      BY <2>1, <2>2, <3>1, ResultsCounted
    <3> QED
      BY <2>1, <2>2, <3>2
  <2>6. MachineTypeOK'
    BY <1>2, <2>3, <2>4 DEF MachineTypeOK, MachineStates, Records
  <2>7. Counted' /\ Unaccepted' /\ Announced' /\ Position' /\ AllRan'
    BY <1>2, <2>1, <2>2, <2>3, <2>4, <2>5
       DEF Counted, Unaccepted, Announced, Position, AllRan, Early, Awaiting
  <2>8. Unended' /\ TerminalIsLast' /\ CasesInOrder' /\ CompletionIsHonest'
    BY <2>1, <2>4 DEF Unended, TerminalIsLast, CasesInOrder, CompletionIsHonest, Terminals
  <2> QED
    BY <2>6, <2>7, <2>8
<1> QED
  BY <1>1, <1>2 DEF Start

LEMMA ConsumePreserves ==
    ASSUME MachineInv, NEW p \in Phases, ConsumeInvocation(p)
    PROVE  MachineInv'
<1> USE DEF MachineInv, ConsumeInvocation
<1>1. MachineTypeOK'
  BY DEF MachineTypeOK, MachineStates
<1>2. Counted' /\ Unaccepted' /\ Unended' /\ Announced' /\ Position' /\ AllRan'
  BY DEF Counted, Unaccepted, Unended, Announced, Position, AllRan, Early, Awaiting
<1>3. TerminalIsLast' /\ CasesInOrder'
  BY DEF TerminalIsLast, CasesInOrder
<1>4. CompletionIsHonest'
  <2>1. out \in Seq(Records) /\ Len(out) = 1 /\ out[1].type \notin Terminals
    BY DEF MachineTypeOK, Records, Counted, Unaccepted, Unended, Early
  <2> QED
    BY <2>1 DEF CompletionIsHonest, Terminals
<1> QED
  BY <1>1, <1>2, <1>3, <1>4

LEMMA AcceptPreserves ==
    ASSUME MachineInv, AcceptInvocation
    PROVE  MachineInv'
<1> USE DEF MachineInv
<1> DEFINE r == Rec("invocation_accepted", nextSeq, 0)
<1>1. CASE WriteFails
  BY <1>1, FailingWrites DEF AcceptInvocation
<1>2. CASE Write("invocation_accepted", 0, "awaiting-next-scenario")
  <2>1. /\ mstate \in (Early \cup Awaiting) \ {"awaiting-startup"}
        /\ "invocation_accepted" \in MessageTypes /\ ~IsResult(r)
        /\ r.type \notin Terminals \cup {"scenario_started", "completed"}
    BY DEF AcceptInvocation, Early, MessageTypes, IsResult, Rec, Terminals
  <2>2. /\ nextSeq = 1 /\ nextCase = 0 /\ ~skipped /\ out[nextSeq].type = "startup"
        /\ phase \in Phases
    BY DEF AcceptInvocation, Unaccepted, Early
  <2>3. /\ out' \in Seq(Records) /\ Len(out') = nextSeq' /\ nextSeq' = nextSeq + 1
        /\ nextSeq' \in 1..(MaxSequence + 1)
        /\ out'[nextSeq'] = r
        /\ Cardinality(ResultsUpTo(out', Len(out'))) = nextCase
        /\ ~efailed'
        /\ \A i \in 1..Len(out') : out'[i].type \notin Terminals
        /\ TerminalIsLast' /\ CasesInOrder'
    BY <1>2, <2>1, <2>2, Written DEF Terminals
  <2>4. mstate' = "awaiting-next-scenario" /\ UNCHANGED <<phase, nextCase, skipped>>
    BY <1>2 DEF Write, AcceptInvocation
  <2>5. MachineTypeOK'
    <3>1. efailed' \in BOOLEAN /\ skipped' \in BOOLEAN
      BY <1>2, <2>4, Zenon DEF MachineTypeOK, Write
    <3> QED
      BY <2>3, <2>4, <3>1 DEF MachineTypeOK, MachineStates, Awaiting, Records
  <2>6. Counted' /\ Unaccepted' /\ Unended'
    BY <2>2, <2>3, <2>4 DEF Counted, Unaccepted, Unended, Early
  <2>7. Announced' /\ AllRan'
    BY <2>1, <2>2, <2>3, <2>4 DEF Announced, AllRan
  <2>8. Position'
    BY <2>2, <2>3, <2>4, ProfileAssumption DEF Position, Expected
  <2>9. CompletionIsHonest'
    BY <2>1, <2>3 DEF CompletionIsHonest
  <2> QED
    BY <2>3, <2>5, <2>6, <2>7, <2>8, <2>9
<1> QED
  BY <1>1, <1>2 DEF AcceptInvocation

LEMMA StartScenarioPreserves ==
    ASSUME MachineInv, NEW c \in 1..MaxSequence, StartScenario(c)
    PROVE  MachineInv'
<1> USE DEF MachineInv
<1> DEFINE r == Rec("scenario_started", nextSeq, c)
<1>0. mstate = "awaiting-next-scenario"
  BY DEF StartScenario
<1>1. CASE OutOfOrder(c)
  BY <1>0, <1>1, FailingWrites DEF StartScenario
<1>2. CASE ~OutOfOrder(c) /\ WriteFails
  BY <1>0, <1>2, FailingWrites DEF StartScenario
<1>3. CASE ~OutOfOrder(c) /\ Write("scenario_started", c, "awaiting-started-result")
  <2>1. /\ mstate \in (Early \cup Awaiting) \ {"awaiting-startup"}
        /\ "scenario_started" \in MessageTypes /\ ~IsResult(r)
        /\ r.type \notin Terminals \cup {"completed"}
        /\ c \in Nat
    BY <1>0, ProfileAssumption DEF Early, Awaiting, MessageTypes, IsResult, Rec, Terminals
  <2>2. /\ phase \in Phases /\ nextCase \in Nat /\ CaseCount[phase] \in Nat
        /\ nextCase < CaseCount[phase] /\ c = nextCase + 1
        /\ out[nextSeq].type # "scenario_started" /\ nextSeq \in Nat /\ nextSeq >= 2
        /\ nextSeq <= 2 * nextCase + 2
        /\ ~skipped => nextSeq = 2 * nextCase + 2
    BY <1>0, <1>3, ProfileAssumption
       DEF OutOfOrder, Position, Expected, Announced, Awaiting, MachineTypeOK
  <2>3. /\ out' \in Seq(Records) /\ Len(out') = nextSeq' /\ nextSeq' = nextSeq + 1
        /\ nextSeq' \in 1..(MaxSequence + 1)
        /\ \A i \in 1..nextSeq : out'[i] = out[i]
        /\ out'[nextSeq'] = r
        /\ Cardinality(ResultsUpTo(out', Len(out'))) = nextCase
        /\ ~efailed'
        /\ \A i \in 1..Len(out') : out'[i].type \notin Terminals
        /\ TerminalIsLast' /\ CasesInOrder'
    BY <1>3, <2>1, <2>2, Written DEF Terminals
  <2>4. mstate' = "awaiting-started-result" /\ UNCHANGED <<phase, nextCase, skipped>>
    BY <1>3 DEF Write, StartScenario
  <2>5. MachineTypeOK'
    <3>1. efailed' \in BOOLEAN /\ skipped' \in BOOLEAN
      BY <1>3, <2>4, Zenon DEF MachineTypeOK, Write
    <3> QED
      BY <2>3, <2>4, <3>1 DEF MachineTypeOK, MachineStates, Awaiting, Records
  <2>6. Counted' /\ Unaccepted' /\ Unended'
    BY <2>2, <2>3, <2>4 DEF Counted, Unaccepted, Unended, Early
  <2>7. Announced'
    BY <2>2, <2>3, <2>4 DEF Announced, Rec
  <2>8. Position'
    BY <2>2, <2>3, <2>4 DEF Position, Expected
  <2>9. AllRan'
    <3> SUFFICES ASSUME ~skipped, NEW k \in 1..nextCase
                 PROVE  out'[2 * k + 2] = out[2 * k + 2]
      BY <1>0, <2>4 DEF AllRan, Awaiting
    <3>1. 2 * k + 2 \in 1..nextSeq
      BY <2>2
    <3> QED
      BY <3>1, <2>3
  <2>10. CompletionIsHonest'
    BY <2>1, <2>3 DEF CompletionIsHonest
  <2> QED
    BY <2>3, <2>5, <2>6, <2>7, <2>8, <2>9, <2>10
<1> QED
  BY <1>1, <1>2, <1>3 DEF StartScenario

LEMMA ResultPreserves ==
    ASSUME MachineInv, NEW c \in 1..MaxSequence, NEW d \in {"completed", "not_executed"},
           Result(c, d)
    PROVE  MachineInv'
<1> USE DEF MachineInv
<1> DEFINE t == IF d = "completed" THEN "result_completed" ELSE "result_not_executed"
           to == IF nextCase + 1 = CaseCount[phase] THEN "awaiting-terminal"
                 ELSE "awaiting-next-scenario"
           r == Rec(t, nextSeq, c)
<1>0. mstate \in {"awaiting-next-scenario", "awaiting-started-result"}
  BY DEF Result
<1>1. CASE OutOfOrder(c) \/ ~DispositionFits(d)
  BY <1>0, <1>1, FailingWrites DEF Result
<1>2. CASE ~(OutOfOrder(c) \/ ~DispositionFits(d)) /\ WriteFails /\ UNCHANGED <<nextCase, skipped>>
  BY <1>0, <1>2, FailingWrites DEF Result
<1>3. CASE /\ ~(OutOfOrder(c) \/ ~DispositionFits(d))
           /\ Write(t, c, to)
           /\ nextCase' = nextCase + 1
           /\ skipped' = (skipped \/ d = "not_executed")
  <2>1. /\ mstate \in (Early \cup Awaiting) \ {"awaiting-startup"}
        /\ t \in MessageTypes /\ IsResult(r)
        /\ r.type \notin Terminals \cup {"completed", "scenario_started"}
        /\ r.type = t /\ r.case = c
        /\ c \in Nat
    BY <1>0, ProfileAssumption DEF Early, Awaiting, MessageTypes, IsResult, Rec, Terminals
  <2>2. /\ phase \in Phases /\ nextCase \in Nat /\ CaseCount[phase] \in Nat
        /\ nextCase < CaseCount[phase] /\ c = nextCase + 1
        /\ nextSeq \in Nat /\ nextSeq >= 2
        /\ nextSeq <= Expected
        /\ ~skipped => nextSeq = Expected
    BY <1>0, <1>3, ProfileAssumption
       DEF OutOfOrder, Position, Announced, Awaiting, MachineTypeOK
  <2>3. /\ d = "completed" <=> mstate = "awaiting-started-result"
        /\ d = "completed" <=> t = "result_completed"
    BY <1>0, <1>3 DEF DispositionFits
  <2>4. /\ t = "result_completed" =>
              out[nextSeq].type = "scenario_started" /\ out[nextSeq].case = c
        /\ out[nextSeq].type = "scenario_started" => t \in {"result_completed", "protocol_error"}
    BY <1>0, <2>2, <2>3 DEF Announced, Awaiting
  <2>5. /\ out' \in Seq(Records) /\ Len(out') = nextSeq' /\ nextSeq' = nextSeq + 1
        /\ nextSeq' \in 1..(MaxSequence + 1)
        /\ \A i \in 1..nextSeq : out'[i] = out[i]
        /\ out'[nextSeq'] = r
        /\ Cardinality(ResultsUpTo(out', Len(out'))) = nextCase + 1
        /\ ~efailed'
        /\ \A i \in 1..Len(out') : out'[i].type \notin Terminals
        /\ TerminalIsLast' /\ CasesInOrder'
    <3> HIDE DEF t, to
    <3>1. t \notin Terminals
      BY <2>1
    <3> QED
      BY <1>3, <2>1, <2>2, <2>4, <3>1, Written
  <2>6. mstate' = to /\ UNCHANGED phase
    BY <1>3 DEF Write, Result
  <2>7. MachineTypeOK'
    <3>1. efailed' \in BOOLEAN /\ skipped' \in BOOLEAN
      BY <1>3, Zenon DEF MachineTypeOK, Write
    <3>2. nextCase' \in Nat
      BY <1>3, <2>2
    <3> QED
      BY <2>5, <2>6, <3>1, <3>2 DEF MachineTypeOK, MachineStates, Awaiting, Records
  <2>8. Counted' /\ Unaccepted' /\ Unended'
    BY <1>3, <2>2, <2>5, <2>6 DEF Counted, Unaccepted, Unended, Early
  <2>9. Announced'
    BY <2>1, <2>2, <2>5, <2>6 DEF Announced
  <2>10. skipped' \/ (~skipped /\ d = "completed" /\ nextSeq = 2 * nextCase + 3)
    BY <1>3, <2>2, <2>3 DEF Expected
  <2>11. Position'
    <3>1. /\ phase' \in Phases /\ nextCase' <= CaseCount[phase']
          /\ mstate' = "awaiting-terminal" <=> nextCase' = CaseCount[phase']
      BY <1>3, <2>2, <2>6
    <3>2. mstate' # "awaiting-started-result" /\ nextCase' = nextCase + 1
      BY <1>3, <2>6
    <3>3. nextSeq' <= 2 * nextCase' + 2
      BY <2>2, <2>5, <3>2 DEF Expected
    <3>4. ~skipped' => nextSeq' = 2 * nextCase' + 2
      <4> SUFFICES ASSUME ~skipped' PROVE nextSeq' = 2 * nextCase' + 2
        OBVIOUS
      <4>1. nextSeq = 2 * nextCase + 3
        BY <2>10
      <4> QED
        BY <2>2, <2>5, <3>2, <4>1
    <3> QED
      BY <3>1, <3>2, <3>3, <3>4 DEF Position, Expected
  <2>12. AllRan'
    <3> SUFFICES ASSUME ~skipped', NEW k \in 1..(nextCase + 1)
                 PROVE  out'[2 * k + 2].type = "result_completed" /\ out'[2 * k + 2].case = k
      BY <1>3 DEF AllRan
    <3>1. ~skipped /\ d = "completed" /\ nextSeq = 2 * nextCase + 3 /\ t = "result_completed"
      BY <2>3, <2>10
    <3>2. CASE k \in 1..nextCase
      <4>1. 2 * k + 2 \in 1..nextSeq
        BY <2>2, <3>1, <3>2
      <4>2. out'[2 * k + 2] = out[2 * k + 2]
        BY <4>1, <2>5
      <4>3. mstate \in Awaiting
        BY <1>0 DEF Awaiting
      <4> QED
        BY <3>1, <3>2, <4>2, <4>3 DEF AllRan
    <3>3. CASE k = nextCase + 1
      <4>1. 2 * k + 2 = nextSeq'
        BY <2>2, <2>5, <3>1, <3>3
      <4> QED
        BY <2>1, <2>2, <2>5, <3>1, <3>3, <4>1
    <3> QED
      BY <2>2, <3>2, <3>3
  <2>13. CompletionIsHonest'
    BY <2>1, <2>5 DEF CompletionIsHonest
  <2> QED
    BY <2>5, <2>7, <2>8, <2>9, <2>11, <2>12, <2>13
<1> QED
  BY <1>1, <1>2, <1>3 DEF Result

\* No method, in whatever state it is called and whether or not its write
\* succeeds, breaks the invariant of the machine.
LEMMA StepPreserves ==
    ASSUME MachineInv, [MachineNext]_machineVars
    PROVE  MachineInv'
<1>1. CASE Start
  BY <1>1, StartPreserves
<1>2. ASSUME NEW p \in Phases, ConsumeInvocation(p) PROVE MachineInv'
  BY <1>2, ConsumePreserves
<1>3. CASE ConsumeInvalidInvocation
  <2>1. CASE WriteFails
    BY <1>3, <2>1, FailingWrites DEF ConsumeInvalidInvocation
  <2>2. CASE Write("protocol_error", 0, "terminal-observed")
    BY <1>3, <2>2, TerminalPreserves DEF ConsumeInvalidInvocation, Terminals
  <2> QED
    BY <1>3, <2>1, <2>2 DEF ConsumeInvalidInvocation
<1>4. CASE AcceptInvocation
  BY <1>4, AcceptPreserves
<1>5. ASSUME NEW c \in 1..MaxSequence, StartScenario(c) PROVE MachineInv'
  BY <1>5, StartScenarioPreserves
<1>6. ASSUME NEW c \in 1..MaxSequence, NEW d \in {"completed", "not_executed"}, Result(c, d)
      PROVE  MachineInv'
  BY <1>6, ResultPreserves
<1>7. CASE Finish
  <2> DEFINE t == IF skipped THEN "stopped" ELSE "completed"
  <2>1. CASE WriteFails
    BY <1>7, <2>1, FailingWrites DEF Finish
  <2>2. CASE Write(t, 0, "terminal-observed")
    <3>1. t \in Terminals /\ (t = "completed" => ~skipped) /\ mstate = "awaiting-terminal"
      BY <1>7 DEF Terminals, Finish
    <3>2. UNCHANGED <<phase, nextCase, skipped>>
      BY <1>7 DEF Finish
    <3> HIDE DEF t
    <3> QED
      BY <2>2, <3>1, <3>2, TerminalPreserves DEF Awaiting
  <2> QED
    BY <1>7, <2>1, <2>2 DEF Finish
<1>8. CASE Fail
  <2>1. CASE WriteFails
    BY <1>8, <2>1, FailingWrites DEF Fail, Awaiting
  <2>2. CASE Write("protocol_error", 0, "terminal-observed")
    BY <1>8, <2>2, TerminalPreserves DEF Fail, Terminals
  <2> QED
    BY <1>8, <2>1, <2>2 DEF Fail
<1>9. CASE ObserveEOF
  BY <1>9, EndPreserves DEF ObserveEOF
<1>10. CASE ObserveCleanProcessExit
  BY <1>10, EndPreserves DEF ObserveCleanProcessExit
<1>11. CASE ObserveByteAfterTerminal
  <2>1. FailsSilently
    <3>1. efailed' \in BOOLEAN
      BY <1>11, Zenon DEF ObserveByteAfterTerminal, MachineInv, MachineTypeOK
    <3> QED
      BY <1>11, <3>1 DEF FailsSilently, ObserveByteAfterTerminal
  <2> QED
    BY <2>1, FailurePreserves
<1>12. CASE IllegalCall
  BY <1>12, FailingWrites DEF IllegalCall, InvalidTransition
<1>13. CASE UNCHANGED machineVars
  BY <1>13 DEF machineVars, MachineInv, MachineTypeOK, Counted, Unaccepted, Unended, Announced,
     Position, Expected, AllRan, TerminalIsLast, CasesInOrder, CompletionIsHonest
<1> QED
  BY <1>1, <1>2, <1>3, <1>4, <1>5, <1>6, <1>7, <1>8, <1>9, <1>10, <1>11, <1>12, <1>13
     DEF MachineNext

LEMMA InitEstablishes ==
    ASSUME MachineInit
    PROVE  MachineInv
<1> USE ProfileAssumption DEF MachineInit, MachineInv
<1>1. MachineTypeOK
  <2>1. skipped \in BOOLEAN /\ efailed \in BOOLEAN
    BY Zenon
  <2>2. out \in Seq([type : MessageTypes, seq : Nat, case : Nat])
    OBVIOUS
  <2>3. nextCase \in Nat /\ nextSeq \in 1..(MaxSequence + 1)
    OBVIOUS
  <2> QED
    BY <2>1, <2>2, <2>3 DEF MachineTypeOK, MachineStates
<1>2. ResultsUpTo(out, Len(out)) = {}
  BY DEF ResultsUpTo
<1>3. Counted
  BY <1>2, FS_EmptySet DEF Counted
<1>4. Unaccepted /\ Unended /\ Announced /\ Position /\ AllRan
  BY DEF Unaccepted, Unended, Announced, Position, AllRan, Awaiting
<1>5. TerminalIsLast /\ CasesInOrder /\ CompletionIsHonest
  BY DEF TerminalIsLast, CasesInOrder, CompletionIsHonest
<1> QED
  BY <1>1, <1>3, <1>4, <1>5

-----------------------------------------------------------------------------
(* Theorems *)

\* The inductive invariant holds in every reachable state.
THEOREM MachineInvariance == MachineSpec => []MachineInv
<1>1. MachineInit => MachineInv
  BY InitEstablishes
<1>2. MachineInv /\ [MachineNext]_machineVars => MachineInv'
  BY StepPreserves
<1> QED
  BY <1>1, <1>2, PTL DEF MachineSpec

\* PhaseMachine's fields keep their types: nextSequence stays in the range the
\* record format can carry.
THEOREM MachineTyped == MachineSpec => []MachineTypeOK
<1>1. MachineInv => MachineTypeOK
  BY DEF MachineInv
<1> QED
  BY <1>1, MachineInvariance, PTL

\* For every locked profile, whatever order PhaseMachine's methods are called
\* in and whichever writes fail: sequence numbers are gap-free, one terminal
\* record at most ends the stream, the results are those of the locked cases in
\* their order, and "completed" follows a completed result of every one of them.
THEOREM StreamIsAlwaysWellFormed == MachineSpec => []StreamIsWellFormed
<1>1. MachineInv => StreamIsWellFormed
  BY DEF MachineInv, StreamIsWellFormed
<1> QED
  BY <1>1, MachineInvariance, PTL

\* Finish writes "completed" only after every locked case of the accepted phase
\* was announced and completed.
THEOREM CompletionIsAlwaysHonest == MachineSpec => []CompletionIsHonest
<1>1. MachineInv => CompletionIsHonest
  BY DEF MachineInv
<1> QED
  BY <1>1, MachineInvariance, PTL

\* The sequence and record limits never silence the terminal record of an
\* accepted phase, for any profile whose phases have at most
\* (MaxSequence - 2) / 2 cases: the bound is tight enough for 15 cases and 32.
THEOREM TerminalAlwaysFits == MachineSpec => []RoomForTerminal
<1>1. MachineInv => RoomForTerminal
  <2> SUFFICES ASSUME MachineInv, mstate \in Awaiting
               PROVE  nextSeq <= MaxSequence /\ ~efailed /\ Len(out) < MaxRecords
    BY DEF RoomForTerminal, WithinLimits, EncoderAccepts
  <2> USE DEF MachineInv
  <2>1. ~efailed /\ Len(out) = nextSeq /\ nextSeq \in Nat /\ nextCase \in Nat
    BY DEF Counted, Awaiting, MachineTypeOK
  <2>2. /\ phase \in Phases /\ CaseCount[phase] \in Nat
        /\ 2 * CaseCount[phase] + 2 <= MaxSequence
        /\ MaxSequence \in Nat /\ MaxRecords = MaxSequence + 1
    BY ProfileAssumption DEF Position
  <2>3. nextSeq <= 2 * CaseCount[phase] + 2
    BY <2>1, <2>2 DEF Position, Expected
  <2> QED
    BY <2>1, <2>2, <2>3
<1> QED
  BY <1>1, MachineInvariance, PTL

-----------------------------------------------------------------------------
(* The adapter *)

\* The calls of the Runner that RunWithCaller is waiting for.
InCall == {"result", "closing", "failing", "dropping"}

\* The machine is where the next call of RunWithCaller expects it.
Aligned ==
    /\ apc = "startup" => mstate = "awaiting-startup"
    /\ apc = "consume" => mstate = "ready-for-invocation"
    /\ apc = "accept"  => mstate = "awaiting-invocation-acceptance"
    /\ apc \in {"read", "scenario", "skip"} => mstate = "awaiting-next-scenario"
    /\ apc \in {"call", "result", "fail", "failing"} => mstate = "awaiting-started-result"
    /\ apc \in {"close", "closing", "finish"} => mstate = "awaiting-terminal"

\* A terminal record is written with the exit code, or not at all.
EndsOnce ==
    /\ exit = Running <=> apc # "done"
    /\ apc # "done" => \A i \in 1..Len(out) : out[i].type \notin Terminals

\* The acceptance is on stdout before the credentials are read; they are held
\* until the caller is closed or the first case is skipped.
Credentials ==
    /\ mstate \in Awaiting \/ bundle # "none" => Len(out) >= 2 /\ out[2].type = "invocation_accepted"
    /\ apc \in {"startup", "consume", "accept", "read"} => bundle = "none"
    /\ apc = "finish" => bundle = "destroyed"
    /\ apc \in {"scenario", "call", "fail", "close", "drop", "skip"} \cup InCall => bundle # "none"

\* Every process of the group is gone or about to be.
Gone == child = "reaped" /\ kin # "holds" /\ killed

\* What the adapter does not decide.
Environment == Processes \/ Timers

\* How far waitAndDrain has come, and what its session will report.
Draws ==
    /\ rstep = "wait" => OutputAtEOF
    /\ rstep = "sweep" => child = "reaped" /\ kin # "holds"
    /\ child = "none" => kin = "none" /\ ~installed /\ rstep \in {"idle", "returned"}
    /\ rstep \in Draining /\ op # "close" => cause # "ok" /\ (cause = "finish" => last)
    /\ rstep \in Draining /\ op = "close" => cause # "finish" /\ apc \in InCall \ {"result"}

\* The caller ends with status 0 after its Gateway has.
Stopped == exitOK => child \in {"exited", "reaped"} /\ ~gateway

\* RunWithCaller makes one call at a time.
OneCall ==
    /\ rstep # "idle" => apc \in InCall
    /\ apc = "result" => rstep # "idle" /\ op \in {"start", "run"}
    /\ apc \in InCall \ {"result"} => op = "close" /\ rstep \in Draining \cup {"returned"}
    /\ apc \in {"startup", "consume", "accept", "read", "skip"} => child = "none"
    /\ apc \in {"scenario", "call"} /\ nextCase = 0 => child = "none"
    /\ apc = "result" /\ (rstep # "returned" \/ ret = "ok") =>
           (last <=> nextCase + 1 = CaseCount[phase])

\* What a call has reported is so.
Reported ==
    /\ apc = "result" /\ rstep = "returned" =>
           \/ installed /\ ~last /\ ret = "ok"
           \/ ~installed /\ child = "none" /\ ret # "ok"
           \/ ~installed /\ ret = "cleanup"
           \/ ~installed /\ Gone /\ (ret = "ok" => exitOK /\ ~noisy)
    /\ apc = "fail" /\ ~installed => child \in {"none", "reaped"} \/ fcode = "internal_failure"
    /\ apc = "failing" /\ rstep = "returned" /\ ret = "ok" =>
           child \in {"none", "reaped"} \/ fcode = "internal_failure"
    /\ apc \in {"close", "closing"} => Gone /\ exitOK /\ ~noisy /\ ~installed
    /\ apc = "closing" => rstep = "returned" /\ ret = "ok"
    /\ apc = "finish" => (skipped /\ child = "none") \/ (Gone /\ exitOK /\ ~noisy)

\* What the exit code and the last record say, once they are written.
Outcome ==
    apc = "done" =>
        /\ bundle # "held"
        /\ LastType = "completed" => Gone /\ exitOK /\ ~noisy
        /\ LastType \in {"completed", "stopped"} => bundle = "destroyed"
        /\ exit = ExitSuccess =>
              /\ LastType \in Terminals /\ ~efailed
              /\ child \notin {"none", "reaped"} => fcode = "internal_failure"

IInv ==
    /\ TypeOK /\ MachineInv
    /\ Aligned /\ EndsOnce /\ Credentials /\ Draws /\ Stopped /\ OneCall /\ Reported /\ Outcome

-----------------------------------------------------------------------------
(* The machine inside the adapter *)

USE DEF machineVars, childVars, callVars, callerVars, adapterVars, Goto, Exit, Failed, Return

\* Every step of the adapter is a step of its PhaseMachine, or leaves it alone.
LEMMA MachineSteps ==
    ASSUME MachineInv, [Next]_vars
    PROVE  [MachineNext]_machineVars
<1>1. ASSUME mstate \in {"awaiting-next-scenario", "awaiting-started-result"}
      PROVE  nextCase + 1 \in 1..MaxSequence
  <2>1. /\ nextCase \in Nat /\ phase \in Phases
        /\ nextCase <= CaseCount[phase] /\ nextCase # CaseCount[phase]
    BY <1>1 DEF MachineInv, MachineTypeOK, Position, Awaiting
  <2>2. /\ CaseCount[phase] \in Nat /\ MaxSequence \in Nat
        /\ 2 * CaseCount[phase] + 2 <= MaxSequence
    BY <2>1, ProfileAssumption
  <2> QED
    BY <2>1, <2>2
<1>2. CASE AnnounceScenario
  BY <1>1, <1>2 DEF AnnounceScenario, StartScenario, MachineNext
<1>3. CASE ScenarioCompletes
  BY <1>1, <1>3 DEF ScenarioCompletes, Result, MachineNext
<1>4. CASE SkipScenario
  BY <1>1, <1>4 DEF SkipScenario, Result, MachineNext
<1>5. CASE WriteStartup \/ ReadInvocation \/ Accept \/ FailCaller \/ FinishPhase
  BY <1>5 DEF WriteStartup, ReadInvocation, Accept, FailCaller, FinishPhase, MachineNext
<1>6. CASE ReadCredentials \/ CallerClosed
  BY <1>6 DEF ReadCredentials, CallerClosed, MachineNext
<1>7. CASE RefuseToRun \/ CallCaller \/ ScenarioFails \/ CloseCaller \/ DropCaller
  BY <1>7 DEF RefuseToRun, CallCaller, ScenarioFails, CloseCaller, DropCaller
<1>8. CASE UNCHANGED machineVars
  BY <1>8
<1> QED
  BY <1>2, <1>3, <1>4, <1>5, <1>6, <1>7, <1>8 DEF Next, Driver, vars

LEMMA MachineStep ==
    ASSUME IInv, [Next]_vars
    PROVE  MachineInv'
  BY MachineSteps, StepPreserves DEF IInv

\* A step of the machine adds at most one record to the stream.
LEMMA StreamGrows ==
    ASSUME MachineInv, [MachineNext]_machineVars
    PROVE  out' = out \/ \E r \in Records : out' = Append(out, r)
<1>1. ASSUME NEW t \in MessageTypes, NEW c \in Nat, NEW to, Write(t, c, to)
      PROVE  \E r \in Records : out' = Append(out, r)
  <2>1. Rec(t, nextSeq, c) \in Records
    <3>1. nextSeq \in Nat
      BY ProfileAssumption DEF MachineInv, MachineTypeOK
    <3> QED
      BY <3>1 DEF Rec, Records
  <2> QED
    BY <1>1, <2>1 DEF Write
<1>2. CASE Start
  <2>1. Rec("startup", 0, 0) \in Records
    BY DEF Rec, Records, MessageTypes
  <2> QED
    BY <1>2, <2>1 DEF Start
<1>3. ASSUME NEW c \in 1..MaxSequence, StartScenario(c)
      PROVE  out' = out \/ \E r \in Records : out' = Append(out, r)
  <2>1. c \in Nat /\ "scenario_started" \in MessageTypes
    BY ProfileAssumption DEF MessageTypes
  <2> QED
    BY <1>1, <1>3, <2>1 DEF StartScenario, InvalidTransition, WriteFails
<1>4. ASSUME NEW c \in 1..MaxSequence, NEW d \in {"completed", "not_executed"}, Result(c, d)
      PROVE  out' = out \/ \E r \in Records : out' = Append(out, r)
  <2>1. c \in Nat /\ "result_completed" \in MessageTypes /\ "result_not_executed" \in MessageTypes
    BY ProfileAssumption DEF MessageTypes
  <2>2. CASE \E t \in MessageTypes, to \in MachineStates : Write(t, c, to)
    BY <1>1, <2>1, <2>2
  <2>3. CASE out' = out
    BY <2>3
  <2> QED
    BY <1>4, <2>1, <2>2, <2>3 DEF Result, InvalidTransition, WriteFails, MachineStates, Awaiting
<1>5. CASE AcceptInvocation \/ ConsumeInvalidInvocation \/ Finish \/ Fail
  BY <1>1, <1>5
     DEF AcceptInvocation, ConsumeInvalidInvocation, Finish, Fail, WriteFails, MessageTypes, Terminals
<1>6. CASE out' = out
  BY <1>6
<1> QED
  BY <1>2, <1>3, <1>4, <1>5, <1>6
     DEF MachineNext, ConsumeInvocation, ObserveEOF, ObserveCleanProcessExit,
         ObserveByteAfterTerminal, IllegalCall, InvalidTransition

-----------------------------------------------------------------------------
(* Every step *)

\* What a step of the processes or of the call in progress leaves alone.
LEMMA ProcessesOnly ==
    ASSUME IInv, [Next]_vars, ~Driver
    PROVE  UNCHANGED <<machineVars, adapterVars>>
  BY DEF Next, vars

\* Every action assigns values of the types.
LEMMA TypeStep ==
    ASSUME IInv, [Next]_vars
    PROVE  TypeOK'
<1> USE DEF IInv, TypeOK
<1>1. MachineTypeOK'
  BY MachineStep DEF MachineInv
<1>2. /\ apc' \in {"startup", "consume", "accept", "read", "scenario", "call", "result",
                   "skip", "finish", "close", "closing", "fail", "failing", "drop", "dropping", "done"}
      /\ bundle' \in {"none", "held", "destroyed"}
      /\ fcode' \in {"none", "credential_channel_failed", "caller_start_failed",
                     "scenario_execution_failed", "internal_failure"}
      /\ exit' \in {Running, ExitSuccess, ExitUsage, ExitSoftware, ExitIO}
  <2>1. CASE ~Driver
    BY <2>1, ProcessesOnly
  <2>2. CASE Driver
    BY <2>2 DEF Driver, RefuseToRun, WriteStartup, ReadInvocation, Accept, ReadCredentials,
       AnnounceScenario, CallCaller, ScenarioFails, FailureCode, ScenarioCompletes, CloseCaller,
       CallerClosed, FailCaller, DropCaller, SkipScenario, FinishPhase, Destroy
  <2> QED
    BY <2>1, <2>2
<1>3. hasCaller' \in BOOLEAN
  BY Zenon DEF Next, Driver, RefuseToRun, WriteStartup, ReadInvocation, Accept, ReadCredentials,
     AnnounceScenario, CallCaller, ScenarioFails, ScenarioCompletes, CloseCaller, CallerClosed,
     FailCaller, DropCaller, SkipScenario, FinishPhase, vars
<1>4. CallerTypeOK'
  <2> USE DEF CallerTypeOK
  <2>1. /\ gateway' \in BOOLEAN
        /\ closed' \in BOOLEAN /\ noisy' \in BOOLEAN /\ exitOK' \in BOOLEAN /\ killed' \in BOOLEAN
        /\ installed' \in BOOLEAN /\ last' \in BOOLEAN /\ late' \in BOOLEAN /\ forced' \in BOOLEAN
    <3>1. CASE Driver
      BY <3>1, Zenon DEF Driver, RefuseToRun, WriteStartup, ReadInvocation, Accept, ReadCredentials,
         AnnounceScenario, CallCaller, ScenarioFails, ScenarioCompletes, CloseCaller, CallerClosed,
         FailCaller, DropCaller, SkipScenario, FinishPhase, StartRefused, StartSpawns, RunBegins,
         TakeReturn, CloseWithoutSession, CloseBegins, CancelAndKill
    <3>2. CASE Environment
      BY <3>2, Zenon DEF Environment, Processes, Timers, ChildForks, GatewayStarts, GatewayExits,
         ChildWritesMore, ChildClosesOutput, ChildExits, KinExits, ProcessDeadline, CaseDeadline,
         ContextKills, Tick
    <3>3. CASE CallProceeds
      BY <3>3, Zenon DEF CallProceeds, CallWorks, SendRequest, SendCommand, ReplyAccepted,
         ReplyRejected, DrainDone, GraceOver, ReapLimit, Reap, Sweep, Abort, Unconfirmed, CancelAndKill
    <3>4. CASE UNCHANGED vars
      BY <3>4, Zenon DEF vars
    <3> QED
      BY <3>1, <3>2, <3>3, <3>4 DEF Next, Environment
  <2>2. /\ child' \in {"none", "running", "exited", "reaped"}
        /\ kin' \in {"none", "holds", "quiet"}
        /\ ctx' \in {"live", "cancelled", "expired"}
        /\ rstep' \in {"idle", "request", "command", "reply", "returned"} \cup Draining
        /\ op' \in {"none", "start", "run", "close"}
        /\ cause' \in Errors \cup {"ok", "finish"} /\ ret' \in Errors \cup {"ok"}
        /\ clock' \in {"grace", "reap", "over"}
    <3> USE DEF Errors, Draining
    <3>1. CASE Driver
      BY <3>1 DEF Driver, RefuseToRun, WriteStartup, ReadInvocation, Accept, ReadCredentials,
         AnnounceScenario, CallCaller, ScenarioFails, ScenarioCompletes, CloseCaller, CallerClosed,
         FailCaller, DropCaller, SkipScenario, FinishPhase, StartRefused, StartSpawns, RunBegins,
         TakeReturn, CloseWithoutSession, CloseBegins, CancelAndKill
    <3>2. CASE Environment
      BY <3>2 DEF Environment, Processes, Timers, ChildForks, GatewayStarts, GatewayExits,
         ChildWritesMore, ChildClosesOutput, ChildExits, KinExits, ProcessDeadline, CaseDeadline,
         ContextKills, Tick
    <3>3. CASE CallProceeds
      BY <3>3 DEF CallProceeds, CallWorks, SendRequest, SendCommand, ReplyAccepted,
         ReplyRejected, DrainDone, GraceOver, ReapLimit, Reap, Sweep, SessionError, FinishError,
         Abort, Unconfirmed, CancelAndKill
    <3>4. CASE UNCHANGED vars
      BY <3>4 DEF vars
    <3> QED
      BY <3>1, <3>2, <3>3, <3>4 DEF Next, Environment
  <2> QED
    BY <2>1, <2>2
<1> QED
  BY <1>1, <1>2, <1>3, <1>4

\* RunWithCaller looks at the machine's answer before its next call.
LEMMA AlignedStep ==
    ASSUME IInv, [Next]_vars
    PROVE  Aligned'
<1> USE DEF IInv, Aligned
<1>1. CASE ~Driver
  BY <1>1, ProcessesOnly
<1>2. CASE RefuseToRun \/ WriteStartup \/ ReadInvocation \/ Accept \/ ReadCredentials
  BY <1>2 DEF RefuseToRun, WriteStartup, Start, ReadInvocation, ConsumeInvocation, Accept,
     AcceptInvocation, ReadCredentials, Write, WriteFails
<1>3. CASE AnnounceScenario \/ CallCaller \/ ScenarioFails \/ CloseCaller
  BY <1>3 DEF AnnounceScenario, StartScenario, InvalidTransition, Write, WriteFails, CallCaller, ScenarioFails,
     CloseCaller
<1>4. CASE CallerClosed \/ FailCaller \/ DropCaller \/ FinishPhase
  BY <1>4 DEF CallerClosed, FailCaller, DropCaller, FinishPhase
<1>5. CASE ScenarioCompletes \/ SkipScenario
  BY <1>5 DEF ScenarioCompletes, SkipScenario, Result, InvalidTransition, Write, WriteFails
<1> QED
  BY <1>1, <1>2, <1>3, <1>4, <1>5 DEF Driver

LEMMA EndsOnceStep ==
    ASSUME IInv, [Next]_vars
    PROVE  EndsOnce'
<1> USE DEF IInv
<1>1. CASE ~Driver
  BY <1>1, ProcessesOnly DEF EndsOnce
<1>2. CASE Driver
  <2>1. (exit = Running)' <=> (apc # "done")'
    BY <1>2 DEF EndsOnce, Driver, RefuseToRun, WriteStartup, ReadInvocation, Accept, ReadCredentials,
       AnnounceScenario, CallCaller, ScenarioFails, ScenarioCompletes, CloseCaller, CallerClosed,
       FailCaller, DropCaller, SkipScenario, FinishPhase, Running, ExitSuccess, ExitUsage,
       ExitSoftware, ExitIO
  <2>2. CASE apc' = "done"
    BY <2>1, <2>2 DEF EndsOnce
  <2>3. CASE mstate' \in Early \cup Awaiting
    <3>1. \A i \in 1..Len(out') : out'[i].type \notin Terminals
      BY <2>3, MachineStep DEF Unended, MachineInv
    <3> QED
      BY <2>1, <3>1 DEF EndsOnce
  <2>4. CASE apc' \in {"drop", "dropping"}
    BY <1>2, <2>1, <2>4
       DEF EndsOnce, Driver, RefuseToRun, WriteStartup, ReadInvocation, Accept, ReadCredentials,
       AnnounceScenario, CallCaller, ScenarioFails, ScenarioCompletes, CloseCaller, CallerClosed,
       FailCaller, DropCaller, SkipScenario, FinishPhase,
       StartScenario, Result, InvalidTransition, Write, WriteFails
  <2>5. \/ apc' \in {"done", "drop", "dropping"}
        \/ mstate' \in Early \cup Awaiting
    BY AlignedStep, TypeStep DEF TypeOK, Aligned, Early, Awaiting
  <2> QED
    BY <2>2, <2>3, <2>4, <2>5
<1> QED
  BY <1>1, <1>2

\* Only ReadCredentials takes the bundle, Destroy ends it, and the stream keeps
\* its second record.
LEMMA CredentialsStep ==
    ASSUME IInv, [Next]_vars
    PROVE  Credentials'
<1> DEFINE Accepted == Len(out) >= 2 /\ out[2].type = "invocation_accepted"
<1>1. Accepted => Accepted'
  <2>1. CASE out' = out
    BY <2>1
  <2>2. CASE \E r \in Records : out' = Append(out, r)
    <3>1. PICK r \in Records : out' = Append(out, r)
      BY <2>2
    <3>2. out \in Seq(Records)
      BY DEF IInv, MachineInv, MachineTypeOK, Records
    <3> QED
      BY <3>1, <3>2, Appended
  <2> QED
    BY <2>1, <2>2, MachineSteps, StreamGrows DEF IInv
<1>2. mstate' \in Awaiting => mstate \in Awaiting \/ Accepted'
  <2>1. CASE AcceptInvocation
    <3>1. CASE WriteFails
      BY <3>1 DEF WriteFails, Awaiting
    <3>2. CASE Write("invocation_accepted", 0, "awaiting-next-scenario")
      <4>1. /\ out \in Seq(Records) /\ Len(out) = 1 /\ nextSeq = 1
        BY <2>1 DEF AcceptInvocation, IInv, MachineInv, MachineTypeOK, Records, Counted
      <4>2. Rec("invocation_accepted", nextSeq, 0) \in Records
        BY <4>1 DEF Rec, Records, MessageTypes
      <4>3. out' = Append(out, Rec("invocation_accepted", nextSeq, 0))
        BY <3>2 DEF Write
      <4>4. Len(out') = 2 /\ out'[2] = Rec("invocation_accepted", nextSeq, 0)
        BY <4>1, <4>2, <4>3, Appended
      <4> QED
        BY <4>4 DEF Rec
    <3> QED
      BY <2>1, <3>1, <3>2 DEF AcceptInvocation
  <2>2. ~AcceptInvocation /\ mstate' \in Awaiting => mstate \in Awaiting
    BY MachineSteps DEF IInv, MachineNext, Start, ConsumeInvocation, ConsumeInvalidInvocation,
       StartScenario, Result, Finish, Fail, ObserveEOF, ObserveCleanProcessExit,
       ObserveByteAfterTerminal, IllegalCall, InvalidTransition, Write, WriteFails, Awaiting
  <2> QED
    BY <2>1, <2>2
<1>3. CASE ~Driver
  BY <1>3, <1>1, <1>2, ProcessesOnly DEF IInv, Credentials
<1>4. CASE Driver
  <2> HIDE DEF Accepted
  <2>1. /\ bundle' # "none" => bundle # "none" \/ apc = "read"
        /\ apc' \in {"startup", "consume", "accept", "read"} => bundle' = "none"
        /\ apc' = "finish" => bundle' = "destroyed"
        /\ apc' \in {"scenario", "call", "fail", "close", "drop", "skip"} \cup InCall => bundle' # "none"
    BY <1>4 DEF IInv, TypeOK, Credentials, InCall, Destroy, Driver, RefuseToRun, WriteStartup,
       ReadInvocation, Accept, ReadCredentials, AnnounceScenario, CallCaller, ScenarioFails,
       ScenarioCompletes, CloseCaller, CallerClosed, FailCaller, DropCaller, SkipScenario, FinishPhase
  <2>2. mstate \in Awaiting \/ bundle # "none" => Accepted
    BY DEF IInv, Credentials, Accepted
  <2>3. apc = "read" => mstate \in Awaiting
    BY DEF IInv, Aligned, Awaiting
  <2>4. mstate' \in Awaiting \/ bundle' # "none" => Accepted'
    BY <1>1, <1>2, <2>1, <2>2, <2>3
  <2> QED
    BY <2>1, <2>4 DEF Credentials, Accepted
<1> QED
  BY <1>3, <1>4

\* waitAndDrain passes its steps in order and nobody reopens the output.
LEMMA DrawsStep ==
    ASSUME IInv, [Next]_vars
    PROVE  Draws'
<1> USE DEF IInv, Draws, OneCall, TypeOK, CallerTypeOK, OutputAtEOF, Draining, InCall
<1>1. CASE Driver
  BY <1>1 DEF Driver, RefuseToRun, WriteStartup, ReadInvocation, Accept, ReadCredentials,
     AnnounceScenario, CallCaller, ScenarioFails, ScenarioCompletes, CloseCaller, CallerClosed,
     FailCaller, DropCaller, SkipScenario, FinishPhase, StartRefused, StartSpawns, RunBegins,
     TakeReturn, CloseWithoutSession, CloseBegins, CancelAndKill
<1>2. CASE Environment /\ UNCHANGED <<machineVars, adapterVars>>
  <2>1. CASE ChildForks \/ GatewayStarts \/ GatewayExits \/ KinExits
    BY <1>2, <2>1 DEF ChildForks, GatewayStarts, GatewayExits, KinExits
  <2>2. CASE ChildWritesMore \/ ChildClosesOutput
    BY <1>2, <2>2 DEF ChildWritesMore, ChildClosesOutput
  <2>3. CASE ChildExits
    <3>1. /\ child = "running" /\ child' = "exited"
          /\ UNCHANGED <<kin, closed, installed, rstep, op, last, cause>>
      BY <2>3 DEF ChildExits
    <3> QED
      BY <1>2, <3>1
  <2>4. CASE Timers
    BY <1>2, <2>4 DEF Timers, ProcessDeadline, CaseDeadline, ContextKills, Tick
  <2> QED
    BY <1>2, <2>1, <2>2, <2>3, <2>4 DEF Environment, Processes
<1>3. CASE CallProceeds /\ UNCHANGED <<machineVars, adapterVars>>
  <2>1. ASSUME rstep \in {"request", "command", "reply"},
               NEW e \in {"io", "timeout", "result"}, Abort(e)
        PROVE  Draws'
    <3>1. apc = "result" /\ op \in {"start", "run"} /\ child # "none"
      BY <2>1
    <3> QED
      BY <2>1, <3>1, <1>3 DEF Abort
  <2>2. CASE SendRequest \/ SendCommand \/ ReplyRejected
    BY <2>1, <2>2, <1>3 DEF SendRequest, SendCommand, ReplyRejected
  <2>3. CASE ReplyAccepted
    BY <2>3, <1>3 DEF ReplyAccepted
  <2>4. CASE DrainDone \/ GraceOver \/ ReapLimit
    BY <2>4, <1>3 DEF DrainDone, GraceOver, ReapLimit, Unconfirmed, CancelAndKill
  <2>5. CASE Reap \/ Sweep
    BY <2>5, <1>3 DEF Reap, Sweep, Unconfirmed, CancelAndKill
  <2> QED
    BY <1>3, <2>2, <2>3, <2>4, <2>5 DEF CallProceeds, CallWorks
<1>4. CASE UNCHANGED vars
  BY <1>4 DEF vars
<1> QED
  BY <1>1, <1>2, <1>3, <1>4 DEF Next, Environment

\* The exit status is set once, and no Gateway is started after it.
LEMMA StoppedStep ==
    ASSUME IInv, [Next]_vars
    PROVE  Stopped'
<1> USE DEF IInv, Stopped
<1>1. /\ ~ChildExits /\ exitOK' => exitOK
      /\ exitOK /\ gateway' => gateway
      /\ exitOK /\ child \in {"exited", "reaped"} => child' \in {"exited", "reaped"}
  <2>1. CASE Driver
    BY <2>1 DEF Driver, RefuseToRun, WriteStartup, ReadInvocation, Accept, ReadCredentials,
       AnnounceScenario, CallCaller, ScenarioFails, ScenarioCompletes, CloseCaller, CallerClosed,
       FailCaller, DropCaller, SkipScenario, FinishPhase, StartRefused, StartSpawns, RunBegins,
       TakeReturn, CloseWithoutSession, CloseBegins
  <2>2. CASE ChildForks \/ GatewayStarts \/ GatewayExits
    BY <2>2 DEF ChildForks, GatewayStarts, GatewayExits
  <2>3. CASE ChildExits
    <3>1. child' = "exited" /\ gateway' = gateway
      BY <2>3 DEF ChildExits
    <3> QED
      BY <2>3, <3>1
  <2>4. CASE ChildWritesMore \/ ChildClosesOutput \/ KinExits \/ Timers
    BY <2>4 DEF ChildWritesMore, ChildClosesOutput, KinExits,
       Timers, ProcessDeadline, CaseDeadline, ContextKills, Tick
  <2>5. CASE SendRequest \/ SendCommand \/ ReplyAccepted \/ ReplyRejected
    BY <2>5 DEF SendRequest, SendCommand, ReplyAccepted, ReplyRejected, Abort
  <2>6. CASE DrainDone \/ GraceOver \/ ReapLimit \/ Sweep
    BY <2>6 DEF DrainDone, GraceOver, ReapLimit, Sweep, Unconfirmed
  <2>7. CASE Reap
    <3>1. child' = "reaped" /\ gateway' = gateway
      BY <2>7 DEF Reap
    <3>2. exitOK' => exitOK
      BY <2>7, Zenon DEF Reap
    <3> QED
      BY <3>1, <3>2
  <2>8. CASE UNCHANGED vars
    BY <2>8 DEF vars
  <2> QED
    BY <2>1, <2>2, <2>3, <2>4, <2>5, <2>6, <2>7, <2>8 DEF Next, Processes, CallProceeds, CallWorks
<1>2. CASE ChildExits
  BY <1>2, Zenon DEF ChildExits
<1> QED
  BY <1>1, <1>2

\* A call is begun where the last one was taken, and it stays the same call.
LEMMA OneCallStep ==
    ASSUME IInv, [Next]_vars
    PROVE  OneCall'
<1> USE DEF IInv, OneCall, Draining, InCall
<1>1. CASE Environment /\ UNCHANGED <<machineVars, adapterVars>>
  <2>1. UNCHANGED <<rstep, op, last, ret>> /\ (child = "none" => child' = "none")
    BY <1>1 DEF Environment, Processes, Timers, ChildForks, GatewayStarts, GatewayExits,
       ChildWritesMore, ChildClosesOutput, ChildExits, KinExits, ProcessDeadline, CaseDeadline,
       ContextKills, Tick
  <2> QED
    BY <1>1, <2>1
<1>2. CASE CallProceeds /\ UNCHANGED <<machineVars, adapterVars>>
  <2>1. UNCHANGED <<op, last>> /\ rstep # "idle" /\ rstep' # "idle"
    BY <1>2 DEF CallProceeds, CallWorks, SendRequest, SendCommand, ReplyAccepted, ReplyRejected,
       DrainDone, GraceOver, ReapLimit, Reap, Sweep, Abort, Unconfirmed
  <2>2. rstep # "returned"
    BY <1>2 DEF CallProceeds, CallWorks, SendRequest, SendCommand, ReplyAccepted, ReplyRejected,
       DrainDone, GraceOver, ReapLimit, Reap, Sweep
  <2>3. rstep \in Draining => rstep' \in Draining \cup {"returned"}
    BY <1>2 DEF CallProceeds, CallWorks, SendRequest, SendCommand, ReplyAccepted, ReplyRejected,
       DrainDone, GraceOver, ReapLimit, Reap, Sweep, Unconfirmed
  <2> QED
    BY <1>2, <2>1, <2>2, <2>3
<1>3. CASE UNCHANGED vars
  BY <1>3 DEF vars
<1>4. CASE RefuseToRun \/ WriteStartup \/ ReadInvocation \/ Accept \/ FinishPhase
  BY <1>4 DEF RefuseToRun, WriteStartup, ReadInvocation, Accept, FinishPhase
<1>5. CASE ReadCredentials
  BY <1>5 DEF ReadCredentials
<1>6. CASE AnnounceScenario
  BY <1>6 DEF AnnounceScenario, StartScenario, InvalidTransition
<1>7. CASE CallCaller
  <2>1. nextCase \in Nat
    BY DEF MachineInv, MachineTypeOK
  <2>2. apc' = "result" /\ UNCHANGED machineVars
    BY <1>7 DEF CallCaller
  <2>3. CASE StartRefused
    BY <2>2, <2>3 DEF StartRefused
  <2>4. CASE StartSpawns(CaseCount[phase] = 1) /\ nextCase = 0
    <3>1. (last' <=> CaseCount[phase] = 1) /\ rstep' = "request" /\ op' = "start"
      BY <2>4, Zenon DEF StartSpawns
    <3> QED
      BY <2>2, <2>4, <3>1
  <2>5. CASE RunBegins(nextCase + 1 = CaseCount[phase]) /\ nextCase # 0
    <3>1. (last' <=> nextCase + 1 = CaseCount[phase]) /\ rstep' = "command" /\ op' = "run"
      BY <2>5, Zenon DEF RunBegins
    <3> QED
      BY <2>2, <2>5, <3>1
  <2> QED
    BY <1>7, <2>3, <2>4, <2>5 DEF CallCaller
<1>8. CASE ScenarioFails \/ CallerClosed \/ FailCaller \/ DropCaller
  BY <1>8 DEF ScenarioFails, CallerClosed, FailCaller, DropCaller, TakeReturn
<1>9. CASE ScenarioCompletes
  <2>1. nextCase \in Nat
    BY DEF MachineInv, MachineTypeOK
  <2> QED
    BY <1>9, <2>1 DEF ScenarioCompletes, TakeReturn, Result, InvalidTransition, Write, WriteFails
<1>10. CASE CloseCaller
  BY <1>10 DEF CloseCaller, CloseWithoutSession, CloseBegins
<1>11. CASE SkipScenario
  BY <1>11 DEF SkipScenario
<1> QED
  BY <1>1, <1>2, <1>3, <1>4, <1>5, <1>6, <1>7, <1>8, <1>9, <1>10, <1>11 DEF Next, Environment, Driver

\* The environment takes nothing back of a cleanup.
LEMMA GoneStays ==
    ASSUME Environment
    PROVE  /\ UNCHANGED <<installed, rstep, last, ret>>
           /\ child \in {"none", "reaped"} => child' = child
           /\ child' \in {"none", "reaped"} => child' = child
           /\ child = "reaped" => exitOK' = exitOK
           /\ Gone => Gone' /\ noisy' = noisy
<1> USE DEF Gone
<1>1. CASE ChildForks \/ GatewayStarts \/ GatewayExits
  BY <1>1 DEF ChildForks, GatewayStarts, GatewayExits
<1>2. CASE ChildWritesMore \/ ChildClosesOutput \/ KinExits
  BY <1>2 DEF ChildWritesMore, ChildClosesOutput, KinExits
<1>3. CASE ChildExits
  <2>1. child = "running" /\ child' = "exited" /\ UNCHANGED <<installed, rstep, last, ret>>
    BY <1>3 DEF ChildExits
  <2> QED
    BY <2>1
<1>4. CASE Timers
  BY <1>4 DEF Timers, ProcessDeadline, CaseDeadline, ContextKills, Tick
<1> QED
  BY <1>1, <1>2, <1>3, <1>4 DEF Environment, Processes

\* A call reports what it has seen to its end, and RunWithCaller goes on from it.
LEMMA ReportedStep ==
    ASSUME IInv, [Next]_vars
    PROVE  Reported'
<1> USE DEF IInv, Reported, Gone, Draining, InCall
<1>1. CASE Environment /\ UNCHANGED <<machineVars, adapterVars>>
  BY <1>1, GoneStays
<1>2. CASE CallProceeds /\ UNCHANGED <<machineVars, adapterVars>>
  <2> USE DEF OneCall
  <2>1. CASE SendRequest \/ SendCommand \/ ReplyRejected
    BY <1>2, <2>1 DEF SendRequest, SendCommand, ReplyRejected, Abort
  <2>2. CASE ReplyAccepted
    BY <1>2, <2>2 DEF ReplyAccepted
  <2>3. CASE DrainDone \/ GraceOver \/ Reap
    BY <1>2, <2>3 DEF DrainDone, GraceOver, Reap
  <2>4. CASE ReapLimit
    BY <1>2, <2>4 DEF ReapLimit, Unconfirmed
  <2>5. CASE Sweep /\ ret' = "cleanup"
    BY <1>2, <2>5 DEF Sweep
  <2>6. CASE Sweep /\ ret' # "cleanup"
    <3>1. /\ rstep = "sweep" /\ rstep' = "returned" /\ ret' = SessionError
          /\ ~installed' /\ killed' /\ UNCHANGED <<child, kin, noisy, exitOK>>
      BY <2>6, Zenon DEF Sweep
    <3>2. Gone'
      BY <3>1 DEF Draws
    <3>3. apc = "result" /\ SessionError = "ok" => exitOK /\ ~noisy
      BY <3>1 DEF Draws, SessionError, FinishError
    <3> QED
      BY <1>2, <3>1, <3>2, <3>3
  <2> QED
    BY <1>2, <2>1, <2>2, <2>3, <2>4, <2>5, <2>6 DEF CallProceeds, CallWorks
<1>3. CASE UNCHANGED vars
  BY <1>3 DEF vars
<1>4. CASE RefuseToRun \/ WriteStartup \/ ReadInvocation \/ Accept \/ FinishPhase
  BY <1>4 DEF RefuseToRun, WriteStartup, ReadInvocation, Accept, FinishPhase
<1>5. CASE ReadCredentials
  BY <1>5 DEF ReadCredentials
<1>6. CASE AnnounceScenario
  BY <1>6 DEF AnnounceScenario
<1>7. CASE CallCaller
  <2>1. apc' = "result"
    BY <1>7 DEF CallCaller
  <2>2. CASE StartRefused /\ nextCase = 0 /\ apc = "call"
    BY <2>1, <2>2 DEF StartRefused, OneCall, Draws
  <2>3. CASE rstep' # "returned"
    BY <2>1, <2>3
  <2> QED
    BY <1>7, <2>2, <2>3 DEF CallCaller, StartSpawns, RunBegins
<1>8. CASE ScenarioFails
  BY <1>8 DEF ScenarioFails, TakeReturn, FailureCode
<1>9. CASE ScenarioCompletes
  <2>1. CASE apc' # "close"
    BY <1>9, <2>1 DEF ScenarioCompletes
  <2>2. CASE apc' = "close"
    <3>1. nextCase' = CaseCount[phase] /\ mstate' # "failed"
      BY <1>9, <2>2 DEF ScenarioCompletes
    <3>2. nextCase \in Nat /\ nextCase # CaseCount[phase]
      BY <1>9 DEF ScenarioCompletes, Aligned, MachineInv, MachineTypeOK, Position, Awaiting
    <3>3. nextCase + 1 = CaseCount[phase]
      BY <1>9, <3>1, <3>2 DEF ScenarioCompletes, Result, InvalidTransition, WriteFails
    <3>4. last /\ ret = "ok" /\ apc = "result" /\ rstep = "returned"
      BY <1>9, <3>3 DEF ScenarioCompletes, TakeReturn, OneCall
    <3>5. child # "none"
      BY <3>4
    <3> QED
      BY <1>9, <2>2, <3>4, <3>5 DEF ScenarioCompletes, TakeReturn
  <2> QED
    BY <2>1, <2>2
<1>10. CASE CloseCaller
  BY <1>10 DEF CloseCaller, CloseWithoutSession, CloseBegins
<1>11. CASE CallerClosed
  BY <1>11 DEF CallerClosed, TakeReturn
<1>12. CASE FailCaller \/ DropCaller
  BY <1>12 DEF FailCaller, DropCaller
<1>13. CASE SkipScenario
  <2>1. CASE apc' # "finish"
    BY <1>13, <2>1 DEF SkipScenario
  <2>2. CASE apc' = "finish"
    <3>1. child' = "none"
      BY <1>13 DEF SkipScenario, OneCall
    <3>2. skipped'
      <4>1. /\ Result(nextCase + 1, "not_executed") /\ mstate' # "failed"
            /\ mstate = "awaiting-next-scenario"
        BY <1>13, <2>2 DEF SkipScenario, Aligned
      <4> QED
        BY <4>1, Zenon DEF Result, InvalidTransition, WriteFails
    <3> QED
      BY <2>2, <3>1, <3>2
  <2> QED
    BY <2>1, <2>2
<1> QED
  BY <1>1, <1>2, <1>3, <1>4, <1>5, <1>6, <1>7, <1>8, <1>9, <1>10, <1>11, <1>12, <1>13
     DEF Next, Environment, Driver

\* The last record of the stream: no terminal one before the adapter is done,
\* and the one that a write of the machine has appended.
LEMMA LastTypes ==
    ASSUME IInv
    PROVE  /\ apc # "done" => LastType \notin Terminals
           /\ (out # <<>> /\ out[Len(out)].type = "completed") <=> LastType = "completed"
<1>1. out \in Seq(Records)
  BY DEF IInv, MachineInv, MachineTypeOK, Records
<1>2. out # <<>> => Len(out) \in 1..Len(out)
  BY <1>1
<1> QED
  BY <1>2 DEF IInv, EndsOnce, LastType, Terminals

LEMMA LastWritten ==
    ASSUME IInv, NEW t \in MessageTypes, NEW to, Write(t, 0, to)
    PROVE  LastType' = t
<1>1. out \in Seq(Records) /\ nextSeq \in Nat
  BY ProfileAssumption DEF IInv, MachineInv, MachineTypeOK, Records
<1>2. Rec(t, nextSeq, 0) \in Records
  BY <1>1 DEF Rec, Records
<1>3. out' = Append(out, Rec(t, nextSeq, 0))
  BY DEF Write
<1>4. Len(out') = Len(out) + 1 /\ out'[Len(out')] = Rec(t, nextSeq, 0) /\ out' # <<>>
  BY <1>1, <1>2, <1>3, Appended
<1> QED
  BY <1>4 DEF LastType, Rec

\* Every way out of RunWithCaller; after it only the processes move.
LEMMA OutcomeStep ==
    ASSUME IInv, [Next]_vars
    PROVE  Outcome'
<1> USE DEF IInv
<1>1. CASE apc = "done"
  <2>1. UNCHANGED <<machineVars, adapterVars>> /\ (Environment \/ UNCHANGED vars)
    BY <1>1 DEF EndsOnce, Environment, Next, Driver, RefuseToRun, WriteStartup, ReadInvocation, Accept,
       ReadCredentials, AnnounceScenario, CallCaller, ScenarioFails, ScenarioCompletes, CloseCaller,
       CallerClosed, FailCaller, DropCaller, SkipScenario, FinishPhase, vars
  <2>2. CASE UNCHANGED vars
    BY <2>2 DEF vars, Outcome, LastType, Gone
  <2>3. CASE Environment
    <3>1. LastType' = LastType
      BY <2>1 DEF LastType
    <3> QED
      BY <1>1, <2>1, <2>3, <3>1, GoneStays DEF Outcome, Gone
  <2> QED
    BY <2>1, <2>2, <2>3
<1>2. CASE apc # "done" /\ apc' # "done"
  BY <1>2 DEF Outcome
<1>3. ASSUME apc # "done", out' = out
      PROVE  LastType' \notin Terminals
  BY <1>3, LastTypes DEF LastType
<1>4. CASE apc # "done" /\ apc' = "done"
  <2> USE DEF Outcome, ExitSuccess, ExitUsage, ExitSoftware, ExitIO, Terminals
  <2>1. CASE RefuseToRun
    BY <1>3, <1>4, <2>1 DEF RefuseToRun, Credentials
  <2>2. CASE WriteStartup
    <3>1. bundle' = "none" /\ exit' = ExitIO /\ out' = out
      BY <1>4, <2>2 DEF WriteStartup, Start, Credentials
    <3> QED
      BY <1>3, <1>4, <3>1
  <2>3. CASE Accept
    <3>1. bundle' = "none" /\ exit' = ExitIO /\ out' = out
      BY <1>4, <2>3 DEF Accept, AcceptInvocation, Write, WriteFails, Credentials
    <3> QED
      BY <1>3, <1>4, <3>1
  <2>4. ASSUME \/ Write("protocol_error", 0, "terminal-observed") /\ ~efailed'
               \/ WriteFails /\ exit' # ExitSuccess,
               bundle' # "held", child' \notin {"none", "reaped"} /\ exit' = ExitSuccess
                                     => fcode' = "internal_failure"
        PROVE  Outcome'
    <3>1. CASE Write("protocol_error", 0, "terminal-observed") /\ ~efailed'
      <4>1. LastType' = "protocol_error"
        BY <3>1, LastWritten DEF MessageTypes
      <4> QED
        BY <2>4, <3>1, <4>1
    <3>2. CASE WriteFails /\ exit' # ExitSuccess
      <4>1. LastType' \notin Terminals
        BY <1>3, <1>4, <3>2 DEF WriteFails
      <4> QED
        BY <2>4, <3>2, <4>1
    <3> QED
      BY <2>4, <3>1, <3>2
  <2>5. mstate # "failed" => ~efailed
    BY DEF MachineInv, Counted
  <2>6. CASE ReadInvocation
    <3>1. child' = "none" /\ bundle' = "none"
      BY <2>6 DEF ReadInvocation, OneCall, Credentials
    <3>2. \/ Write("protocol_error", 0, "terminal-observed") /\ ~efailed'
          \/ WriteFails /\ exit' # ExitSuccess
      BY <1>4, <2>5, <2>6 DEF ReadInvocation, ConsumeInvalidInvocation, Write, WriteFails
    <3> QED
      BY <2>4, <3>1, <3>2
  <2>7. CASE ReadCredentials
    <3>1. child' = "none" /\ bundle' = "none"
      BY <1>4, <2>7 DEF ReadCredentials, OneCall, Credentials
    <3>2. \/ Write("protocol_error", 0, "terminal-observed") /\ ~efailed'
          \/ WriteFails /\ exit' # ExitSuccess
      BY <1>4, <2>5, <2>7 DEF ReadCredentials, Fail, Write, WriteFails, Awaiting
    <3> QED
      BY <2>4, <3>1, <3>2
  <2>8. CASE CallerClosed
    BY <1>4, <2>8 DEF CallerClosed, Reported
  <2>9. CASE FailCaller
    <3>1. bundle' # "held"
      BY <2>9 DEF FailCaller, Destroy
    <3>2. child' \notin {"none", "reaped"} /\ exit' = ExitSuccess => fcode' = "internal_failure"
      BY <2>9 DEF FailCaller, TakeReturn, Reported
    <3>3. \/ Write("protocol_error", 0, "terminal-observed") /\ ~efailed'
          \/ WriteFails /\ exit' # ExitSuccess
      BY <1>4, <2>5, <2>9 DEF FailCaller, Fail, Write, WriteFails, Awaiting
    <3> QED
      BY <2>4, <3>1, <3>2, <3>3
  <2>10. CASE DropCaller
    BY <1>3, <1>4, <2>10 DEF DropCaller, Destroy
  <2>11. CASE SkipScenario
    <3>1. bundle' # "held" /\ exit' = ExitIO /\ mstate' = "failed"
      BY <1>4, <2>11 DEF SkipScenario, Destroy
    <3>2. out' = out
      BY <2>11, <3>1 DEF SkipScenario, Result, InvalidTransition, Write, WriteFails
    <3> QED
      BY <1>3, <1>4, <3>1, <3>2
  <2>12. CASE FinishPhase
    <3>1. /\ UNCHANGED <<child, kin, killed, exitOK, noisy, skipped>>
          /\ bundle' = "destroyed" /\ child \in {"none", "reaped"}
      BY <2>12 DEF FinishPhase, Finish, Credentials, Reported, Gone
    <3>2. CASE WriteFails
      BY <1>3, <1>4, <2>12, <3>1, <3>2 DEF FinishPhase, WriteFails
    <3>3. CASE Write(IF skipped THEN "stopped" ELSE "completed", 0, "terminal-observed")
      <4>1. LastType' = IF skipped THEN "stopped" ELSE "completed"
        BY <3>3, LastWritten DEF MessageTypes
      <4>2. ~efailed'
        BY <2>5, <2>12, <3>3 DEF FinishPhase, Finish, Write
      <4>3. skipped \/ (Gone /\ exitOK /\ ~noisy)
        BY <2>12 DEF FinishPhase, Reported
      <4> QED
        BY <3>1, <4>1, <4>2, <4>3 DEF Gone
    <3> QED
      BY <2>12, <3>2, <3>3 DEF FinishPhase, Finish
  <2>13. CASE AnnounceScenario \/ CallCaller \/ ScenarioFails \/ ScenarioCompletes \/ CloseCaller
    BY <1>4, <2>13 DEF AnnounceScenario, CallCaller, ScenarioFails, ScenarioCompletes, CloseCaller
  <2> QED
    BY <1>4, <2>1, <2>2, <2>3, <2>6, <2>7, <2>8, <2>9, <2>10, <2>11, <2>12, <2>13, ProcessesOnly
       DEF Driver
<1> QED
  BY <1>1, <1>2, <1>4

-----------------------------------------------------------------------------
(* Theorems *)

LEMMA AdapterInit ==
    ASSUME Init
    PROVE  IInv
<1>1. MachineInv
  BY InitEstablishes DEF Init
<1>2. TypeOK
  <2>1. hasCaller \in BOOLEAN /\ CallerTypeOK
    BY Zenon DEF Init, CallerInit, CallerTypeOK, Errors, Draining
  <2> QED
    BY <1>1, <2>1 DEF Init, TypeOK, MachineInv
<1>3. Aligned /\ EndsOnce /\ Outcome
  BY DEF Init, MachineInit, Aligned, EndsOnce, Outcome, Running
<1>4. Credentials /\ Draws /\ Stopped /\ OneCall /\ Reported
  BY DEF Init, MachineInit, CallerInit, Credentials, Draws, Stopped, OneCall, Reported, Awaiting,
     InCall, Draining
<1> QED
  BY <1>1, <1>2, <1>3, <1>4 DEF IInv

\* The inductive invariant of the adapter loop and its runner.
THEOREM AdapterInvariance == Spec => []IInv
<1>1. Init => IInv
  BY AdapterInit
<1>2. IInv /\ [Next]_vars => IInv'
  BY TypeStep, MachineStep, AlignedStep, EndsOnceStep, CredentialsStep, DrawsStep, StoppedStep, OneCallStep,
     ReportedStep, OutcomeStep DEF IInv
<1> QED
  BY <1>1, <1>2, PTL DEF Spec

\* Every variable of the adapter, its machine and its runner keeps its type.
THEOREM AdapterTyped == Spec => []TypeOK
<1>1. IInv => TypeOK
  BY DEF IInv
<1> QED
  BY <1>1, AdapterInvariance, PTL

\* RunWithCaller calls the methods of its PhaseMachine as PhaseMachine specifies
\* them: what is proved of MachineSpec holds of every adapter.
THEOREM AdapterDrivesTheMachine == Spec => MachineSpec
<1>1. Init => MachineInit
  BY DEF Init
<1>2. IInv /\ [Next]_vars => [MachineNext]_machineVars
  BY MachineSteps DEF IInv
<1> QED
  BY <1>1, <1>2, AdapterInvariance, PTL DEF Spec, MachineSpec

\* The stream on the adapter's stdout is one a harness can follow, whatever the
\* caller process and stdout do.
THEOREM AdapterStreamIsWellFormed == Spec => []StreamIsWellFormed
  BY AdapterDrivesTheMachine, StreamIsAlwaysWellFormed, PTL

\* A completed phase on stdout means a caller that ended by itself, with status
\* 0, reaped, silent and without a Gateway, and a group that was killed.
THEOREM CompletedAlwaysMeansCleanCaller == Spec => []CompletedMeansCleanCaller
<1>1. IInv => CompletedMeansCleanCaller
  <2> SUFFICES ASSUME IInv, LastType = "completed"
               PROVE  /\ child = "reaped" /\ exitOK /\ ~noisy /\ ~gateway
                      /\ kin = "none" \/ killed
                      /\ CompletionIsHonest
    BY DEF CompletedMeansCleanCaller
  <2>1. apc = "done"
    BY LastTypes DEF Terminals
  <2>2. Gone /\ exitOK /\ ~noisy
    BY <2>1 DEF IInv, Outcome
  <2> QED
    BY <2>2 DEF Gone, IInv, MachineInv, Stopped
<1> QED
  BY <1>1, AdapterInvariance, PTL

\* A call that leaves no session and does not report ErrProcessCleanup has reaped
\* the child, seen EOF and killed the child's group; one that succeeds leaves no
\* Gateway either, which no kill of the group would reach.
THEOREM CleanupIsAlwaysConfirmed == Spec => []ConfirmedCleanup
<1>1. IInv => ConfirmedCleanup
  BY DEF IInv, ConfirmedCleanup, OneCall, Reported, Stopped, Gone, InCall, OutputAtEOF
<1> QED
  BY <1>1, AdapterInvariance, PTL

\* Credentials are read after the acceptance and destroyed on every way out.
THEOREM CredentialsAreAlwaysContained == Spec => []CredentialsAreContained
<1>1. IInv => CredentialsAreContained
  BY LastTypes DEF IInv, CredentialsAreContained, Credentials, EndsOnce, Outcome, Terminals
<1> QED
  BY <1>1, AdapterInvariance, PTL

\* Exit status 0 comes with a terminal record and hides no caller that may live.
THEOREM ExitZeroIsAlwaysTruthful == Spec => []ExitZeroIsTruthful
<1>1. IInv => ExitZeroIsTruthful
  BY DEF IInv, ExitZeroIsTruthful, EndsOnce, Outcome, Running, ExitSuccess
<1> QED
  BY <1>1, AdapterInvariance, PTL

=============================================================================
