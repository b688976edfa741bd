----------------------- MODULE CallerStateStore_proof -----------------------
(***************************************************************************)
(* Proofs about CallerStateStore for any plans and binding values.          *)
(***************************************************************************)
EXTENDS CallerStateStore, TLAPS

\* A state of the closed type that passes validateState.
Sound(s) == s \in State /\ ValidState(s)

\* What ties the disk, the Store's memory and the state being written together
\* while nobody else touches the root.
Ledger ==
    /\ fsynced
    /\ \A f \in {file, dfile} : f = NoFile \/ Sound(f)
    /\ acked # NoFile => \A f \in {file, dfile} : f \in State /\ Extends(f, acked)
    /\ mem # NoFile /\ acked # NoFile => Extends(mem, acked)
    /\ pc \in WriteSteps =>
           /\ Sound(goal)
           /\ mem = NoFile => acked = NoFile
           /\ mem # NoFile => Extends(goal, mem) /\ goal.rev = mem.rev + 1
    /\ pc \in {"opentemp", "fill", "fsync", "rename"} => file = mem
    /\ pc \in {"syncdir", "readback"} => file = goal
    /\ pc = "readback" => dfile = goal

\* The process has a Store exactly while it is open or being updated.
Handle ==
    /\ pc = "open" => mem # NoFile
    /\ pc \in {"off", "closed"} => mem = NoFile

IInv == TypeOK /\ Handle /\ (foreign = "no" => Ledger)

\* A Bind method's mutation yields a state of the type that extends the old one.
LEMMA AdvancedExtends ==
    ASSUME NEW s \in State, NEW i \in Bindings, NEW v \in Values, s.stage = i - 1
    PROVE  /\ Advanced(s, i, v) \in State
           /\ Extends(Advanced(s, i, v), s)
           /\ Advanced(s, i, v).rev = s.rev + 1
<1>1. [s.bind EXCEPT ![i] = v] \in [Bindings -> Values \cup {Unbound}]
  BY DEF State
<1> QED
  BY <1>1 DEF State, Advanced, Extends, Stages, Bindings

\* A new plan is a valid state.
LEMMA NewIsSound ==
    ASSUME NEW p \in Plans
    PROVE  Sound(NewInitialState(p))
  BY DEF Sound, State, ValidState, NewInitialState, Stages, Bindings

\* Extension is reflexive and transitive.
LEMMA ExtendsOrder ==
    ASSUME NEW a \in State, NEW b \in State, NEW c \in State
    PROVE  Extends(a, a) /\ (Extends(c, b) /\ Extends(b, a) => Extends(c, a))
  BY DEF State, Extends, Stages, Bindings

\* A tampered file is still of the type.
LEMMA TamperedTyped ==
    ASSUME TypeOK, NEW content \in TamperedContents
    PROVE  content \in State \cup {NoFile, Torn}
<1>1. ASSUME file \in State, file.stage > 0
      PROVE  RolledBack(file) \in State
  <2>1. [file.bind EXCEPT ![file.stage] = Unbound] \in [Bindings -> Values \cup {Unbound}]
    BY <1>1 DEF State
  <2> QED
    BY <1>1, <2>1 DEF RolledBack, State, Stages
<1>2. ASSUME file \in State, file.stage < Complete, NEW v \in Values
      PROVE  Advanced(file, file.stage + 1, v) \in State
  <2>1. file.stage + 1 \in Bindings
    BY <1>2 DEF State, Stages, Bindings, Complete
  <2> QED
    BY <1>2, <2>1, AdvancedExtends DEF State, Stages
<1> QED
  BY <1>1, <1>2 DEF TamperedContents

-----------------------------------------------------------------------------
(* The inductive invariant *)

\* An empty root and no process satisfy the invariant.
LEMMA IInvInit == Init => IInv
  BY DEF Init, IInv, TypeOK, Handle, Ledger, Replies, WriteSteps

\* Every step keeps the types and the Store handle.
LEMMA TypeStep == TypeOK /\ Handle /\ [Next]_vars => TypeOK' /\ Handle'
<1> SUFFICES ASSUME TypeOK, Handle, [Next]_vars PROVE TypeOK' /\ Handle'
  OBVIOUS
<1> USE MarkersAssumption DEF TypeOK, Handle, WriteSteps, Replies, rootVars
<1>1. ASSUME NEW p \in Plans, CreateInitial(p) PROVE TypeOK' /\ Handle'
  BY <1>1, NewIsSound DEF CreateInitial, Sound
<1>2. CASE CreateInitialRefused
  BY <1>2 DEF CreateInitialRefused
<1>3. CASE OpenReconstruction
  BY <1>3 DEF OpenReconstruction, OnlyStateFile, Readable
<1>4. CASE OpenReconstructionRefused
  BY <1>4 DEF OpenReconstructionRefused
<1>5. CASE Close
  BY <1>5 DEF Close
<1>6. ASSUME NEW i \in Bindings, NEW v \in Values, Bind(i, v) PROVE TypeOK' /\ Handle'
  BY <1>6, AdvancedExtends DEF Bind
<1>7. ASSUME NEW i \in Bindings, NEW v \in Values \cup BadValues, BindRefused(i, v)
      PROVE  TypeOK' /\ Handle'
  BY <1>7 DEF BindRefused, RootVerdict
<1>8. CASE ValidateUnchanged
  BY <1>8 DEF ValidateUnchanged, RootVerdict
<1>9. CASE RootUnusable
  BY <1>9 DEF RootUnusable
<1>10. CASE AtomicWrite
  <2>1. CASE OpenTemp \/ Fill \/ SyncTemp
    BY <2>1 DEF OpenTemp, Fill, SyncTemp
  <2>2. CASE Rename
    BY <2>2 DEF Rename
  <2>3. CASE SyncDir
    BY <2>3 DEF SyncDir
  <2>4. CASE ReadBack
    BY <2>4 DEF ReadBack, ReadBackOK, Readable
  <2> QED
    BY <1>10, <2>1, <2>2, <2>3, <2>4 DEF AtomicWrite
<1>11. CASE WriteFails
  BY <1>11 DEF WriteFails
<1>12. CASE Kill
  BY <1>12 DEF Kill
<1>13. CASE PowerLoss
  BY <1>13 DEF PowerLoss
<1>14. ASSUME NEW content \in TamperedContents, Tamper(content) PROVE TypeOK' /\ Handle'
  BY <1>14, TamperedTyped DEF Tamper
<1>15. CASE UNCHANGED vars
  BY <1>15 DEF vars
<1> QED
  BY <1>1, <1>2, <1>3, <1>4, <1>5, <1>6, <1>7, <1>8, <1>9, <1>10, <1>11, <1>12, <1>13,
     <1>14, <1>15 DEF Next

\* Every step of the Store, of the kernel and of the supervisor keeps disk,
\* memory and goal in agreement.
LEMMA LedgerStep ==
    TypeOK /\ Handle /\ Ledger /\ [Next]_vars /\ foreign' = "no" => Ledger'
<1> SUFFICES ASSUME TypeOK, Handle, Ledger, [Next]_vars, foreign' = "no" PROVE Ledger'
  OBVIOUS
<1> USE MarkersAssumption DEF TypeOK, Handle, Ledger, WriteSteps, rootVars
<1>1. ASSUME NEW p \in Plans, CreateInitial(p) PROVE Ledger'
  BY <1>1, NewIsSound DEF CreateInitial, EmptyRoot
<1>2. CASE CreateInitialRefused
  BY <1>2 DEF CreateInitialRefused
<1>3. CASE OpenReconstruction
  BY <1>3 DEF OpenReconstruction, OnlyStateFile, Readable
<1>4. CASE OpenReconstructionRefused
  BY <1>4 DEF OpenReconstructionRefused
<1>5. CASE Close
  BY <1>5 DEF Close
<1>6. ASSUME NEW i \in Bindings, NEW v \in Values, Bind(i, v) PROVE Ledger'
  <2>1. mem \in State /\ file = mem /\ mem # NoFile
    BY <1>6 DEF Bind, RootVerdict
  <2>2. Sound(goal') /\ Extends(goal', mem) /\ goal'.rev = mem.rev + 1
    BY <1>6, <2>1, AdvancedExtends DEF Bind, Sound
  <2> QED
    BY <1>6, <2>1, <2>2 DEF Bind
<1>7. ASSUME NEW i \in Bindings, NEW v \in Values \cup BadValues, BindRefused(i, v)
      PROVE  Ledger'
  BY <1>7 DEF BindRefused
<1>8. CASE ValidateUnchanged
  BY <1>8 DEF ValidateUnchanged
<1>9. CASE RootUnusable
  BY <1>9 DEF RootUnusable
<1>10. CASE OpenTemp \/ Fill \/ SyncTemp
  BY <1>10 DEF OpenTemp, Fill, SyncTemp
<1>11. CASE Rename
  <2>1. acked # NoFile => Extends(goal, acked)
    BY <1>11, ExtendsOrder DEF Rename, Sound
  <2> QED
    BY <1>11, <2>1 DEF Rename, Sound
<1>12. CASE SyncDir
  BY <1>12 DEF SyncDir
<1>13. CASE ReadBack
  BY <1>13, ExtendsOrder DEF ReadBack, Sound
<1>14. CASE WriteFails
  BY <1>14 DEF WriteFails
<1>15. CASE Kill
  BY <1>15 DEF Kill
<1>16. CASE PowerLoss
  BY <1>16 DEF PowerLoss
<1>17. ASSUME NEW content \in TamperedContents, Tamper(content) PROVE Ledger'
  BY <1>17 DEF Tamper
<1>18. CASE UNCHANGED vars
  BY <1>18 DEF vars
<1> QED
  BY <1>1, <1>2, <1>3, <1>4, <1>5, <1>6, <1>7, <1>8, <1>9, <1>10, <1>11, <1>12, <1>13,
     <1>14, <1>15, <1>16, <1>17, <1>18 DEF Next, AtomicWrite

\* A root that somebody changed is never trusted again by the model's history.
LEMMA ForeignStays == [Next]_vars /\ foreign' = "no" => foreign = "no"
  BY DEF Next, vars, CreateInitial, CreateInitialRefused, OpenReconstruction,
     OpenReconstructionRefused, Close, Bind, BindRefused, ValidateUnchanged, RootUnusable,
     AtomicWrite, OpenTemp, Fill, SyncTemp, Rename, SyncDir, ReadBack, WriteFails, Kill,
     PowerLoss, Tamper

\* The inductive invariant holds in every behaviour of the store.
THEOREM IInvHolds == Spec => []IInv
<1>1. IInv /\ [Next]_vars => IInv'
  BY TypeStep, LedgerStep, ForeignStays DEF IInv
<1> QED
  BY <1>1, IInvInit, PTL DEF Spec

-----------------------------------------------------------------------------
(* The properties *)

\* Types are respected, whatever fails, whoever tampers.
THEOREM TypeCorrect == Spec => []TypeOK
<1>1. IInv => TypeOK
  BY DEF IInv
<1> QED
  BY <1>1, IInvHolds, PTL

\* A reported state survives failed writes, kills and power losses.
THEOREM Durability == Spec => []AckedIsDurable
<1>1. IInv => AckedIsDurable
  BY DEF IInv, Ledger, AckedIsDurable, Survivors
<1> QED
  BY <1>1, IInvHolds, PTL

\* The state file is replaced atomically.
THEOREM Atomicity == Spec => []NeverTorn
<1>1. IInv => NeverTorn
  BY DEF IInv, Ledger, NeverTorn, Survivors, Sound
<1> QED
  BY <1>1, IInvHolds, PTL

\* Reported bindings only accumulate: one plan per root, across processes.
THEOREM Accumulation == Spec => AckedOnlyGrows
<1>1. IInv /\ [Next]_vars =>
        (foreign' = "no" /\ acked # NoFile => Extends(acked', acked))
  <2> SUFFICES ASSUME IInv, [Next]_vars, foreign' = "no", acked # NoFile
               PROVE  Extends(acked', acked)
    OBVIOUS
  <2>1. acked \in State /\ Extends(acked, acked)
    BY ExtendsOrder DEF IInv, TypeOK
  <2>2. Ledger
    BY ForeignStays DEF IInv
  <2>3. CASE ReadBack
    BY <2>2, <2>3 DEF ReadBack, Ledger
  <2>4. CASE UNCHANGED acked
    BY <2>1, <2>4
  <2> QED
    BY <2>3, <2>4 DEF Next, vars, CreateInitial, CreateInitialRefused, OpenReconstruction,
       OpenReconstructionRefused, Close, Bind, BindRefused, ValidateUnchanged, RootUnusable,
       AtomicWrite, OpenTemp, Fill, SyncTemp, Rename, SyncDir, WriteFails, Kill,
       PowerLoss, Tamper
<1> QED
  BY <1>1, IInvHolds, PTL DEF Spec, AckedOnlyGrows

\* While power stays on the file moves only to its own next revision.
THEOREM Monotonicity == Spec => DiskOnlyAdvances
<1>1. IInv /\ [Next]_vars =>
        (foreign' = "no" /\ pc' # "off" /\ file # NoFile /\ file' # file =>
            Extends(file', file) /\ file'.rev = file.rev + 1)
  <2> SUFFICES ASSUME IInv, [Next]_vars, foreign' = "no", pc' # "off",
                      file # NoFile, file' # file
               PROVE  Extends(file', file) /\ file'.rev = file.rev + 1
    OBVIOUS
  <2>1. Ledger
    BY ForeignStays DEF IInv
  <2>2. Rename
    BY DEF Next, vars, rootVars, CreateInitial, CreateInitialRefused, OpenReconstruction,
       OpenReconstructionRefused, Close, Bind, BindRefused, ValidateUnchanged, RootUnusable,
       AtomicWrite, OpenTemp, Fill, SyncTemp, SyncDir, ReadBack, WriteFails, Kill,
       PowerLoss, Tamper
  <2> QED
    BY <2>1, <2>2 DEF Rename, Ledger, WriteSteps
<1> QED
  BY <1>1, IInvHolds, PTL DEF Spec, DiskOnlyAdvances

-----------------------------------------------------------------------------
(* A root the Store does not own *)

\* A file in place is on the disk, and the write that is about to replace one
\* that somebody put there has read it as its own.
Guarded ==
    /\ fsynced
    /\ foreign = "replaced" /\ pc \in {"opentemp", "fill", "fsync", "rename"} => file = mem

LEMMA GuardedStep == TypeOK /\ Handle /\ Guarded /\ [Next]_vars => Guarded'
<1> SUFFICES ASSUME TypeOK, Handle, Guarded, [Next]_vars PROVE Guarded'
  OBVIOUS
<1> USE DEF Handle, Guarded, WriteSteps, rootVars
<1>1. ASSUME NEW p \in Plans, CreateInitial(p) PROVE Guarded'
  BY <1>1 DEF CreateInitial, EmptyRoot
<1>2. ASSUME NEW i \in Bindings, NEW v \in Values, Bind(i, v) PROVE Guarded'
  BY <1>2 DEF Bind, RootVerdict
<1>3. CASE AtomicWrite
  <2>1. CASE OpenTemp \/ Fill \/ SyncTemp
    BY <2>1 DEF OpenTemp, Fill, SyncTemp
  <2>2. CASE Rename \/ SyncDir \/ ReadBack
    BY <2>2 DEF Rename, SyncDir, ReadBack
  <2> QED
    BY <1>3, <2>1, <2>2 DEF AtomicWrite
<1>4. CASE WriteFails \/ Kill \/ PowerLoss
  BY <1>4 DEF WriteFails, Kill, PowerLoss
<1>5. ASSUME NEW content \in TamperedContents, Tamper(content) PROVE Guarded'
  BY <1>5 DEF Tamper
<1>6. CASE CreateInitialRefused \/ OpenReconstruction \/ OpenReconstructionRefused \/ Close
  BY <1>6 DEF CreateInitialRefused, OpenReconstruction, OpenReconstructionRefused, Close
<1>7. ASSUME NEW i \in Bindings, NEW v \in Values \cup BadValues, BindRefused(i, v) PROVE Guarded'
  BY <1>7 DEF BindRefused
<1>8. CASE ValidateUnchanged \/ RootUnusable \/ UNCHANGED vars
  BY <1>8 DEF ValidateUnchanged, RootUnusable, vars
<1> QED
  BY <1>1, <1>2, <1>3, <1>4, <1>5, <1>6, <1>7, <1>8 DEF Next

\* A file that somebody changed before the operation started is never replaced,
\* and a root left in a partial stage is never opened again, whatever is called,
\* fails or is lost (StrangeRootIsLeftAlone).
THEOREM Forbearance == Spec => StrangeRootIsLeftAlone
<1>1. Init => Guarded
  BY DEF Init, Guarded
<1>2. TypeOK /\ Handle /\ Guarded /\ [Next]_vars => Guarded'
  BY GuardedStep
<1>3. ASSUME TypeOK, Handle, Guarded, [Next]_vars, foreign = "replaced", file # mem
      PROVE  file' \in {file, dfile}
  <2>1. ~Rename /\ \A content \in TamperedContents : ~Tamper(content)
    BY <1>3 DEF Rename, Tamper, Guarded
  <2>2. CASE PowerLoss
    BY <1>3, <2>2 DEF PowerLoss, Guarded
  <2>3. CASE \/ OpenTemp \/ Fill \/ SyncTemp \/ SyncDir \/ ReadBack \/ WriteFails \/ Kill
             \/ UNCHANGED vars
    BY <2>3 DEF OpenTemp, Fill, SyncTemp, SyncDir, ReadBack, WriteFails, Kill, rootVars, vars
  <2>4. CASE CreateInitialRefused \/ OpenReconstruction \/ OpenReconstructionRefused \/ Close
    BY <2>4 DEF CreateInitialRefused, OpenReconstruction, OpenReconstructionRefused, Close, rootVars
  <2>5. CASE ValidateUnchanged \/ RootUnusable \/ \E p \in Plans : CreateInitial(p)
    BY <2>5 DEF ValidateUnchanged, RootUnusable, CreateInitial, rootVars
  <2>6. CASE \/ \E i \in Bindings, v \in Values : Bind(i, v)
             \/ \E i \in Bindings, v \in Values \cup BadValues : BindRefused(i, v)
    BY <2>6 DEF Bind, BindRefused, rootVars
  <2> QED
    BY <1>3, <2>1, <2>2, <2>3, <2>4, <2>5, <2>6 DEF Next, AtomicWrite
<1>4. ASSUME TypeOK, Handle, Guarded, [Next]_vars, Sealed, foreign' = "no"
      PROVE  Sealed'
  <2> USE DEF Sealed, rootVars
  <2>1. file # NoFile /\ file.stage # Complete
    BY <1>4, MarkersAssumption DEF State, Stages, Complete
  <2>2. ~(\E p \in Plans : CreateInitial(p)) /\ ~OpenReconstruction
    BY <2>1 DEF CreateInitial, EmptyRoot, OpenReconstruction
  <2>3. /\ ~AtomicWrite /\ ~WriteFails /\ ~Close
        /\ ~\E i \in Bindings, v \in Values : Bind(i, v)
    BY <1>4 DEF AtomicWrite, OpenTemp, Fill, SyncTemp, Rename, SyncDir, ReadBack, WriteFails,
       WriteSteps, Close, Bind
  <2>4. \A content \in TamperedContents : ~Tamper(content)
    BY <1>4 DEF Tamper, WriteSteps
  <2>5. CASE PowerLoss
    BY <1>4, <2>5 DEF PowerLoss, Guarded
  <2>6. CASE Kill \/ UNCHANGED vars
    BY <1>4, <2>6 DEF Kill, vars
  <2>7. CASE CreateInitialRefused \/ OpenReconstructionRefused
    BY <1>4, <2>7 DEF CreateInitialRefused, OpenReconstructionRefused
  <2>8. CASE ValidateUnchanged \/ RootUnusable
    BY <1>4, <2>8 DEF ValidateUnchanged, RootUnusable
  <2>9. CASE \E i \in Bindings, v \in Values \cup BadValues : BindRefused(i, v)
    BY <1>4, <2>9 DEF BindRefused
  <2> QED
    BY <1>4, <2>2, <2>3, <2>4, <2>5, <2>6, <2>7, <2>8, <2>9 DEF Next
<1>5. TypeOK /\ Handle /\ Guarded /\ [Next]_vars =>
         [/\ foreign = "replaced" /\ file # mem => file' \in {file, dfile}
          /\ Sealed /\ foreign' = "no" => Sealed']_vars
  BY <1>3, <1>4
<1>6. IInv => TypeOK /\ Handle
  BY DEF IInv
<1> QED
  BY <1>1, <1>2, <1>5, <1>6, IInvHolds, PTL DEF Spec, StrangeRootIsLeftAlone

=============================================================================
