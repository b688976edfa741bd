-------------------------- MODULE CallerStateStore --------------------------
(***************************************************************************)
(* The external caller's private correlation state                         *)
(* (internal/callerstate/store.go, state.go): one canonical file in a       *)
(* private directory, replaced by write-temp, fsync, rename, fsync-dir.     *)
(*                                                                         *)
(* One caller process at a time owns the root; it may be killed between any *)
(* two system calls, the machine may lose power, any system call may fail,  *)
(* and somebody else may modify the root.                                   *)
(*                                                                         *)
(* A state is a plan plus the bindings made so far.  Bindings are numbered  *)
(* in the order of the stages: provider, lifecycle, exec, terminal,         *)
(* artifact; stage k has exactly the first k.                               *)
(***************************************************************************)
EXTENDS Integers

CONSTANTS
    Plans,      \* plans crypto/rand may draw, never the same twice
    Values,     \* valid contents of a binding (fencing token, digests)
    BadValues,  \* contents the Bind methods refuse
    Unbound,    \* a binding that is null
    NoFile,     \* directory entry absent
    Torn        \* file content that readState rejects

ASSUME ValuesAssumption == Unbound \notin Values

Stages == 0..5            \* planned .. initial_complete
Complete == 5             \* StageInitialComplete
Bindings == 1..5

State == [plan : Plans, rev : Int, stage : Stages,
          bind : [Bindings -> Values \cup {Unbound}]]

ASSUME MarkersAssumption == NoFile # Torn /\ NoFile \notin State /\ Torn \notin State

VARIABLES
    \* the root directory
    file, fsynced,   \* StateFileName's content, and whether it was fsynced
    dfile,           \* its content in the directory as last fsynced
    temp,            \* the temporary entry: "absent", "torn" or "full"
    dtemp,           \* a temporary entry may be on the disk
    drawn,           \* plans drawn so far
    \* the caller process and its Store
    pc,              \* "off" when no process runs
    mem,             \* Store.state, NoFile when there is no Store
    goal,            \* the state being written
    reply,           \* outcome of the last call
    \* history
    acked,           \* last state a successful call has reported, or NoFile
    foreign          \* somebody else changed the root: see Tamper

rootVars == <<file, fsynced, dfile, temp, dtemp>>
vars == <<rootVars, drawn, pc, mem, goal, reply, acked, foreign>>

WriteSteps == {"opentemp", "fill", "fsync", "rename", "syncdir", "readback"}
Replies == {"none", "ok", "ErrRootContents", "ErrStateFile", "ErrInvalidState",
            "ErrInvalidTransition", "ErrStateChanged", "ErrStoreClosed",
            "ErrRootSecurity"}

\* Every variable has its type.
TypeOK ==
    /\ file \in State \cup {NoFile, Torn} /\ fsynced \in BOOLEAN
    /\ dfile \in State \cup {NoFile, Torn}
    /\ temp \in {"absent", "torn", "full"} /\ dtemp \in BOOLEAN
    /\ drawn \subseteq Plans
    /\ pc \in {"off", "open", "closed"} \cup WriteSteps
    /\ mem \in State \cup {NoFile}
    /\ goal \in State \cup {NoFile}
    /\ reply \in Replies
    /\ acked \in State \cup {NoFile}
    /\ foreign \in {"no", "replaced", "removed", "racing"}

\* The supervisor creates an empty private root.
Init ==
    /\ file = NoFile /\ fsynced = TRUE /\ dfile = NoFile
    /\ temp = "absent" /\ dtemp = FALSE
    /\ drawn = {}
    /\ pc = "off" /\ mem = NoFile /\ goal = NoFile /\ reply = "none"
    /\ acked = NoFile /\ foreign = "no"

-----------------------------------------------------------------------------
(* Operators on states *)

\* validateState: exactly the bindings of the stage are present.
ValidState(s) ==
    /\ s.rev >= 1
    /\ \A i \in Bindings : IF i <= s.stage THEN s.bind[i] \in Values ELSE s.bind[i] = Unbound

\* newInitialState
NewInitialState(p) ==
    [plan |-> p, rev |-> 1, stage |-> 0, bind |-> [i \in Bindings |-> Unbound]]

\* The mutation of the Bind method that leads to stage i.
Advanced(s, i, v) ==
    [plan |-> s.plan, rev |-> s.rev + 1, stage |-> i, bind |-> [s.bind EXCEPT ![i] = v]]

\* b has everything a has.
Extends(b, a) ==
    /\ b.plan = a.plan
    /\ b.rev >= a.rev /\ b.stage >= a.stage
    /\ \A i \in Bindings : i <= a.stage => b.bind[i] = a.bind[i]

-----------------------------------------------------------------------------
(* The root as readState and validateRootEntries see it *)

EmptyRoot == file = NoFile /\ temp = "absent"
OnlyStateFile == file # NoFile /\ temp = "absent"
Readable == file # NoFile /\ file # Torn /\ ValidState(file)

-----------------------------------------------------------------------------
(* Opening and closing *)

\* Mutant: the root is not required to be empty.
CreateInitialAnywhere(p) ==
    /\ pc = "off"
    /\ p \notin drawn
    /\ drawn' = drawn \cup {p}
    /\ goal' = NewInitialState(p)
    /\ pc' = "opentemp"
    /\ reply' = "none"
    /\ UNCHANGED <<rootVars, mem, acked, foreign>>

\* CreateInitial: an empty root, a fresh plan, then atomicWriteState.
CreateInitial(p) ==
    /\ pc = "off" /\ EmptyRoot
    /\ p \notin drawn
    /\ drawn' = drawn \cup {p}
    /\ goal' = NewInitialState(p)
    /\ pc' = "opentemp"
    /\ reply' = "none"
    /\ UNCHANGED <<rootVars, mem, acked, foreign>>

CreateInitialRefused ==
    /\ pc = "off" /\ ~EmptyRoot
    /\ pc' = "closed"
    /\ reply' = "ErrRootContents"
    /\ UNCHANGED <<rootVars, drawn, mem, goal, acked, foreign>>

\* Mutant: a partial state is accepted.
OpenAnyState ==
    /\ pc = "off" /\ OnlyStateFile /\ Readable
    /\ mem' = file
    /\ pc' = "open"
    /\ reply' = "ok"
    /\ UNCHANGED <<rootVars, drawn, goal, acked, foreign>>

OpenReconstruction ==
    /\ pc = "off" /\ OnlyStateFile /\ Readable
    /\ file.stage = Complete
    /\ mem' = file
    /\ pc' = "open"
    /\ reply' = "ok"
    /\ UNCHANGED <<rootVars, drawn, goal, acked, foreign>>

OpenReconstructionRefused ==
    /\ pc = "off"
    /\ ~(OnlyStateFile /\ Readable /\ file.stage = Complete)
    /\ pc' = "closed"
    /\ reply' = IF ~OnlyStateFile THEN "ErrRootContents"
                ELSE IF ~Readable THEN "ErrStateFile" ELSE "ErrInvalidState"
    /\ UNCHANGED <<rootVars, drawn, mem, goal, acked, foreign>>

Close ==
    /\ pc = "open"
    /\ pc' = "closed" /\ mem' = NoFile
    /\ reply' = "ok"
    /\ UNCHANGED <<rootVars, drawn, goal, acked, foreign>>

-----------------------------------------------------------------------------
(* Transitions *)

\* What transition and ValidateUnchanged find wrong with the root, if anything.
RootVerdict ==
    IF ~OnlyStateFile THEN "ErrRootContents"
    ELSE IF ~Readable THEN "ErrStateFile"
    ELSE IF file # mem THEN "ErrStateChanged" ELSE "ok"

\* Mutant: the file is not reread before an update.
BindBlindly(i, v) ==
    /\ pc = "open"
    /\ v \in Values /\ mem.stage = i - 1
    /\ goal' = Advanced(mem, i, v)
    /\ pc' = "opentemp"
    /\ reply' = "none"
    /\ UNCHANGED <<rootVars, drawn, mem, acked, foreign>>

\* BindCapabilities, BindLifecycle, BindExec, BindTerminal, BindArtifact: the
\* method that leads to stage i, with its own argument v.
Bind(i, v) ==
    /\ pc = "open"
    /\ v \in Values /\ mem.stage = i - 1
    /\ RootVerdict = "ok"
    /\ ValidState(Advanced(mem, i, v))
    /\ goal' = Advanced(mem, i, v)
    /\ pc' = "opentemp"
    /\ reply' = "none"
    /\ UNCHANGED <<rootVars, drawn, mem, acked, foreign>>

\* The argument is checked before the Store, the stage before the root.
BindRefused(i, v) ==
    /\ pc \in {"open", "closed"}
    /\ LET verdict == IF v \notin Values THEN "ErrInvalidTransition"
                      ELSE IF pc = "closed" THEN "ErrStoreClosed"
                      ELSE IF mem.stage # i - 1 THEN "ErrInvalidTransition"
                      ELSE RootVerdict
       IN  verdict # "ok" /\ reply' = verdict
    /\ UNCHANGED <<rootVars, drawn, pc, mem, goal, acked, foreign>>

\* The root cannot be opened, listed or read: not a private directory, or an
\* I/O error.  Whatever was called returns that error.
RootUnusable ==
    /\ pc \in {"off", "open"}
    /\ pc' = IF pc = "off" THEN "closed" ELSE "open"
    /\ reply' = "ErrRootSecurity"
    /\ UNCHANGED <<rootVars, drawn, mem, goal, acked, foreign>>

ValidateUnchanged ==
    /\ pc \in {"open", "closed"}
    /\ reply' = IF pc = "closed" THEN "ErrStoreClosed" ELSE RootVerdict
    /\ UNCHANGED <<rootVars, drawn, pc, mem, goal, acked, foreign>>

-----------------------------------------------------------------------------
(* atomicWriteState, one system call at a time, then the read back *)

OpenTemp ==
    /\ pc = "opentemp"
    /\ temp' = "torn" /\ dtemp' = TRUE
    /\ pc' = "fill"
    /\ UNCHANGED <<file, fsynced, dfile, drawn, mem, goal, reply, acked, foreign>>

Fill ==
    /\ pc = "fill"
    /\ temp' = "full"
    /\ pc' = "fsync"
    /\ UNCHANGED <<file, fsynced, dfile, dtemp, drawn, mem, goal, reply, acked, foreign>>

SyncTemp ==
    /\ pc = "fsync"
    /\ pc' = "rename"
    /\ UNCHANGED <<rootVars, drawn, mem, goal, reply, acked, foreign>>

\* Mutant: the temporary file is renamed before it is fsynced.
RenameUnsynced ==
    /\ pc = "rename"
    /\ file' = goal /\ fsynced' = FALSE
    /\ temp' = "absent"
    /\ pc' = "syncdir"
    /\ UNCHANGED <<dfile, dtemp, drawn, mem, goal, reply, acked, foreign>>

Rename ==
    /\ pc = "rename"
    /\ file' = goal /\ fsynced' = TRUE
    /\ temp' = "absent"
    /\ pc' = "syncdir"
    /\ UNCHANGED <<dfile, dtemp, drawn, mem, goal, reply, acked, foreign>>

\* Mutant: the directory is not fsynced.
SyncDirSkipped ==
    /\ pc = "syncdir"
    /\ pc' = "readback"
    /\ UNCHANGED <<rootVars, drawn, mem, goal, reply, acked, foreign>>

SyncDir ==
    /\ pc = "syncdir"
    /\ dfile' = file /\ dtemp' = FALSE
    /\ pc' = "readback"
    /\ UNCHANGED <<file, fsynced, temp, drawn, mem, goal, reply, acked, foreign>>

\* The call succeeds only if the file reads back as written; CreateInitial
\* (mem is NoFile) also wants no other entry.
ReadBackOK == Readable /\ file = goal /\ (mem = NoFile => temp = "absent")

ReadBack ==
    /\ pc = "readback" /\ ReadBackOK
    /\ mem' = goal
    /\ acked' = goal
    /\ goal' = NoFile
    /\ pc' = "open"
    /\ reply' = "ok"
    /\ UNCHANGED <<rootVars, drawn, foreign>>

\* Any of these system calls fails.  Before the rename the temporary file is
\* removed, an error of the removal being ignored; after it nothing is undone.
\* CreateInitial closes the root, a Bind leaves the Store open as it was.
WriteFails ==
    /\ pc \in WriteSteps
    /\ IF pc \in {"fill", "fsync", "rename"}
       THEN temp' \in {"absent", temp}
       ELSE UNCHANGED temp
    /\ pc' = IF mem = NoFile THEN "closed" ELSE "open"
    /\ reply' = "ErrStateFile"
    /\ goal' = NoFile
    /\ UNCHANGED <<file, fsynced, dfile, dtemp, drawn, mem, acked, foreign>>

-----------------------------------------------------------------------------
(* The environment *)

\* The process exits or its supervisor kills it, at any point.
Kill ==
    /\ pc # "off"
    /\ pc' = "off" /\ mem' = NoFile /\ goal' = NoFile /\ reply' = "none"
    /\ UNCHANGED <<rootVars, drawn, acked, foreign>>

\* Power is lost: unsynced directory changes may be undone, unsynced content
\* may be torn, and a temporary entry may be found.
PowerLoss ==
    /\ pc' = "off" /\ mem' = NoFile /\ goal' = NoFile /\ reply' = "none"
    /\ file' \in {dfile, file} \cup (IF fsynced THEN {} ELSE {Torn})
    /\ dfile' = file' /\ fsynced' = TRUE
    /\ temp' \in {"absent"} \cup (IF dtemp THEN {"torn"} ELSE {})
    /\ dtemp' = (temp' # "absent")
    /\ UNCHANGED <<drawn, acked, foreign>>

\* Somebody else replaces or removes the state file, durably, between two
\* operations of the Store or while a write is under way.
Tamper(content) ==
    /\ foreign = "no"
    /\ content # file
    /\ file' = content /\ dfile' = content /\ fsynced' = TRUE
    /\ foreign' = IF pc \in WriteSteps THEN "racing"
                  ELSE IF content = NoFile THEN "removed" ELSE "replaced"
    /\ UNCHANGED <<temp, dtemp, drawn, pc, mem, goal, reply, acked>>

\* A tamperer may leave nothing, garbage, the state before the last binding, or
\* a state with one binding more.
RolledBack(s) ==
    [plan |-> s.plan, rev |-> s.rev - 1, stage |-> s.stage - 1,
     bind |-> [s.bind EXCEPT ![s.stage] = Unbound]]

TamperedContents ==
    {NoFile, Torn} \cup
    (IF file \in State /\ file.stage > 0 THEN {RolledBack(file)} ELSE {}) \cup
    (IF file \in State /\ file.stage < Complete
     THEN {Advanced(file, file.stage + 1, v) : v \in Values} ELSE {})

-----------------------------------------------------------------------------

AtomicWrite ==
    \/ OpenTemp \/ Fill \/ SyncTemp \/ Rename \/ SyncDir \/ ReadBack

Next ==
    \/ \E p \in Plans : CreateInitial(p)
    \/ CreateInitialRefused
    \/ OpenReconstruction
    \/ OpenReconstructionRefused
    \/ Close
    \/ \E i \in Bindings, v \in Values : Bind(i, v)
    \/ \E i \in Bindings, v \in Values \cup BadValues : BindRefused(i, v)
    \/ ValidateUnchanged
    \/ RootUnusable
    \/ AtomicWrite
    \/ WriteFails
    \/ Kill
    \/ PowerLoss
    \/ \E content \in TamperedContents : Tamper(content)

Spec == Init /\ [][Next]_vars

-----------------------------------------------------------------------------
(* Safety *)

\* What the state file may hold after a power loss that happens now.
Survivors == {dfile, file} \cup (IF fsynced THEN {} ELSE {Torn})

\* A state a successful call has reported is never lost: whatever happens next
\* (a failed write, a kill, a power loss), the file holds its plan and all its
\* bindings.
AckedIsDurable ==
    foreign = "no" /\ acked # NoFile =>
        \A f \in Survivors : f \in State /\ Extends(f, acked)

\* The file is replaced atomically: it is absent or one valid revision, never
\* a torn or a half-bound one.
NeverTorn ==
    foreign = "no" => \A f \in Survivors : f = NoFile \/ (f \in State /\ ValidState(f))

\* As long as power stays on, the file only moves to its own next revision,
\* also when an earlier Bind failed after its rename and the Store's memory is
\* a revision behind the disk.
DiskOnlyAdvances ==
    [][foreign' = "no" /\ pc' # "off" /\ file # NoFile /\ file' # file =>
           Extends(file', file) /\ file'.rev = file.rev + 1]_vars

\* One plan per root, and reported bindings only accumulate, across processes.
AckedOnlyGrows ==
    [][foreign' = "no" /\ acked # NoFile => Extends(acked', acked)]_vars

\* A root that a process left in a partial stage.
Sealed ==
    /\ foreign = "no"
    /\ pc \in {"off", "closed"}
    /\ mem = NoFile
    /\ \A f \in {file, dfile} : f \in State /\ f.stage < Complete

\* A root the Store does not own is left alone.  A file that somebody changed
\* before the operation started is never replaced: the reread of transition and
\* the emptiness check of CreateInitial refuse it.  A partial root is never opened
\* again: not by CreateInitial, not by OpenReconstruction.
StrangeRootIsLeftAlone ==
    [][/\ foreign = "replaced" /\ file # mem => file' \in {file, dfile}
       /\ Sealed /\ foreign' = "no" => Sealed']_vars

=============================================================================
