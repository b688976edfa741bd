--------------------------- MODULE ProviderRequest ---------------------------
(***************************************************************************)
(* One logical request to the Provider, on the clock: the policy decision it  *)
(* rests on, its deadline, the admission signed for it, the client's own      *)
(* checks, the classification of what comes back, and the retries.            *)
(*                                                                         *)
(* internal/callerprovider (createRequest, boundedDeadline, the admission     *)
(* builders and the submit, poll and read loops), internal/provider           *)
(* (BuildAdmission, Client.newRequest, Client.do).                           *)
(*                                                                         *)
(* The clock counts ticks, several to a second.  Requests, contexts and policy *)
(* keep their fraction of a second where the code keeps it; the claims of an  *)
(* admission are whole seconds.  A step happens at one reading of the clock,   *)
(* and any time may pass between two steps.                                   *)
(***************************************************************************)
EXTENDS Integers

CONSTANTS
    Second,          \* ticks of a second
    Lifetime,        \* 60 seconds: of an admission, and of a bounded deadline
    MinLeft,         \* 100 milliseconds: what a bounded deadline must leave
    PollInterval,    \* pollInterval
    MaxPollAttempts, \* maxPollAttempts
    Hints,           \* values of Retry-After
    DurationLimit,   \* a time.Duration is in -DurationLimit .. DurationLimit - 1
    Deadlines,       \* deadlines a case may have
    Horizon          \* the last tick

ASSUME ClockAssumption ==
    /\ Second \in Nat \ {0, 1} /\ MinLeft \in 1..(Second - 1) /\ Lifetime \in Nat /\ Lifetime >= Second
    /\ DurationLimit \in Nat \ {0} /\ PollInterval \in 1..(DurationLimit - 1)
    /\ MaxPollAttempts \in Nat \ {0, 1} /\ Hints \subseteq Nat \ {0}
    /\ Horizon \in Nat /\ Deadlines \subseteq 0..Horizon

\* exec: also open_runtime_session; stage: also cancel_exec; read: the reads and
\* polls of the scenarios; retained: readRetained; discover: capabilities; replay
\* and restage: the create and the stage request of an earlier case sent again.
Kinds == {"create", "exec", "stage", "read", "retained", "discover", "connect", "replay", "restage"}
Reused == {"replay", "restage"}
Bounded == {"exec", "stage", "restage"}
Mutations == {"create", "replay"} \cup Bounded
Limited == Bounded \cup {"connect", "replay"}
SignedReads == {"read", "retained"}

None == 0
NoAdmission == [iat |-> 0, exp |-> 0, due |-> 0]
NoOutcome == [class |-> "none", status |-> "none", retryable |-> FALSE, after |-> None]

VARIABLES
    now,      \* time.Now
    kind,     \* what is requested
    deadline, \* deadline of the context
    limit,    \* expiry of the lease or of the handoff, or what limited the earlier case
              \* that built the request; else the deadline
    pc,       \* progress
    decided,  \* PolicyDecidedAt of the durable state
    due,      \* DeadlineAt of the request
    adm,      \* the admission: claims iat = nbf and exp, and DeadlineAt
    attempt,  \* attempts so far
    last,     \* outcome of the last attempt that was answered
    answered, \* when it was answered
    wake      \* when the retry timer fires

fixed == <<kind, deadline, limit>>
admissionVars == <<decided, due, adm>>
replyVars == <<last, answered, wake>>
vars == <<now, fixed, pc, admissionVars, attempt, replyVars>>

Times == 0..(Horizon + DurationLimit)
Outcomes == [class : {"none", "document", "rejection", "error"}, status : {"none", "success", "503", "429", "listed", "unlisted"},
             retryable : BOOLEAN, after : Hints \cup {None}]

\* Every variable has its type.
TypeOK ==
    /\ now \in 0..Horizon /\ kind \in Kinds /\ deadline \in Deadlines /\ limit \in 0..Horizon
    /\ pc \in {"policy", "request", "sign", "kept", "resign", "signed", "sent", "answered", "waiting", "ended"}
    /\ {decided, due, answered} \subseteq 0..Horizon /\ wake \in Times
    /\ adm \in [iat : 0..Horizon, exp : 0..Horizon, due : 0..Horizon]
    /\ attempt \in 1..MaxPollAttempts /\ last \in Outcomes

\* A later case has a later deadline (boundedCaseDeadline).
Init ==
    /\ now = 0 /\ kind \in Kinds /\ deadline \in Deadlines
    /\ limit \in IF kind \in Limited THEN Deadlines ELSE {deadline}
    /\ kind \in Reused => limit <= deadline
    /\ pc = IF kind = "discover" THEN "request" ELSE "policy"
    /\ decided = 0 /\ due = 0 /\ adm = NoAdmission
    /\ attempt = 1 /\ last = NoOutcome /\ answered = 0 /\ wake = 0

Least(a, b) == IF a <= b THEN a ELSE b
Seconds(t) == t \div Second
Truncate(t) == Seconds(t) * Second
ContextLives == now < deadline

Tick ==
    /\ now < Horizon /\ pc # "ended"
    /\ now' = now + 1
    /\ UNCHANGED <<fixed, pc, admissionVars, attempt, replyVars>>

\* The call returns, and nothing of the request is read again.
Ends ==
    /\ pc' = "ended"
    /\ decided' = 0 /\ due' = 0 /\ adm' = NoAdmission
    /\ attempt' = 1 /\ last' = NoOutcome /\ answered' = 0 /\ wake' = 0
    /\ UNCHANGED <<now, fixed>>

-----------------------------------------------------------------------------
(* Policy, request and admission                                             *)

\* Mutant: the decision keeps its fraction of a second.
PolicyDecisionExact(t) == t

PolicyDecisionAt(t) == Truncate(t)

\* BindCapabilities makes the decision durable; a later case, or a later
\* process, rests its requests on it.
DecidePolicy ==
    /\ pc = "policy"
    /\ decided' = PolicyDecisionAt(now) /\ pc' = "request"
    /\ UNCHANGED <<now, fixed, due, adm, attempt, replyVars>>

\* boundedDeadline: the context, the lease and a minute (MaxExecSeconds, when it is
\* less, bounds like a lease).
BoundedDeadline == Least(Least(deadline, limit), now + Lifetime)
\* The opener's deadline: the handoff's expiry or the dial's context.
ConnectDeadline == Least(deadline, limit)

\* What createRequest, the bounded requests and the opener require.
Requestable ==
    CASE kind = "create" -> deadline > now + Second
      [] kind = "replay" -> limit > now + Second
      [] kind \in Bounded -> ContextLives /\ BoundedDeadline > now + MinLeft
      [] kind = "connect" -> ContextLives /\ ConnectDeadline > now

BuildRequest ==
    /\ pc = "request" /\ kind \in Mutations \cup {"connect"}
    /\ \/ /\ Requestable /\ pc' = "sign"
          /\ due' = CASE kind = "create" -> deadline
                      [] kind = "replay" -> limit
                      [] kind \in Bounded -> BoundedDeadline
                      [] kind = "connect" -> ConnectDeadline
          /\ UNCHANGED <<now, fixed, decided, adm, attempt, replyVars>>
       \/ ~Requestable /\ Ends

\* buildAdmission: the claims at this reading of the clock, for a request due at d.
Admission(d) == [iat |-> Truncate(now), exp |-> Least(now + Lifetime, d), due |-> d]

\* A mutation or a connection: its admission is signed after its request is
\* built, when the request may already be late.
Sign ==
    /\ pc \in {"sign", "resign"}
    /\ \/ /\ due > now /\ adm' = Admission(due)
          /\ pc' = IF kind \in Reused /\ pc = "sign" THEN "kept" ELSE "signed"
          /\ UNCHANGED <<now, fixed, decided, due, attempt, replyVars>>
       \/ due <= now /\ Ends

\* executeReplay and executeCrossTenantArtifactRejection: a later case sends the
\* request again as it was built, the create request first with the admission it
\* had, then, like the stage request, with a new one.  Only the case's own
\* deadline is checked.
ReuseRequest ==
    /\ pc = "kept"
    /\ \/ /\ deadline > now + Second
          /\ pc' = "resign" \/ (kind = "replay" /\ pc' = "signed")
          /\ UNCHANGED <<now, fixed, admissionVars, attempt, replyVars>>
       \/ deadline <= now + Second /\ Ends

\* Mutant: a read is signed as long as its deadline has not passed.
ReadableAlways == ContextLives

\* readAdmission leaves a read more than a second.
Readable == deadline > now + Second

\* readAdmission: every attempt of a read has an admission of its own.
ReadAdmission ==
    /\ pc = "request" /\ kind \in SignedReads
    /\ \/ /\ Readable /\ due' = deadline /\ adm' = Admission(deadline) /\ pc' = "signed"
          /\ UNCHANGED <<now, fixed, decided, attempt, replyVars>>
       \/ ~Readable /\ Ends

-----------------------------------------------------------------------------
(* Client                                                                    *)

\* validateAdmissionEnvelope repeats the checks of the binding on the claims,
\* which are whole seconds (BuildAdmission made them on the times the builder
\* gave it, where they hold).
EnvelopeValid == Seconds(adm.exp) > Seconds(adm.iat)
\* validateAdmissionAt
AdmittedNow == Seconds(now) >= Seconds(adm.iat) /\ Seconds(now) < Seconds(adm.exp) /\ now < adm.due

\* Discovery has no admission; ConnectRuntimeSession checks the envelope and its
\* context, not the clock.
Sendable ==
    CASE kind = "discover" -> TRUE
      [] kind = "connect" -> EnvelopeValid /\ ContextLives
      [] OTHER -> EnvelopeValid /\ AdmittedNow

Send ==
    /\ pc = IF kind = "discover" THEN "request" ELSE "signed"
    /\ \/ Sendable /\ pc' = "sent" /\ UNCHANGED <<now, fixed, admissionVars, attempt, replyVars>>
       \/ ~Sendable /\ Ends

Malformed == -1

\* A response: its status among those of the operation, whether the body is
\* within the limit, its media type and document, its Retry-After header.
Responses == [status : {"success", "503", "429", "listed", "unlisted"}, within : BOOLEAN, json : BOOLEAN,
              document : {"retryable", "final", "invalid"}, after : Hints \cup {None, Malformed}]

\* The error statuses each operation passes to do.
ErrorStatuses == {"503", "listed"} \cup IF kind \in {"create", "replay", "exec", "connect"} THEN {"429"} ELSE {}

Rejection(r) == [class |-> "rejection", status |-> r.status, retryable |-> r.document = "retryable", after |-> r.after]
Other(class) == [NoOutcome EXCEPT !.class = class]

\* do and the decoder of the operation: a document, an explicit rejection, or an
\* error that says nothing of what the Provider did.
Do(r) ==
    CASE r.within /\ r.json /\ r.status = "success" /\ r.document # "invalid" -> Other("document")
      [] /\ r.within /\ r.json /\ r.status \in ErrorStatuses
         /\ r.document # "invalid" /\ r.after # Malformed -> Rejection(r)
      [] OTHER -> Other("error")

Respond ==
    /\ pc = "sent" /\ ContextLives
    /\ \E r \in Responses : last' = Do(r)
    /\ answered' = now /\ pc' = "answered"
    /\ UNCHANGED <<now, fixed, admissionVars, attempt, wake>>

\* A transport error, a TLS alert or the end of the context.
Lost == pc = "sent" /\ Ends

-----------------------------------------------------------------------------
(* Retries                                                                   *)

Tries ==
    CASE kind \in Mutations -> 2
      [] kind = "connect" -> 1
      [] OTHER -> MaxPollAttempts

\* An explicit refusal that asks for a retry, as the submit and read loops see it.
RetryStatuses == {"503"} \cup IF kind \in {"create", "replay", "exec"} THEN {"429"} ELSE {}
Retryable ==
    /\ last.class = "rejection" /\ last.status \in RetryStatuses /\ last.retryable
    /\ last.after \in Hints \/ (kind = "discover" /\ last.after = None)

\* time.Duration(seconds) * time.Second, which wraps around.
Duration(seconds) == ((seconds * Second + DurationLimit) % (2 * DurationLimit)) - DurationLimit

\* Mutant: the hint is converted as it is.
RetainedAny == TRUE

\* readRetained compares the hint with the whole seconds that remain, which
\* time.Until gives as a duration: never more than the largest one.
RetainedFits == ContextLives /\ last.after <= Seconds(Least(deadline - now, DurationLimit - 1))

\* A poll of an unfinished operation waits the poll interval.
Unfinished == kind = "read" /\ last.class = "document"

TimerFor(d) == wake' = now + (IF d > 0 THEN d ELSE 0) /\ pc' = "waiting"

WaitRetry ==
    /\ pc = "answered" /\ attempt < Tries
    /\ \/ Unfinished /\ TimerFor(PollInterval)
       \/ /\ Retryable /\ (kind = "retained" => RetainedFits)
          /\ TimerFor(IF last.after = None THEN PollInterval ELSE Duration(last.after))
    /\ UNCHANGED <<now, fixed, admissionVars, attempt, last, answered>>

\* A mutation is sent again with the same admission, a read with a new one.
TimerFires ==
    /\ pc = "waiting" /\ now >= wake
    /\ attempt' = attempt + 1
    /\ \/ kind \in Mutations /\ pc' = "signed" /\ UNCHANGED <<due, adm>>
       \/ kind \notin Mutations /\ pc' = "request" /\ due' = 0 /\ adm' = NoAdmission
    /\ last' = NoOutcome /\ answered' = 0 /\ wake' = 0
    /\ UNCHANGED <<now, fixed, decided>>

\* The loop returns: the document, or an outcome it does not retry.
Return ==
    /\ pc = "answered"
    /\ \/ last.class \in {"document", "error"} \/ ~Retryable \/ attempt = Tries
       \/ kind = "retained" /\ ~RetainedFits
    /\ Ends

ContextEndsWait == pc = "waiting" /\ ~ContextLives /\ Ends

Next ==
    \/ Tick \/ DecidePolicy \/ BuildRequest \/ Sign \/ ReuseRequest \/ ReadAdmission \/ Send
    \/ Respond \/ Lost \/ WaitRetry \/ TimerFires \/ Return \/ ContextEndsWait

Spec == Init /\ [][Next]_vars

-----------------------------------------------------------------------------
(* Properties *)

\* What is sent, at the first attempt, after a wait or in a later case, is covered by its own
\* admission: not issued before the policy decision it names, not expiring after
\* the deadline it carries, which is within the context's and the limit's, and,
\* for what newRequest builds, inside its window in whole seconds.
SentIsAdmitted ==
    [][pc # "sent" /\ pc' = "sent" /\ kind # "discover" =>
        /\ decided <= adm.iat /\ adm.iat <= now
        /\ adm.exp <= adm.due /\ adm.due <= deadline
        /\ kind \in Limited => adm.due <= limit
        /\ kind # "connect" => now < Truncate(adm.exp)]_vars

\* A read that its builder signs is one the client sends: at the same reading of
\* the clock neither of the client's whole-second checks refuses it.
SignedReadIsSendable == [][pc = "request" /\ pc' = "signed" => Sendable']_vars

\* Another attempt follows an explicit answer: a mutation is repeated only after a
\* well-formed retryable refusal with a positive Retry-After, and no attempt is
\* made before the time the refusal asked for (readRetained whatever it asks for,
\* the others unless the hint overflows a duration).
RetryIsExplicit ==
    [][attempt' > attempt =>
        /\ last.class = "rejection" \/ Unfinished
        /\ last.class = "rejection" => last.retryable /\ last.status \in {"429", "503"}
        /\ kind \in Mutations => last.class = "rejection" /\ last.after # None
        /\ (kind = "retained" \/ last.after * Second < DurationLimit) => now >= answered + last.after * Second]_vars

=============================================================================
