------------------------ MODULE ProviderRequest_proof ------------------------
(***************************************************************************)
(* Proofs about ProviderRequest for every length of a second, every lifetime *)
(* of an admission, every deadline, limit and Retry-After, and any bound on   *)
(* the attempts of a read.                                                   *)
(***************************************************************************)
EXTENDS ProviderRequest, TLAPS

\* What is known of an admission once it is signed, at any later time.
Covered(a) ==
    /\ decided <= a.iat /\ a.iat <= now
    /\ a.exp <= a.due /\ a.due <= deadline
    /\ kind \in Limited => a.due <= limit

\* Where each kind of request is, and what its request and admission rest on.
Basis ==
    /\ kind = "discover" => pc \in {"request", "sent", "answered", "waiting", "ended"}
    /\ decided <= Truncate(now)
    /\ kind \in Reused => limit <= deadline
    /\ pc \in {"sign", "kept", "resign"} =>
          /\ kind \in Mutations \cup {"connect"} /\ due <= deadline
          /\ kind \in Limited => due <= limit
    /\ pc \in {"kept", "signed", "sent", "answered", "waiting"} /\ kind # "discover" => Covered(adm)

\* What the answer was, and until when the retry waits for it.
Waiting ==
    /\ answered <= now
    /\ last.class = "document" => last.after = None
    /\ pc = "waiting" =>
          /\ attempt < Tries /\ (Unfinished \/ Retryable)
          /\ kind = "retained" \/ last.after * Second < DurationLimit =>
                wake >= answered + last.after * Second

IInv == TypeOK /\ Basis /\ Waiting

-----------------------------------------------------------------------------
(* Whole seconds *)

\* A time is within its second.
LEMMA WithinSecond ==
    ASSUME NEW t \in Nat
    PROVE  /\ Seconds(t) \in Nat /\ Truncate(t) \in Nat /\ Truncate(t) <= t
           /\ t < Truncate(t) + Second
<1>1. Second \in Nat \ {0}
  BY ClockAssumption
<1>2. Seconds(t) \in Nat
  BY <1>1 DEF Seconds
<1>3. \A a \in Nat, m \in Nat \ {0} :
          (a \div m) * m \in Nat /\ (a \div m) * m <= a /\ a < (a \div m) * m + m
  OBVIOUS
<1> QED
  BY <1>1, <1>2, <1>3 DEF Seconds, Truncate

\* Multiples of a second are ordered like their numbers.
LEMMA SecondsScale ==
    ASSUME NEW a \in Nat, NEW b \in Nat
    PROVE  /\ a * Second \in Nat
           /\ a <= b => a * Second <= b * Second
           /\ a < b => a * Second + Second <= b * Second
  BY ClockAssumption

\* Truncation keeps the order.
LEMMA SecondsOrder ==
    ASSUME NEW a \in Nat, NEW b \in Nat, a <= b
    PROVE  Seconds(a) <= Seconds(b) /\ Truncate(a) <= Truncate(b)
<1>0. Second \in Nat \ {0}
  BY ClockAssumption
<1>1. /\ Seconds(a) \in Nat /\ Truncate(a) \in Nat /\ Truncate(a) <= a
      /\ Seconds(b) \in Nat /\ Truncate(b) \in Nat /\ b < Truncate(b) + Second
  BY WithinSecond
<1>2. Seconds(b) < Seconds(a) => Truncate(b) + Second <= Truncate(a)
  BY <1>1, SecondsScale DEF Truncate
<1>3. Seconds(a) <= Seconds(b)
  BY <1>0, <1>1, <1>2
<1>4. Truncate(a) <= Truncate(b)
  BY <1>1, <1>3, SecondsScale DEF Truncate
<1> QED
  BY <1>3, <1>4

\* Another second is another number; truncating twice changes nothing.
LEMMA NextSecond ==
    ASSUME NEW t \in Nat, NEW u \in Nat
    PROVE  /\ u >= t + Second => Seconds(u) > Seconds(t)
           /\ Seconds(Truncate(t)) = Seconds(t)
           /\ Seconds(t) < Seconds(u) => t < Truncate(u)
<1>0. Second \in Nat \ {0}
  BY ClockAssumption
<1>1. /\ Seconds(t) \in Nat /\ Truncate(t) \in Nat /\ Truncate(t) <= t /\ t < Truncate(t) + Second
      /\ Seconds(u) \in Nat /\ Truncate(u) \in Nat /\ Truncate(u) <= u /\ u < Truncate(u) + Second
  BY WithinSecond
<1>2. ASSUME u >= t + Second PROVE Seconds(u) > Seconds(t)
  <2>1. Truncate(t) < Truncate(u)
    BY <1>0, <1>1, <1>2
  <2>2. Seconds(u) <= Seconds(t) => Truncate(u) <= Truncate(t)
    BY <1>1, SecondsScale DEF Truncate
  <2> QED
    BY <1>1, <2>1, <2>2
<1>3. Seconds(Truncate(t)) = Seconds(t)
  <2>1. Seconds(Truncate(t)) \in Nat /\ Seconds(Truncate(t)) <= Seconds(t)
    BY <1>1, WithinSecond, SecondsOrder
  <2>2. Truncate(t) < Truncate(Truncate(t)) + Second
    BY <1>1, WithinSecond
  <2>3. Seconds(Truncate(t)) < Seconds(t) => Truncate(Truncate(t)) + Second <= Truncate(t)
    BY <1>1, <2>1, SecondsScale DEF Truncate
  <2>4. Truncate(Truncate(t)) \in Nat
    BY <1>1, WithinSecond
  <2> QED
    BY <1>0, <1>1, <2>1, <2>2, <2>3, <2>4
<1>4. ASSUME Seconds(t) < Seconds(u) PROVE t < Truncate(u)
  <2>1. Truncate(t) + Second <= Truncate(u)
    BY <1>1, <1>4, SecondsScale DEF Truncate
  <2> QED
    BY <1>0, <1>1, <2>1
<1> QED
  BY <1>2, <1>3, <1>4

\* A hint that fits a duration is converted exactly; any other to some duration.
LEMMA DurationFits ==
    ASSUME NEW h \in Nat
    PROVE  /\ h * Second \in Nat /\ Duration(h) \in Int /\ Duration(h) < DurationLimit
           /\ h * Second < DurationLimit => Duration(h) = h * Second
<1> DEFINE x == h * Second
<1>0. x \in Nat /\ DurationLimit \in Nat \ {0}
  BY ClockAssumption
<1>1. /\ (x + DurationLimit) % (2 * DurationLimit) \in 0..(2 * DurationLimit - 1)
      /\ x < DurationLimit => (x + DurationLimit) % (2 * DurationLimit) = x + DurationLimit
  <2> HIDE DEF x
  <2>1. 2 * DurationLimit \in Nat \ {0} /\ x + DurationLimit \in Nat
    BY <1>0
  <2>2. \A a \in Nat, m \in Nat \ {0} : a % m \in 0..(m - 1) /\ (a < m => a % m = a)
    OBVIOUS
  <2>3. x < DurationLimit => x + DurationLimit < 2 * DurationLimit
    BY <1>0
  <2> QED
    BY <2>1, <2>2, <2>3
<1> HIDE DEF x
<1>2. Duration(h) = ((x + DurationLimit) % (2 * DurationLimit)) - DurationLimit
  BY DEF Duration, x
<1>3. x = h * Second
  BY DEF x
<1> QED
  BY <1>0, <1>1, <1>2, <1>3

-----------------------------------------------------------------------------
(* The invariant *)

\* The types that arithmetic about a state needs.
LEMMA Numbers ==
    ASSUME TypeOK
    PROVE  /\ now \in Nat /\ deadline \in Nat /\ limit \in Nat /\ decided \in Nat /\ due \in Nat
           /\ answered \in Nat /\ wake \in Nat /\ attempt \in Nat /\ Horizon \in Nat
           /\ deadline <= Horizon /\ limit <= Horizon /\ now <= Horizon
           /\ adm.iat \in Nat /\ adm.exp \in Nat /\ adm.due \in Nat
           /\ last.after \in Nat /\ Second \in Nat \ {0} /\ Truncate(now) \in Nat /\ Truncate(now) <= now
<1>1. /\ now \in 0..Horizon /\ deadline \in 0..Horizon /\ limit \in 0..Horizon
      /\ decided \in 0..Horizon /\ due \in 0..Horizon /\ answered \in 0..Horizon
      /\ attempt \in 1..MaxPollAttempts /\ MaxPollAttempts \in Nat /\ Horizon \in Nat
      /\ Second \in Nat \ {0} /\ DurationLimit \in Nat
  BY ClockAssumption DEF TypeOK
<1>2. wake \in Nat
  BY <1>1 DEF TypeOK, Times
<1>3. adm.iat \in Nat /\ adm.exp \in Nat /\ adm.due \in Nat
  BY <1>1 DEF TypeOK
<1>4. last.after \in Nat
  <2>1. last.after \in Hints \cup {None}
    BY DEF TypeOK, Outcomes
  <2>2. Hints \subseteq Nat /\ None \in Nat
    BY ClockAssumption DEF None
  <2> QED
    BY <2>1, <2>2
<1>5. Truncate(now) \in Nat /\ Truncate(now) <= now
  BY <1>1, WithinSecond
<1> QED
  BY <1>1, <1>2, <1>3, <1>4, <1>5

LEMMA NoOutcomeTyped == NoOutcome \in Outcomes /\ NoOutcome.class = "none" /\ NoOutcome.after = None
  BY DEF NoOutcome, Outcomes

LEMMA InitHolds ==
    ASSUME Init
    PROVE  IInv
<1>1. TypeOK
  <2>1. limit \in Deadlines /\ deadline \in Deadlines /\ 0 \in 0..Horizon /\ 1 \in 1..MaxPollAttempts
    BY ClockAssumption DEF Init
  <2>2. limit \in 0..Horizon
    BY <2>1, ClockAssumption
  <2>3. adm \in [iat : 0..Horizon, exp : 0..Horizon, due : 0..Horizon]
    BY <2>1 DEF Init, NoAdmission
  <2>4. 0 \in Times
    BY ClockAssumption DEF Times
  <2> QED
    BY <2>1, <2>2, <2>3, <2>4, NoOutcomeTyped DEF Init, TypeOK
<1>2. Basis
  <2>1. Truncate(0) >= 0
    BY WithinSecond
  <2> QED
    BY <2>1 DEF Init, Basis
<1>3. Waiting
  BY NoOutcomeTyped DEF Init, Waiting
<1> QED
  BY <1>1, <1>2, <1>3 DEF IInv

\* However a call returns, nothing of its request is left.
LEMMA EndsKeeps ==
    ASSUME IInv, Ends
    PROVE  IInv'
<1> USE DEF IInv
<1>1. /\ pc' = "ended" /\ decided' = 0 /\ due' = 0 /\ adm' = NoAdmission /\ attempt' = 1
      /\ last' = NoOutcome /\ answered' = 0 /\ wake' = 0 /\ now' = now
      /\ kind' = kind /\ deadline' = deadline /\ limit' = limit
  BY DEF Ends, fixed
<1>2. TypeOK'
  <2>1. 0 \in 0..Horizon /\ 1 \in 1..MaxPollAttempts /\ 0 \in Times
    BY ClockAssumption DEF Times
  <2>2. NoAdmission \in [iat : 0..Horizon, exp : 0..Horizon, due : 0..Horizon]
    BY <2>1 DEF NoAdmission
  <2> QED
    BY <1>1, <2>1, <2>2, NoOutcomeTyped DEF TypeOK
<1>3. Basis'
  BY <1>1, Numbers DEF Basis, Truncate, Seconds
<1>4. Waiting'
  BY <1>1, NoOutcomeTyped, Numbers DEF Waiting
<1> QED
  BY <1>2, <1>3, <1>4

LEMMA TickKeeps ==
    ASSUME IInv, Tick
    PROVE  IInv'
<1> USE DEF IInv
<1>1. /\ now' = now + 1 /\ now < Horizon /\ pc' = pc /\ decided' = decided /\ due' = due /\ adm' = adm
      /\ attempt' = attempt /\ last' = last /\ answered' = answered /\ wake' = wake
      /\ kind' = kind /\ deadline' = deadline /\ limit' = limit
  BY DEF Tick, fixed, admissionVars, replyVars
<1>2. TypeOK'
  <2>1. now' \in 0..Horizon
    BY <1>1, Numbers
  <2> QED
    BY <1>1, <2>1 DEF TypeOK
<1>3. Basis'
  <2>0. now \in Nat /\ now + 1 \in Nat /\ now <= now + 1
    BY Numbers
  <2>1. Truncate(now) <= Truncate(now + 1) /\ Truncate(now + 1) \in Nat
    BY <2>0, SecondsOrder, WithinSecond
  <2>2. Truncate(now)' = Truncate(now + 1)
    BY <1>1 DEF Truncate, Seconds
  <2>3. decided' <= Truncate(now)'
    BY <1>1, <2>1, <2>2, Numbers DEF Basis
  <2>4. Covered(adm) => Covered(adm)'
    BY <1>1, Numbers DEF Covered
  <2> QED
    BY <1>1, <2>3, <2>4 DEF Basis
<1>4. Waiting'
  <2>1. answered' <= now'
    BY <1>1, Numbers DEF Waiting
  <2>2. Tries' = Tries /\ (Unfinished' <=> Unfinished) /\ (Retryable' <=> Retryable)
    BY <1>1 DEF Tries, Unfinished, Retryable, RetryStatuses
  <2> QED
    BY <1>1, <2>1, <2>2 DEF Waiting
<1> QED
  BY <1>2, <1>3, <1>4

\* The steps up to the sending: they change neither the time nor the answer.
Prepares == UNCHANGED <<now, kind, deadline, limit, attempt, last, answered, wake>> /\ pc' # "waiting"

LEMMA PreparesWaiting ==
    ASSUME IInv, Prepares
    PROVE  Waiting'
  BY DEF IInv, Prepares, Waiting

LEMMA DecidePolicyKeeps ==
    ASSUME IInv, DecidePolicy
    PROVE  IInv'
<1> USE DEF IInv
<1>1. /\ Prepares /\ pc = "policy" /\ pc' = "request" /\ decided' = Truncate(now)
      /\ due' = due /\ adm' = adm /\ now' = now /\ kind' = kind
  BY DEF DecidePolicy, PolicyDecisionAt, Prepares, fixed, replyVars
<1>2. TypeOK'
  <2>1. decided' \in 0..Horizon
    BY <1>1, Numbers
  <2> QED
    BY <1>1, <2>1 DEF TypeOK, Prepares
<1>3. Basis'
  <2>1. decided' <= Truncate(now)'
    BY <1>1, Numbers DEF Truncate, Seconds
  <2> QED
    BY <1>1, <2>1 DEF Basis, Prepares
<1> QED
  BY <1>1, <1>2, <1>3, PreparesWaiting

LEMMA BuildRequestKeeps ==
    ASSUME IInv, BuildRequest
    PROVE  IInv'
<1> USE DEF IInv
<1>1. CASE Requestable /\ pc' = "sign"
  <2>1. /\ Prepares /\ decided' = decided /\ adm' = adm /\ kind \in Mutations \cup {"connect"}
        /\ now' = now /\ kind' = kind /\ deadline' = deadline /\ limit' = limit
        /\ due' = CASE kind = "create" -> deadline
                    [] kind = "replay" -> limit
                    [] kind \in Bounded -> BoundedDeadline
                    [] kind = "connect" -> ConnectDeadline
    BY <1>1 DEF BuildRequest, Prepares, Ends, fixed, replyVars
  <2>2. due' \in Nat /\ due' <= deadline /\ (kind \in Limited => due' <= limit)
    <3>1. Lifetime \in Nat
      BY ClockAssumption
    <3>2. CASE kind = "create"
      BY <2>1, <3>2, Numbers DEF Limited, Bounded
    <3>3. CASE kind \in Bounded
      <4>1. due' = BoundedDeadline
        BY <2>1, <3>3 DEF Bounded
      <4> QED
        BY <3>1, <4>1, Numbers DEF BoundedDeadline, Least
    <3>4. CASE kind = "connect"
      <4>1. due' = ConnectDeadline
        BY <2>1, <3>4 DEF Bounded
      <4> QED
        BY <4>1, Numbers DEF ConnectDeadline, Least
    <3>5. CASE kind = "replay"
      <4>1. due' = limit /\ limit <= deadline
        BY <2>1, <3>5 DEF Bounded, Basis, Reused
      <4> QED
        BY <4>1, Numbers
    <3> QED
      BY <2>1, <3>2, <3>3, <3>4, <3>5 DEF Mutations
  <2>3. TypeOK'
    <3>1. due' \in 0..Horizon
      BY <2>2, Numbers
    <3> QED
      BY <1>1, <2>1, <3>1 DEF TypeOK, Prepares
  <2>4. Basis'
    <3>1. kind # "discover"
      BY <2>1 DEF Mutations, Bounded
    <3> QED
      BY <1>1, <2>1, <2>2, <3>1 DEF Basis, Truncate, Seconds
  <2> QED
    BY <2>1, <2>3, <2>4, PreparesWaiting
<1>2. CASE ~Requestable /\ Ends
  BY <1>2, EndsKeeps
<1> QED
  BY <1>1, <1>2 DEF BuildRequest

\* An admission signed now for a request that is due at d.
LEMMA AdmissionCovers ==
    ASSUME IInv, NEW d \in Nat, d <= deadline, kind \in Limited => d <= limit
    PROVE  /\ Admission(d) \in [iat : 0..Horizon, exp : 0..Horizon, due : 0..Horizon]
           /\ Covered(Admission(d))
<1> USE DEF IInv
<1>1. /\ Admission(d).iat = Truncate(now) /\ Admission(d).due = d
      /\ Admission(d).exp = Least(now + Lifetime, d)
  BY DEF Admission
<1>2. Least(now + Lifetime, d) \in Nat /\ Least(now + Lifetime, d) <= d
  BY Numbers, ClockAssumption DEF Least
<1>3. Truncate(now) \in 0..Horizon /\ d \in 0..Horizon /\ Least(now + Lifetime, d) \in 0..Horizon
  BY <1>2, Numbers
<1>4. Admission(d) \in [iat : 0..Horizon, exp : 0..Horizon, due : 0..Horizon]
  BY <1>3 DEF Admission
<1>5. Covered(Admission(d))
  BY <1>1, <1>2, Numbers DEF Covered, Basis
<1> QED
  BY <1>4, <1>5

LEMMA SignKeeps ==
    ASSUME IInv, Sign
    PROVE  IInv'
<1> USE DEF IInv
<1>1. CASE due > now /\ adm' = Admission(due) /\ pc' \in {"kept", "signed"} /\ ~Ends
  <2>1. /\ pc \in {"sign", "resign"} /\ Prepares /\ decided' = decided /\ due' = due
        /\ now' = now /\ kind' = kind /\ deadline' = deadline /\ limit' = limit
    BY <1>1 DEF Sign, Prepares, fixed, replyVars
  <2>2. /\ Admission(due) \in [iat : 0..Horizon, exp : 0..Horizon, due : 0..Horizon]
        /\ Covered(Admission(due))
    BY <2>1, AdmissionCovers, Numbers DEF Basis
  <2>3. TypeOK'
    BY <1>1, <2>1, <2>2 DEF TypeOK, Prepares
  <2>4. Covered(adm)'
    BY <1>1, <2>1, <2>2 DEF Covered
  <2>5. kind # "discover"
    BY <2>1 DEF Basis
  <2>6. Basis'
    BY <1>1, <2>1, <2>4, <2>5 DEF Basis, Truncate, Seconds
  <2> QED
    BY <2>1, <2>3, <2>6, PreparesWaiting
<1>2. CASE Ends
  BY <1>2, EndsKeeps
<1> QED
  BY <1>1, <1>2 DEF Sign

\* A later case changes only what it will sign: the request stays as it was built.
LEMMA ReuseRequestKeeps ==
    ASSUME IInv, ReuseRequest
    PROVE  IInv'
<1> USE DEF IInv
<1>1. CASE pc' \in {"resign", "signed"} /\ UNCHANGED <<now, fixed, admissionVars, attempt, replyVars>>
  <2>1. /\ Prepares /\ decided' = decided /\ due' = due /\ adm' = adm /\ pc = "kept"
        /\ now' = now /\ kind' = kind /\ deadline' = deadline /\ limit' = limit
    BY <1>1 DEF ReuseRequest, Prepares, fixed, admissionVars, replyVars
  <2>2. TypeOK'
    BY <1>1, <2>1 DEF TypeOK, Prepares
  <2>3. kind # "discover" /\ Covered(adm)'
    BY <2>1 DEF Basis, Covered
  <2>4. Basis'
    BY <1>1, <2>1, <2>3 DEF Basis, Truncate, Seconds
  <2> QED
    BY <2>1, <2>2, <2>4, PreparesWaiting
<1>2. CASE Ends
  BY <1>2, EndsKeeps
<1> QED
  BY <1>1, <1>2 DEF ReuseRequest

LEMMA ReadAdmissionKeeps ==
    ASSUME IInv, ReadAdmission
    PROVE  IInv'
<1> USE DEF IInv
<1>1. CASE Readable /\ due' = deadline /\ adm' = Admission(deadline) /\ pc' = "signed" /\ ~Ends
  <2>1. /\ pc = "request" /\ kind \in SignedReads /\ Prepares /\ decided' = decided
        /\ now' = now /\ kind' = kind /\ deadline' = deadline /\ limit' = limit
    BY <1>1 DEF ReadAdmission, Prepares, fixed, replyVars
  <2>2. kind \notin Limited /\ kind # "discover"
    BY <2>1 DEF SignedReads, Limited, Bounded
  <2>3. /\ Admission(deadline) \in [iat : 0..Horizon, exp : 0..Horizon, due : 0..Horizon]
        /\ Covered(Admission(deadline))
    BY <2>2, AdmissionCovers, Numbers
  <2>4. TypeOK'
    <3>1. deadline \in 0..Horizon
      BY Numbers
    <3> QED
      BY <1>1, <2>1, <2>3, <3>1 DEF TypeOK, Prepares
  <2>5. Covered(adm)'
    BY <1>1, <2>1, <2>3 DEF Covered
  <2>6. Basis'
    BY <1>1, <2>1, <2>2, <2>5 DEF Basis, Truncate, Seconds
  <2> QED
    BY <2>1, <2>4, <2>6, PreparesWaiting
<1>2. CASE Ends
  BY <1>2, EndsKeeps
<1> QED
  BY <1>1, <1>2 DEF ReadAdmission

LEMMA SendKeeps ==
    ASSUME IInv, Send
    PROVE  IInv'
<1> USE DEF IInv
<1>1. CASE pc' = "sent" /\ UNCHANGED <<now, fixed, admissionVars, attempt, replyVars>>
  <2>1. /\ Prepares /\ decided' = decided /\ due' = due /\ adm' = adm
        /\ now' = now /\ kind' = kind /\ deadline' = deadline /\ limit' = limit
        /\ pc = IF kind = "discover" THEN "request" ELSE "signed"
    BY <1>1 DEF Send, Prepares, fixed, admissionVars, replyVars
  <2>2. TypeOK'
    BY <1>1, <2>1 DEF TypeOK, Prepares
  <2>3. kind # "discover" => Covered(adm)'
    BY <2>1 DEF Basis, Covered
  <2>4. Basis'
    BY <1>1, <2>1, <2>3 DEF Basis, Truncate, Seconds
  <2> QED
    BY <2>1, <2>2, <2>4, PreparesWaiting
<1>2. CASE Ends
  BY <1>2, EndsKeeps
<1> QED
  BY <1>1, <1>2 DEF Send


\* What a response is taken for: only a rejection carries a hint.
LEMMA DoTyped ==
    ASSUME NEW r \in Responses
    PROVE  Do(r) \in Outcomes /\ (Do(r).class = "document" => Do(r).after = None)
<1>1. \A class \in {"document", "error"} :
          /\ Other(class) \in Outcomes /\ Other(class).class = class /\ Other(class).after = None
  BY DEF Other, NoOutcome, Outcomes
<1>2. ASSUME r.after # Malformed, r.status \in ErrorStatuses
      PROVE  Rejection(r) \in Outcomes /\ Rejection(r).class = "rejection"
  <2>1. r.after \in Hints \cup {None} /\ r.status \in {"success", "503", "429", "listed", "unlisted"}
    BY <1>2 DEF Responses
  <2> QED
    BY <2>1 DEF Rejection, Outcomes
<1> QED
  BY <1>1, <1>2 DEF Do

LEMMA RespondKeeps ==
    ASSUME IInv, Respond
    PROVE  IInv'
<1> USE DEF IInv
<1>1. /\ pc = "sent" /\ pc' = "answered" /\ answered' = now /\ now' = now
      /\ kind' = kind /\ deadline' = deadline /\ limit' = limit
      /\ decided' = decided /\ due' = due /\ adm' = adm /\ attempt' = attempt /\ wake' = wake
  BY DEF Respond, fixed, admissionVars
<1>2. last' \in Outcomes /\ (last'.class = "document" => last'.after = None)
  BY DoTyped DEF Respond
<1>3. TypeOK'
  BY <1>1, <1>2 DEF TypeOK
<1>4. Basis'
  BY <1>1 DEF Basis, Covered, Truncate, Seconds
<1>5. Waiting'
  BY <1>1, <1>2, Numbers DEF Waiting
<1> QED
  BY <1>3, <1>4, <1>5

\* The timer of a retry: no earlier than the refusal asks for.
LEMMA WaitRetryKeeps ==
    ASSUME IInv, WaitRetry
    PROVE  IInv'
<1> USE DEF IInv
<1>1. /\ pc = "answered" /\ pc' = "waiting" /\ attempt < Tries /\ now' = now /\ answered' = answered
      /\ kind' = kind /\ deadline' = deadline /\ limit' = limit /\ last' = last
      /\ decided' = decided /\ due' = due /\ adm' = adm /\ attempt' = attempt
  BY DEF WaitRetry, TimerFor, fixed, admissionVars
<1>2. Tries' = Tries /\ (Unfinished' <=> Unfinished) /\ (Retryable' <=> Retryable)
  BY <1>1 DEF Tries, Unfinished, Retryable, RetryStatuses
<1>3. /\ PollInterval \in Nat \ {0} /\ PollInterval < DurationLimit /\ DurationLimit \in Nat \ {0}
      /\ None = 0 /\ None * Second = 0
  BY ClockAssumption DEF None
<1>4. /\ last.after * Second \in Nat /\ Duration(last.after) \in Int
      /\ Duration(last.after) < DurationLimit
      /\ last.after * Second < DurationLimit => Duration(last.after) = last.after * Second
  BY DurationFits, Numbers
<1>5. /\ Unfinished \/ Retryable
      /\ wake' \in Times
      /\ kind = "retained" \/ last.after * Second < DurationLimit =>
            wake' >= answered + last.after * Second
  <2>1. CASE Unfinished /\ wake' = now + (IF PollInterval > 0 THEN PollInterval ELSE 0)
    <3>1. last.after = None
      BY <2>1 DEF Unfinished, Waiting
    <3>2. wake' = now + PollInterval
      BY <1>3, <2>1
    <3>3. wake' \in Times
      BY <1>3, <3>2, Numbers DEF Times
    <3>4. wake' >= answered + last.after * Second
      BY <1>3, <3>1, <3>2, Numbers DEF Waiting
    <3> QED
      BY <2>1, <3>3, <3>4
  <2>2. CASE /\ Retryable /\ (kind = "retained" => RetainedFits) /\ last.after = None
             /\ wake' = now + (IF PollInterval > 0 THEN PollInterval ELSE 0)
    <3>2. wake' = now + PollInterval
      BY <1>3, <2>2
    <3>3. wake' \in Times
      BY <1>3, <3>2, Numbers DEF Times
    <3>4. wake' >= answered + last.after * Second
      BY <1>3, <2>2, <3>2, Numbers DEF Waiting
    <3> QED
      BY <2>2, <3>3, <3>4
  <2>3. CASE /\ Retryable /\ (kind = "retained" => RetainedFits)
             /\ wake' = now + (IF Duration(last.after) > 0 THEN Duration(last.after) ELSE 0)
    <3>1. wake' \in Times
      BY <1>3, <1>4, <2>3, Numbers DEF Times
    <3>2. kind = "retained" => last.after * Second < DurationLimit
      <4> SUFFICES ASSUME kind = "retained" PROVE last.after * Second < DurationLimit
        OBVIOUS
      <4> DEFINE rest == Least(deadline - now, DurationLimit - 1)
      <4>1. last.after <= Seconds(rest) /\ now < deadline
        BY <2>3 DEF RetainedFits, ContextLives
      <4>2. rest \in Nat /\ rest < DurationLimit
        BY <1>3, <4>1, Numbers DEF Least
      <4> HIDE DEF rest
      <4>3. Seconds(rest) \in Nat /\ Truncate(rest) \in Nat /\ Truncate(rest) <= rest
        BY <4>2, WithinSecond
      <4>4. last.after * Second <= Truncate(rest)
        BY <4>1, <4>3, Numbers, SecondsScale DEF Truncate
      <4> QED
        BY <1>3, <1>4, <4>2, <4>3, <4>4
    <3>3. last.after * Second < DurationLimit => wake' >= answered + last.after * Second
      BY <1>4, <2>3, Numbers DEF Waiting
    <3> QED
      BY <2>3, <3>1, <3>2, <3>3
  <2> QED
    BY <2>1, <2>2, <2>3 DEF WaitRetry, TimerFor
<1>6. TypeOK'
  BY <1>1, <1>5 DEF TypeOK
<1>7. Basis'
  BY <1>1 DEF Basis, Covered, Truncate, Seconds
<1>8. Waiting'
  BY <1>1, <1>2, <1>5 DEF Waiting
<1> QED
  BY <1>6, <1>7, <1>8

\* The types of a further attempt: a mutation keeps its admission.
LEMMA TimerFiresKeeps ==
    ASSUME IInv, TimerFires
    PROVE  IInv'
<1> USE DEF IInv
<1>1. /\ pc = "waiting" /\ attempt' = attempt + 1 /\ last' = NoOutcome /\ answered' = 0 /\ wake' = 0
      /\ now' = now /\ kind' = kind /\ deadline' = deadline /\ limit' = limit /\ decided' = decided
  BY DEF TimerFires, fixed
<1>2. \/ kind \in Mutations /\ pc' = "signed" /\ due' = due /\ adm' = adm
      \/ kind \notin Mutations /\ pc' = "request" /\ due' = 0 /\ adm' = NoAdmission
  BY DEF TimerFires
<1>3. TypeOK'
  <2>1. attempt' \in 1..MaxPollAttempts
    <3>1. attempt < Tries /\ Tries \in Nat /\ Tries <= MaxPollAttempts /\ MaxPollAttempts \in Nat
      <4>1. MaxPollAttempts \in Nat /\ MaxPollAttempts >= 2
        BY ClockAssumption
      <4>2. Tries \in {1, 2, MaxPollAttempts}
        BY DEF Tries
      <4> QED
        BY <1>1, <4>1, <4>2 DEF Waiting
    <3> QED
      BY <1>1, <3>1, Numbers
  <2>2. 0 \in 0..Horizon /\ 0 \in Times
    BY ClockAssumption DEF Times
  <2>3. NoAdmission \in [iat : 0..Horizon, exp : 0..Horizon, due : 0..Horizon]
    BY <2>2 DEF NoAdmission
  <2> QED
    BY <1>1, <1>2, <2>1, <2>2, <2>3, NoOutcomeTyped DEF TypeOK
<1>4. Basis'
  <2>1. kind \in Mutations => kind # "discover"
    BY DEF Mutations, Bounded
  <2> QED
    BY <1>1, <1>2, <2>1 DEF Basis, Covered, Truncate, Seconds
<1>5. Waiting'
  BY <1>1, <1>2, NoOutcomeTyped, Numbers DEF Waiting
<1> QED
  BY <1>3, <1>4, <1>5

LEMMA StutterKeeps ==
    ASSUME IInv, UNCHANGED vars
    PROVE  IInv'
<1>1. /\ now' = now /\ pc' = pc /\ decided' = decided /\ due' = due /\ adm' = adm
      /\ attempt' = attempt /\ last' = last /\ answered' = answered /\ wake' = wake
      /\ kind' = kind /\ deadline' = deadline /\ limit' = limit
  BY DEF vars, fixed, admissionVars, replyVars
<1>2. TypeOK' /\ Basis'
  BY <1>1 DEF IInv, TypeOK, Basis, Covered, Truncate, Seconds
<1>3. Waiting'
  BY <1>1 DEF IInv, Waiting, Tries, Unfinished, Retryable, RetryStatuses
<1> QED
  BY <1>2, <1>3 DEF IInv

LEMMA NextKeeps ==
    ASSUME IInv, [Next]_vars
    PROVE  IInv'
<1>1. CASE Tick \/ DecidePolicy \/ BuildRequest \/ Sign \/ ReuseRequest \/ ReadAdmission \/ Send
  BY <1>1, TickKeeps, DecidePolicyKeeps, BuildRequestKeeps, SignKeeps, ReuseRequestKeeps,
     ReadAdmissionKeeps, SendKeeps
<1>2. CASE Respond \/ WaitRetry \/ TimerFires
  BY <1>2, RespondKeeps, WaitRetryKeeps, TimerFiresKeeps
<1>3. CASE Lost \/ Return \/ ContextEndsWait
  BY <1>3, EndsKeeps DEF Lost, Return, ContextEndsWait
<1>4. CASE UNCHANGED vars
  BY <1>4, StutterKeeps
<1> QED
  BY <1>1, <1>2, <1>3, <1>4 DEF Next

-----------------------------------------------------------------------------
(* The theorems *)

\* The inductive invariant of a request holds at every reading of the clock.
THEOREM RequestInvariance == Spec => []IInv
<1>1. Init => IInv
  BY InitHolds
<1>2. IInv /\ [Next]_vars => IInv'
  BY NextKeeps
<1> QED
  BY <1>1, <1>2, PTL DEF Spec

\* Every variable of a request keeps its type, the wake-up time of a wrapped
\* Retry-After and the number of attempts included (TypeOK).
THEOREM RequestTyped == Spec => []TypeOK
<1>1. IInv => TypeOK
  BY DEF IInv
<1> QED
  BY <1>1, RequestInvariance, PTL

\* The single step that puts a request on the wire.
LEMMA OnlySendSends ==
    ASSUME IInv, [Next]_vars, pc # "sent", pc' = "sent"
    PROVE  Send /\ Sendable
<1>1. ~Ends
  BY DEF Ends
<1>2. ~UNCHANGED vars
  BY DEF vars
<1>3. ~(Tick \/ DecidePolicy \/ BuildRequest \/ Sign \/ ReuseRequest \/ ReadAdmission)
  BY <1>1 DEF Tick, DecidePolicy, BuildRequest, Sign, ReuseRequest, ReadAdmission
<1>4. ~(Respond \/ WaitRetry \/ TimerFires \/ Lost \/ Return \/ ContextEndsWait)
  BY <1>1 DEF Respond, WaitRetry, TimerFor, TimerFires, Lost, Return, ContextEndsWait
<1> QED
  BY <1>1, <1>2, <1>3, <1>4 DEF Next, Send

\* What is sent is covered by its own admission, at the first attempt and after
\* every wait, for every second, lifetime, deadline and lease (SentIsAdmitted).
THEOREM SentIsAlwaysAdmitted == Spec => SentIsAdmitted
<1> DEFINE A == pc # "sent" /\ pc' = "sent" /\ kind # "discover" =>
                  /\ decided <= adm.iat /\ adm.iat <= now
                  /\ adm.exp <= adm.due /\ adm.due <= deadline
                  /\ kind \in Limited => adm.due <= limit
                  /\ kind # "connect" => now < Truncate(adm.exp)
<1>1. IInv /\ [Next]_vars => A
  <2> SUFFICES ASSUME IInv, [Next]_vars, pc # "sent", pc' = "sent", kind # "discover"
               PROVE  Covered(adm) /\ (kind # "connect" => now < Truncate(adm.exp))
    BY DEF Covered
  <2>1. Send /\ Sendable
    BY OnlySendSends
  <2>2. Covered(adm)
    BY <2>1 DEF Send, IInv, Basis
  <2>3. ASSUME kind # "connect" PROVE now < Truncate(adm.exp)
    <3>1. Seconds(now) < Seconds(adm.exp)
      BY <2>1, <2>3 DEF Sendable, AdmittedNow
    <3>2. now \in Nat /\ adm.exp \in Nat
      BY Numbers DEF IInv
    <3> QED
      BY <3>1, <3>2, NextSecond
  <2> QED
    BY <2>2, <2>3
<1>2. IInv /\ [Next]_vars => [A]_vars
  BY <1>1
<1> QED
  BY <1>2, RequestInvariance, PTL DEF Spec, SentIsAdmitted

\* A read that readAdmission signs passes both of the client's whole-second
\* checks at that reading of the clock (SignedReadIsSendable).
THEOREM SignedReadIsAlwaysSendable == Spec => SignedReadIsSendable
<1> DEFINE A == pc = "request" /\ pc' = "signed" => Sendable'
<1>1. IInv /\ [Next]_vars => A
  <2> SUFFICES ASSUME IInv, [Next]_vars, pc = "request", pc' = "signed"
               PROVE  Sendable'
    OBVIOUS
  <2>1. ReadAdmission /\ ~Ends
    <3>1. ~Ends /\ ~UNCHANGED vars
      BY DEF Ends, vars
    <3>2. ~(Tick \/ DecidePolicy \/ BuildRequest \/ Sign \/ ReuseRequest \/ Send)
      BY <3>1 DEF Tick, DecidePolicy, BuildRequest, Sign, ReuseRequest, Send
    <3>3. ~(Respond \/ WaitRetry \/ TimerFires \/ Lost \/ Return \/ ContextEndsWait)
      BY <3>1 DEF Respond, WaitRetry, TimerFires, Lost, Return, ContextEndsWait
    <3> QED
      BY <3>1, <3>2, <3>3 DEF Next
  <2>2. /\ kind \in SignedReads /\ deadline > now + Second /\ adm' = Admission(deadline)
        /\ kind' = kind /\ now' = now
    BY <2>1 DEF ReadAdmission, Readable, fixed
  <2>3. adm'.iat = Truncate(now) /\ adm'.due = deadline /\ adm'.exp = Least(now + Lifetime, deadline)
    BY <2>2 DEF Admission
  <2>4. /\ now \in Nat /\ deadline \in Nat /\ Second \in Nat \ {0}
        /\ Lifetime \in Nat /\ Lifetime >= Second
    BY Numbers, ClockAssumption DEF IInv
  <2>5. adm'.exp \in Nat /\ adm'.exp >= now + Second
    BY <2>2, <2>3, <2>4 DEF Least
  <2>6. Seconds(adm'.exp) > Seconds(now) /\ Seconds(adm'.iat) = Seconds(now)
    BY <2>3, <2>4, <2>5, NextSecond
  <2>7. Seconds(now) \in Nat /\ Seconds(adm'.exp) \in Nat
    BY <2>4, <2>5, WithinSecond
  <2>8. EnvelopeValid' /\ AdmittedNow'
    <3>1. Seconds(adm.exp)' = Seconds(adm'.exp) /\ Seconds(adm.iat)' = Seconds(adm'.iat)
          /\ Seconds(now)' = Seconds(now)
      BY <2>2 DEF Seconds
    <3>2. now' < adm'.due
      BY <2>2, <2>3, <2>4
    <3> QED
      BY <2>6, <2>7, <3>1, <3>2 DEF EnvelopeValid, AdmittedNow
  <2> QED
    BY <2>2, <2>8 DEF Sendable, SignedReads
<1>2. IInv /\ [Next]_vars => [A]_vars
  BY <1>1
<1> QED
  BY <1>2, RequestInvariance, PTL DEF Spec, SignedReadIsSendable

\* Another attempt follows an explicit answer and no earlier than it asks for
\* (RetryIsExplicit).
THEOREM RetryIsAlwaysExplicit == Spec => RetryIsExplicit
<1> DEFINE A == attempt' > attempt =>
                  /\ last.class = "rejection" \/ Unfinished
                  /\ last.class = "rejection" => last.retryable /\ last.status \in {"429", "503"}
                  /\ kind \in Mutations => last.class = "rejection" /\ last.after # None
                  /\ (kind = "retained" \/ last.after * Second < DurationLimit) =>
                        now >= answered + last.after * Second
<1>1. IInv /\ [Next]_vars => A
  <2> SUFFICES ASSUME IInv, [Next]_vars, attempt' > attempt
               PROVE  /\ last.class = "rejection" \/ Unfinished
                      /\ last.class = "rejection" => last.retryable /\ last.status \in {"429", "503"}
                      /\ kind \in Mutations => last.class = "rejection" /\ last.after # None
                      /\ (kind = "retained" \/ last.after * Second < DurationLimit) =>
                            now >= answered + last.after * Second
    OBVIOUS
  <2>0. attempt \in Nat \ {0}
    BY ClockAssumption DEF IInv, TypeOK
  <2>1. TimerFires
    <3>1. ~Ends /\ attempt' # attempt
      BY <2>0 DEF Ends
    <3>2. ~UNCHANGED vars
      BY <3>1 DEF vars
    <3>3. ~(Tick \/ DecidePolicy \/ BuildRequest \/ Sign \/ ReuseRequest \/ ReadAdmission \/ Send)
      BY <3>1 DEF Tick, DecidePolicy, BuildRequest, Sign, ReuseRequest, ReadAdmission, Send
    <3>4. ~(Respond \/ WaitRetry \/ Lost \/ Return \/ ContextEndsWait)
      BY <3>1 DEF Respond, WaitRetry, Lost, Return, ContextEndsWait
    <3> QED
      BY <3>2, <3>3, <3>4 DEF Next
  <2>2. pc = "waiting" /\ now >= wake
    BY <2>1 DEF TimerFires
  <2>3. /\ Unfinished \/ Retryable
        /\ kind = "retained" \/ last.after * Second < DurationLimit =>
              wake >= answered + last.after * Second
    BY <2>2 DEF IInv, Waiting
  <2>4. (kind = "retained" \/ last.after * Second < DurationLimit) =>
           now >= answered + last.after * Second
    <3>1. last.after * Second \in Nat
      BY Numbers, DurationFits DEF IInv
    <3> QED
      BY <2>2, <2>3, <3>1, Numbers DEF IInv
  <2>5. None \notin Hints
    BY ClockAssumption DEF None
  <2>6. CASE Unfinished
    BY <2>4, <2>6 DEF Unfinished, Mutations, Bounded
  <2>7. CASE Retryable
    BY <2>4, <2>5, <2>7 DEF Retryable, RetryStatuses, Mutations, Bounded
  <2> QED
    BY <2>3, <2>6, <2>7
<1>2. IInv /\ [Next]_vars => [A]_vars
  BY <1>1
<1> QED
  BY <1>2, RequestInvariance, PTL DEF Spec, RetryIsExplicit

=============================================================================
