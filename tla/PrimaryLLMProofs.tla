-------------------------- MODULE PrimaryLLMProofs --------------------------
(***************************************************************************)
(* Theorems about PrimaryLLM, for every number of retries, every backoff   *)
(* base and cap, and every set of Retry-After values, and about            *)
(* Forwarding, for every set of models.                                    *)
(***************************************************************************)
EXTENDS Forwarding, FiniteSetTheorems, SequenceTheorems, TLAPS

-----------------------------------------------------------------------------
\* Facts about the operators.

\* A power of two is a number: that many subsets has an interval of that length.
LEMMA PowerOfTwo == ASSUME NEW n \in Nat PROVE 2^n \in Nat
<1>1. IsFiniteSet(1 .. n) /\ Cardinality(1 .. n) = n
  BY FS_Interval
<1>2. IsFiniteSet(SUBSET (1 .. n)) /\ Cardinality(SUBSET (1 .. n)) = 2^n
  BY <1>1, FS_SUBSET
<1> QED
  BY <1>2, FS_CardinalityType

\* One more sleep of at most Cap each.
LEMMA OneMoreCap == ASSUME NEW n \in Nat PROVE n * Cap \in Nat /\ (n + 1) * Cap = n * Cap + Cap
BY PrimaryAssumption

\* Fewer sleeps cost no more.
LEMMA FewerCaps ==
  ASSUME NEW m \in Nat, NEW n \in Nat, m <= n
  PROVE  m * Cap <= n * Cap
<1>1. n - m \in Nat /\ (n - m) * Cap \in Nat
  BY PrimaryAssumption
<1>2. n * Cap = m * Cap + (n - m) * Cap
  BY PrimaryAssumption
<1>3. m * Cap \in Nat /\ n * Cap \in Nat
  BY PrimaryAssumption
<1> QED
  BY <1>1, <1>2, <1>3

\* parse_retry_after: whatever the header, its floor is no negative time.
LEMMA ParsedIsNat == \A header \in RetryAfters \cup {0} : ParseRetryAfter(header) \in Nat
<1>1. RetryAfters \cup {0} \subseteq Int
  BY PrimaryAssumption
<1> QED
  BY <1>1 DEF ParseRetryAfter

\* _backoff_delay: never over the cap, and up to it never under the
\* Retry-After floor nor under the exponential backoff.
LEMMA DelayBounds ==
  ASSUME NEW i \in Nat, NEW retryAfter \in Nat, NEW jitter \in 0 .. Base
  PROVE  /\ BackoffDelay(i, retryAfter, jitter) \in Nat
         /\ BackoffDelay(i, retryAfter, jitter) <= Cap
         /\ BackoffDelay(i, retryAfter, jitter) >= Least(Cap, retryAfter)
         /\ BackoffDelay(i, retryAfter, jitter) >= Least(Cap, Base * 2^i)
<1> DEFINE p == Base * 2^i
<1>1. p \in Nat
  BY PowerOfTwo, PrimaryAssumption
<1>2. jitter \in Nat /\ Cap \in Nat
  BY PrimaryAssumption
<1> HIDE DEF p
<1>3. LET d == Least(Greatest(Least(Cap, p) + jitter, retryAfter), Cap)
      IN  d \in Nat /\ d <= Cap /\ d >= Least(Cap, retryAfter) /\ d >= Least(Cap, p)
  BY <1>1, <1>2 DEF Least, Greatest
<1> QED
  BY <1>3 DEF p, BackoffDelay

-----------------------------------------------------------------------------
\* The inductive invariant: the properties, and how the loop's index, the
\* attempts made and the time slept go together at each place of the loop.

\* The attempts made so far, for the index of the loop.
AttemptsMade ==
    /\ pc = "posting" => Len(outcomes) = attempt
    /\ pc \in {"sleeping", "returned"} => Len(outcomes) = attempt + 1
    /\ pc = "sleeping" => attempt < MaxRetries
    /\ pc = "returned" => result.retries = attempt
    /\ Len(outcomes) <= attempt + 1

\* The time slept before this attempt, and the sleep before the next one.
TimeSlept ==
    /\ slept <= attempt * Cap
    /\ delay <= Cap
    /\ pc # "sleeping" => delay = 0

\* The backoff is where the jitter begins: no sleep is shorter than it.
JitterOnTop == pc = "sleeping" => delay >= Least(Cap, Base * 2^attempt)

\* Every attempt that was, or is about to be, followed by another one.
RetriedAttempts ==
    \A i \in 1 .. Len(outcomes) :
        (i < Len(outcomes) \/ pc \in {"posting", "sleeping"})
            => outcomes[i].kind \in Transient

CallInv ==
    /\ TypeOK
    /\ AttemptsMade
    /\ TimeSlept
    /\ RetryAfterIsAFloor
    /\ JitterOnTop
    /\ RetriedAttempts
    /\ ErrorIsTheLastAttempts

\* The call begins with it.
LEMMA CallInvInit == Init => CallInv
<1> SUFFICES ASSUME Init PROVE CallInv
  OBVIOUS
<1> USE DEF Init
<1>1. TypeOK
  BY PrimaryAssumption, EmptySeq DEF TypeOK, Places, Errors, Contents, NoResult, Result
<1>2. Len(outcomes) = 0
  BY EmptySeq
<1>3. AttemptsMade /\ TimeSlept
  BY <1>2, PrimaryAssumption DEF AttemptsMade, TimeSlept
<1>4. RetryAfterIsAFloor /\ JitterOnTop /\ RetriedAttempts /\ ErrorIsTheLastAttempts
  BY <1>2 DEF RetryAfterIsAFloor, JitterOnTop, RetriedAttempts, ErrorIsTheLastAttempts,
              NoResult, Result
<1> QED
  BY <1>1, <1>3, <1>4 DEF CallInv

\* What an attempt that ends adds to the history.
LEMMA AttemptEnds ==
  ASSUME CallInv, pc = "posting", NEW o \in Outcomes, Ended(o)
  PROVE  /\ outcomes' \in Seq(Outcomes)
         /\ Len(outcomes') = attempt + 1
         /\ outcomes'[Len(outcomes')] = o
         /\ \A i \in 1 .. Len(outcomes') :
               i < Len(outcomes') => outcomes'[i].kind \in Transient
<1>1. /\ outcomes \in Seq(Outcomes)
      /\ Len(outcomes) = attempt
      /\ attempt \in Nat
      /\ \A i \in 1 .. attempt : outcomes[i].kind \in Transient
  BY PrimaryAssumption DEF CallInv, TypeOK, AttemptsMade, RetriedAttempts
<1>2. /\ outcomes' \in Seq(Outcomes)
      /\ Len(outcomes') = attempt + 1
      /\ outcomes'[attempt + 1] = o
      /\ \A i \in 1 .. attempt : outcomes'[i] = outcomes[i]
  BY <1>1, AppendProperties DEF Ended
<1> QED
  BY <1>1, <1>2

\* What the sleep after a transient outcome keeps.
LEMMA BackOffKeeps ==
  ASSUME CallInv, pc = "posting", NEW o \in Outcomes, Ended(o),
         o.kind \in Transient, BackOff(o.retryAfter), lastError' \in Errors
  PROVE  CallInv'
<1> USE DEF BackOff
<1>1. /\ outcomes' \in Seq(Outcomes)
      /\ Len(outcomes') = attempt + 1
      /\ outcomes'[Len(outcomes')] = o
      /\ \A i \in 1 .. Len(outcomes') :
            i < Len(outcomes') => outcomes'[i].kind \in Transient
  BY AttemptEnds
<1>2. /\ attempt \in Nat
      /\ attempt < MaxRetries
      /\ o.retryAfter \in Nat
  <2>1. attempt \in Nat
    BY PrimaryAssumption DEF CallInv, TypeOK
  <2>2. attempt < MaxRetries
    OBVIOUS
  <2>3. o.retryAfter \in Nat
    BY DEF Outcomes
  <2> QED
    BY <2>1, <2>2, <2>3
<1>3. /\ delay' \in Nat
      /\ delay' <= Cap
      /\ delay' >= Least(Cap, o.retryAfter)
      /\ delay' >= Least(Cap, Base * 2^attempt)
  BY <1>2, DelayBounds
<1>4. TypeOK'
  BY <1>1, <1>3 DEF CallInv, TypeOK, Places
<1>5. AttemptsMade' /\ TimeSlept'
  BY <1>1, <1>2, <1>3 DEF CallInv, AttemptsMade, TimeSlept
<1>6. RetryAfterIsAFloor' /\ JitterOnTop'
  BY <1>1, <1>3 DEF RetryAfterIsAFloor, JitterOnTop
<1>7. RetriedAttempts'
  BY <1>1 DEF RetriedAttempts
<1>8. ErrorIsTheLastAttempts'
  BY DEF ErrorIsTheLastAttempts
<1> QED
  BY <1>4, <1>5, <1>6, <1>7, <1>8 DEF CallInv

\* An attempt without a response: a sleep, or the error of that attempt.
LEMMA NoResponseKeeps ==
  ASSUME CallInv, NEW kind, NEW error, NoResponse(kind, error),
         \/ kind = "timeout" /\ error = "timeout"
         \/ kind = "transport" /\ error = "connection"
  PROVE  CallInv'
<1> DEFINE o == Outcome(kind, 0, "none")
<1>0. /\ o \in Outcomes
      /\ o.kind = kind
      /\ o.retryAfter = 0
      /\ kind \in Transient
      /\ error \in Errors
  BY DEF Outcome, Outcomes, Kinds, Transient, Errors
<1>1. pc = "posting" /\ Ended(o) /\ lastError' = error
  BY DEF NoResponse
<1> HIDE DEF o
<1>2. CASE BackOff(0)
  BY <1>0, <1>1, <1>2, BackOffKeeps
<1>3. CASE GiveUp
  <2> USE <1>3 DEF GiveUp
  <2>1. /\ outcomes' \in Seq(Outcomes)
        /\ Len(outcomes') = attempt + 1
        /\ outcomes'[Len(outcomes')] = o
        /\ \A i \in 1 .. Len(outcomes') :
              i < Len(outcomes') => outcomes'[i].kind \in Transient
    BY <1>0, <1>1, AttemptEnds
  <2>2. result' = [error |-> error, content |-> "none", retries |-> MaxRetries]
    BY <1>1 DEF Result
  <2>3. TypeOK'
    BY <1>0, <1>1, <2>1, <2>2, PrimaryAssumption DEF CallInv, TypeOK, Places, Contents
  <2>4. AttemptsMade' /\ TimeSlept'
    BY <1>1, <2>1 DEF CallInv, AttemptsMade, TimeSlept
  <2>5. RetryAfterIsAFloor' /\ JitterOnTop' /\ RetriedAttempts'
    BY <2>1 DEF RetryAfterIsAFloor, JitterOnTop, RetriedAttempts
  <2>6. ErrorIsTheLastAttempts'
    BY <1>0, <2>1, <2>2 DEF ErrorIsTheLastAttempts
  <2> QED
    BY <2>3, <2>4, <2>5, <2>6 DEF CallInv
<1> QED
  BY <1>2, <1>3 DEF NoResponse

\* An attempt that ends the call with what it brought.
LEMMA LastAttemptKeeps ==
  ASSUME CallInv, pc = "posting", NEW o \in Outcomes, Ended(o),
         \/ pc' = "crashed" /\ UNCHANGED result
         \/ pc' = "returned" /\ \E c \in Contents : result' = Result("none", c, attempt),
         UNCHANGED <<attempt, lastError, delay, slept>>
  PROVE  CallInv'
<1>1. /\ outcomes' \in Seq(Outcomes)
      /\ Len(outcomes') = attempt + 1
      /\ \A i \in 1 .. Len(outcomes') :
            i < Len(outcomes') => outcomes'[i].kind \in Transient
  BY AttemptEnds
<1>2. TypeOK'
  BY <1>1 DEF CallInv, TypeOK, Places, Errors, Result
<1>3. AttemptsMade' /\ TimeSlept'
  BY <1>1 DEF CallInv, AttemptsMade, TimeSlept, Result
<1>4. RetryAfterIsAFloor' /\ JitterOnTop' /\ RetriedAttempts' /\ ErrorIsTheLastAttempts'
  BY <1>1 DEF RetryAfterIsAFloor, JitterOnTop, RetriedAttempts, ErrorIsTheLastAttempts
<1> QED
  BY <1>2, <1>3, <1>4 DEF CallInv

\* Every step keeps the invariant.
LEMMA CallInvStep == CallInv /\ [Next]_vars => CallInv'
<1> SUFFICES ASSUME CallInv, [Next]_vars PROVE CallInv'
  OBVIOUS
<1>1. CASE PostTimesOut
  BY <1>1, NoResponseKeeps DEF PostTimesOut
<1>2. CASE PostFails
  BY <1>2, NoResponseKeeps DEF PostFails
<1>3. CASE PostRetryable
  <2>1. PICK header \in RetryAfters \cup {0}, body \in UpstreamBodies :
             /\ Ended(Outcome("retryable", ParseRetryAfter(header), body))
             /\ BackOff(ParseRetryAfter(header))
    BY <1>3 DEF PostRetryable
  <2> DEFINE o == Outcome("retryable", ParseRetryAfter(header), body)
  <2>2. /\ o \in Outcomes
        /\ o.kind \in Transient
        /\ o.retryAfter = ParseRetryAfter(header)
    BY ParsedIsNat DEF Outcome, Outcomes, Kinds, Transient
  <2>3. pc = "posting" /\ lastError' \in Errors
    BY <1>3 DEF PostRetryable, CallInv, TypeOK
  <2> HIDE DEF o
  <2> QED
    BY <2>1, <2>2, <2>3, BackOffKeeps DEF o
<1>4. CASE PostReturns
  <2>1. PICK kind \in {"retryable", "other"}, body \in UpstreamBodies :
          /\ Ended(Outcome(kind, 0, body))
          /\ IF body = "unparseable"
               THEN pc' = "crashed" /\ UNCHANGED result
               ELSE /\ pc' = "returned"
                    /\ result' = Result("none", ParseJsonBody(body), attempt)
    BY <1>4 DEF PostReturns
  <2>2. Outcome(kind, 0, body) \in Outcomes /\ ParseJsonBody(body) \in Contents
    BY DEF Outcome, Outcomes, Kinds, ParseJsonBody, Contents
  <2>3. pc = "posting" /\ UNCHANGED <<attempt, lastError, delay, slept>>
    BY <1>4 DEF PostReturns
  <2> QED
    BY <2>1, <2>2, <2>3, LastAttemptKeeps
<1>5. CASE PostRaises
  <2>1. Outcome("exception", 0, "none") \in Outcomes
    BY DEF Outcome, Outcomes, Kinds
  <2> QED
    BY <1>5, <2>1, LastAttemptKeeps DEF PostRaises
<1>6. CASE Wake
  <2> USE <1>6 DEF Wake
  <2>1. attempt \in Nat /\ attempt < MaxRetries /\ slept \in Nat /\ delay \in Nat
    BY PrimaryAssumption DEF CallInv, TypeOK, AttemptsMade
  <2>2. TypeOK'
    BY <2>1, PrimaryAssumption DEF CallInv, TypeOK, Places
  <2>3. AttemptsMade'
    BY <2>1 DEF CallInv, AttemptsMade
  <2>4. TimeSlept'
    BY <2>1, OneMoreCap, PrimaryAssumption DEF CallInv, TimeSlept
  <2>5. RetryAfterIsAFloor' /\ JitterOnTop' /\ ErrorIsTheLastAttempts'
    BY DEF RetryAfterIsAFloor, JitterOnTop, ErrorIsTheLastAttempts
  <2>6. RetriedAttempts'
    BY DEF CallInv, RetriedAttempts
  <2> QED
    BY <2>2, <2>3, <2>4, <2>5, <2>6 DEF CallInv
<1>7. CASE UNCHANGED vars
  BY <1>7 DEF vars, CallInv, TypeOK, AttemptsMade, TimeSlept, RetryAfterIsAFloor,
              JitterOnTop, RetriedAttempts, ErrorIsTheLastAttempts
<1> QED
  BY <1>1, <1>2, <1>3, <1>4, <1>5, <1>6, <1>7 DEF Next

-----------------------------------------------------------------------------
\* The theorems.

\* The inductive invariant holds in every state of every call.
THEOREM CallInvariant == Spec => []CallInv
BY CallInvInit, CallInvStep, PTL DEF Spec

\* Every variable keeps its type.
THEOREM PrimaryTypeOK == Spec => []TypeOK
<1>1. CallInv => TypeOK
  BY DEF CallInv
<1> QED
  BY <1>1, CallInvariant, PTL

\* A call makes at most MaxRetries + 1 attempts and sleeps at most MaxRetries
\* times Cap, whatever the upstream answers and asks for.
THEOREM CallsAreBounded == Spec => []CallIsBounded
<1>1. CallInv => CallIsBounded
  <2> SUFFICES ASSUME CallInv PROVE CallIsBounded
    OBVIOUS
  <2>1. /\ attempt \in Nat
        /\ attempt <= MaxRetries
        /\ slept \in Nat
        /\ delay \in Nat
        /\ Len(outcomes) \in Nat
    BY PrimaryAssumption, LenProperties DEF CallInv, TypeOK
  <2>2. Len(outcomes) <= MaxRetries + 1
    BY <2>1, PrimaryAssumption DEF CallInv, AttemptsMade
  <2>3. slept + delay <= MaxRetries * Cap
    <3>1. CASE pc = "sleeping"
      <4>1. attempt + 1 <= MaxRetries
        BY <2>1, <3>1, PrimaryAssumption DEF CallInv, AttemptsMade
      <4>2. slept + delay <= attempt * Cap + Cap
        BY <2>1, OneMoreCap, PrimaryAssumption DEF CallInv, TimeSlept
      <4>3. (attempt + 1) * Cap <= MaxRetries * Cap
        BY <2>1, <4>1, FewerCaps, PrimaryAssumption
      <4> QED
        BY <2>1, <4>2, <4>3, OneMoreCap, PrimaryAssumption
    <3>2. CASE pc # "sleeping"
      <4>1. attempt * Cap <= MaxRetries * Cap
        BY <2>1, FewerCaps, PrimaryAssumption
      <4> QED
        BY <2>1, <3>2, <4>1, OneMoreCap, PrimaryAssumption DEF CallInv, TimeSlept
    <3> QED
      BY <3>1, <3>2
  <2>4. pc = "returned" => result.retries = Len(outcomes) - 1
    BY <2>1 DEF CallInv, AttemptsMade
  <2> QED
    BY <2>2, <2>3, <2>4 DEF CallIsBounded
<1> QED
  BY <1>1, CallInvariant, PTL

\* Every sleep respects the cap and, up to it, the Retry-After header.
THEOREM RetryAfterIsHonoured == Spec => []RetryAfterIsAFloor
<1>1. CallInv => RetryAfterIsAFloor
  BY DEF CallInv
<1> QED
  BY <1>1, CallInvariant, PTL

\* How the jitter differs from the "full jitter" of _backoff_delay's docstring,
\* which would put a sleep anywhere between nothing and the backoff: no sleep
\* is ever shorter than the exponential backoff, the cap allowing.
THEOREM JitterIsOnTop ==
  Spec => [](pc = "sleeping" => delay >= Least(Cap, Base * 2^attempt))
<1>1. CallInv => (pc = "sleeping" => delay >= Least(Cap, Base * 2^attempt))
  BY DEF CallInv, JitterOnTop
<1> QED
  BY <1>1, CallInvariant, PTL

\* An attempt that was not transient is the last one.
THEOREM RetriesAreTransient == Spec => []OnlyTransientIsRetried
<1>1. CallInv => OnlyTransientIsRetried
  BY DEF CallInv, RetriedAttempts, OnlyTransientIsRetried
<1> QED
  BY <1>1, CallInvariant, PTL

\* The error raised is the one of the last attempt.
THEOREM LastErrorIsRaised == Spec => []ErrorIsTheLastAttempts
<1>1. CallInv => ErrorIsTheLastAttempts
  BY DEF CallInv
<1> QED
  BY <1>1, CallInvariant, PTL

-----------------------------------------------------------------------------
\* Why a call ends: what CallEnds rests on besides fairness.

\* The steps a call can still take: an attempt and a sleep for each retry that
\* is left, and the attempt it is making.
StepsLeft ==
    CASE pc = "posting" -> 2 * (MaxRetries - attempt) + 1
      [] pc = "sleeping" -> 2 * (MaxRetries - attempt)
      [] OTHER -> 0

LEMMA StepsLeftValue ==
  /\ pc = "posting" => StepsLeft = 2 * (MaxRetries - attempt) + 1
  /\ pc = "sleeping" => StepsLeft = 2 * (MaxRetries - attempt)
  /\ pc \notin {"posting", "sleeping"} => StepsLeft = 0
BY Zenon DEF StepsLeft

\* A step uses up one of the steps that are left at least; so a call that has
\* ended takes none, and no call goes round for ever, whatever Retry-After
\* the upstream sends and whatever errors come in between.
THEOREM EveryStepBringsTheEnd ==
  Spec => [][StepsLeft' < StepsLeft /\ {StepsLeft, StepsLeft'} \subseteq Nat]_vars
<1>1. CallInv /\ [Next]_vars
        => [StepsLeft' < StepsLeft /\ {StepsLeft, StepsLeft'} \subseteq Nat]_vars
  <2> SUFFICES ASSUME CallInv, Next
               PROVE  StepsLeft \in Nat /\ StepsLeft' \in Nat /\ StepsLeft' < StepsLeft
    OBVIOUS
  <2>1. /\ MaxRetries \in Nat /\ attempt \in Nat /\ attempt <= MaxRetries
        /\ pc = "sleeping" => attempt < MaxRetries
    BY PrimaryAssumption DEF CallInv, TypeOK, AttemptsMade
  <2>2. /\ pc' = "posting" => StepsLeft' = 2 * (MaxRetries - attempt') + 1
        /\ pc' = "sleeping" => StepsLeft' = 2 * (MaxRetries - attempt')
        /\ pc' \notin {"posting", "sleeping"} => StepsLeft' = 0
    BY Zenon DEF StepsLeft
  <2>3. CASE Wake
    BY <2>1, <2>2, <2>3, StepsLeftValue DEF Wake
  <2>4. ASSUME pc = "posting", attempt' = attempt,
               \/ pc' = "sleeping" /\ attempt < MaxRetries
               \/ pc' \in {"returned", "raised", "crashed"}
        PROVE  StepsLeft \in Nat /\ StepsLeft' \in Nat /\ StepsLeft' < StepsLeft
    BY <2>1, <2>2, <2>4, StepsLeftValue
  <2>5. CASE PostTimesOut \/ PostFails \/ PostRetryable
    BY <2>4, <2>5 DEF PostTimesOut, PostFails, NoResponse, PostRetryable, BackOff, GiveUp
  <2>6. CASE PostReturns \/ PostRaises
    BY <2>4, <2>6 DEF PostReturns, PostRaises
  <2> QED
    BY <2>3, <2>5, <2>6 DEF Next
<1> QED
  BY <1>1, CallInvariant, PTL DEF Spec

-----------------------------------------------------------------------------
\* The payload.

\* What has been sent is what the client has sent, with the default of the
\* upstream; that is so of the next attempt and of the job still to come
\* because the two clients share the object and neither has changed it.
ForwardInv ==
    /\ received \in Payloads
    /\ payload = received
    /\ request = apply_default_model(received, defaults["primary"])
    /\ \A call \in wire : call[2] = apply_default_model(received, defaults[call[1]])

LEMMA ForwardInvInit == ForwardInit => ForwardInv
BY DEF ForwardInit, Chat, ForwardInv

LEMMA ForwardInvStep == ForwardInv /\ [ForwardNext]_<<vars, forwardVars>> => ForwardInv'
<1> SUFFICES ASSUME ForwardInv, [ForwardNext]_<<vars, forwardVars>> PROVE ForwardInv'
  OBVIOUS
<1>1. CASE Retry
  BY <1>1 DEF Retry, ForwardInv
<1>2. CASE Invoke
  BY <1>2 DEF Invoke, ForwardInv
<1>3. CASE CallGoesOn \/ UNCHANGED <<vars, forwardVars>>
  BY <1>3 DEF CallGoesOn, forwardVars, ForwardInv
<1> QED
  BY <1>1, <1>2, <1>3 DEF ForwardNext, CallStep

\* Neither upstream is ever sent the other's default model, nor a payload that
\* differs in more than a default from the client's.
THEOREM DefaultsStayApart == ForwardSpec => []EachUpstreamItsOwnDefault
<1>1. ForwardInv => EachUpstreamItsOwnDefault
  <2> SUFFICES ASSUME ForwardInv, NEW call \in wire
               PROVE  /\ call[2].object = received.object
                      /\ received.model # Absent \/ ~received.object
                           => call[2].model = received.model
                      /\ received.object /\ received.model = Absent
                           => call[2].model = defaults[call[1]]
    BY DEF EachUpstreamItsOwnDefault
  <2>1. call[2] = apply_default_model(received, defaults[call[1]])
    BY DEF ForwardInv
  <2>2. received = [object |-> received.object, model |-> received.model]
    BY DEF ForwardInv, Payloads, Payload
  <2> DEFINE filled == [received EXCEPT !.model = defaults[call[1]]]
  <2>3. filled.object = received.object /\ filled.model = defaults[call[1]]
    BY <2>2
  <2> HIDE DEF filled
  <2>4. call[2] = IF defaults[call[1]] # Absent /\ received.object /\ received.model = Absent
                    THEN filled ELSE received
    BY <2>1 DEF apply_default_model, filled
  <2> QED
    BY <2>3, <2>4
<1> QED
  BY <1>1, ForwardInvInit, ForwardInvStep, PTL DEF ForwardSpec

\* Whatever is retried is sent as it was: all the calls made to an upstream for
\* one request carry one body.
THEOREM RetriesSendOneBody ==
  ForwardSpec => [](\A c, d \in wire : c[1] = d[1] => c[2] = d[2])
<1>1. ForwardInv => \A c, d \in wire : c[1] = d[1] => c[2] = d[2]
  BY DEF ForwardInv
<1> QED
  BY <1>1, ForwardInvInit, ForwardInvStep, PTL DEF ForwardSpec

\* Within the service a call is the call of PrimaryLLM, so all that is proved
\* of that one holds of it.
THEOREM ForwardingRefinesPrimary == ForwardSpec => Init /\ [][Next]_vars
<1>1. [ForwardNext]_<<vars, forwardVars>> => [Next]_vars
  BY DEF ForwardNext, CallStep, Retry, CallGoesOn, Invoke, Next, vars
<1>2. ForwardInit => Init
  BY DEF ForwardInit
<1> QED
  BY <1>1, <1>2, PTL DEF ForwardSpec
=============================================================================
