----------------------------- MODULE PrimaryLLM -----------------------------
(***************************************************************************)
(* One call of PrimaryLLMService.chat() (app/services/                     *)
(* primary_llm_service.py): at most MaxRetries + 1 attempts, a sleep       *)
(* between two of them, and then the last response or the last error.      *)
(*                                                                         *)
(* The calls of different requests share nothing but the HTTP client, so   *)
(* one call is the whole component.  Times are whole milliseconds (the     *)
(* code uses float seconds); a Retry-After header that is absent or no     *)
(* number of seconds is a header of 0, which is what ignoring it comes to. *)
(***************************************************************************)
EXTENDS Integers, Sequences

CONSTANTS
    MaxRetries,   \* primary_llm_max_retries
    Base,         \* primary_llm_backoff_base_seconds, in ms
    Cap,          \* primary_llm_backoff_max_seconds, in ms
    RetryAfters   \* the Retry-After headers the upstream may send, in ms

ASSUME PrimaryAssumption ==
    /\ MaxRetries \in Nat
    /\ Base \in Nat \ {0}
    /\ Cap \in Nat \ {0}
    /\ RetryAfters \subseteq Int

VARIABLES
    pc,         \* where the call is
    attempt,    \* the loop's index
    lastError,  \* last_error
    delay,      \* the sleep chosen for the next retry
    slept,      \* all the time slept so far (history)
    outcomes,   \* how each attempt ended (history)
    result      \* what chat() returned or raised

vars == <<pc, attempt, lastError, delay, slept, outcomes, result>>

Places == {"posting", "sleeping", "returned", "raised", "crashed"}
Errors == {"none", "config", "timeout", "connection"}

\* What an attempt can come to: no response in time, no connection, a
\* response with a status of _RETRYABLE_STATUS or another, or an exception
\* httpx does not derive from TransportError (a body it cannot decode).
Kinds == {"timeout", "transport", "retryable", "other", "exception"}
Transient == {"timeout", "transport", "retryable"}

\* A body is JSON, text that is not, or text whose parsing raises more than
\* ValueError; what the client gets of it.
UpstreamBodies == {"json", "text", "unparseable"}
Contents == {"none", "json", "rawEnvelope"}

Outcome(kind, retryAfter, body) ==
    [kind |-> kind, retryAfter |-> retryAfter, body |-> body]

Outcomes ==
    [kind : Kinds, retryAfter : Nat, body : UpstreamBodies \cup {"none"}]

\* parse_retry_after: a negative number of seconds is ignored as well.
ParseRetryAfter(header) == IF header >= 0 THEN header ELSE 0

\* parse_json_body: what is not JSON is wrapped as {"raw": text}.
ParseJsonBody(body) == IF body = "json" THEN "json" ELSE "rawEnvelope"

Result(error, content, retries) ==
    [error |-> error, content |-> content, retries |-> retries]

NoResult == Result("none", "none", 0)

Least(a, b) == IF a < b THEN a ELSE b
Greatest(a, b) == IF a < b THEN b ELSE a

\* (Variant: the cap is not applied again after the Retry-After floor.)
BackoffDelay_UncappedFloor(i, retryAfter, jitter) ==
    Greatest(Least(Cap, Base * 2^i) + jitter, retryAfter)

\* (Variant: the header is taken for one more bound from above.)
BackoffDelay_HeaderShortens(i, retryAfter, jitter) ==
    IF retryAfter > 0
      THEN Least(Least(Least(Cap, Base * 2^i) + jitter, retryAfter), Cap)
      ELSE Least(Least(Cap, Base * 2^i) + jitter, Cap)

\* _backoff_delay: exponential, with the jitter on top of it (which is not the
\* "full jitter" of its docstring), floored and then capped.
BackoffDelay(i, retryAfter, jitter) ==
    Least(Greatest(Least(Cap, Base * 2^i) + jitter, retryAfter), Cap)

\* Without an API key chat() raises before the first attempt.
Init ==
    /\ \/ pc = "posting" /\ result = NoResult
       \/ pc = "raised" /\ result = Result("config", "none", 0)
    /\ attempt = 0
    /\ lastError = "none"
    /\ delay = 0
    /\ slept = 0
    /\ outcomes = <<>>

Ended(o) == outcomes' = Append(outcomes, o)

\* The sleep after a failed attempt, with budget left.
BackOff(retryAfter) ==
    /\ attempt < MaxRetries
    /\ \E jitter \in 0 .. Base : delay' = BackoffDelay(attempt, retryAfter, jitter)
    /\ pc' = "sleeping"
    /\ UNCHANGED <<attempt, slept, result>>

\* "error = last_error or PrimaryLLMConnectionError()", after the last attempt.
GiveUp ==
    /\ attempt = MaxRetries
    /\ result' = Result(IF lastError' = "none" THEN "connection" ELSE lastError',
                        "none", MaxRetries)
    /\ pc' = "raised"
    /\ UNCHANGED <<attempt, delay, slept>>

\* (Variant: the first error is the one reported.)
NoResponse_FirstError(kind, error) ==
    /\ pc = "posting"
    /\ Ended(Outcome(kind, 0, "none"))
    /\ lastError' = IF lastError = "none" THEN error ELSE lastError
    /\ BackOff(0) \/ GiveUp

NoResponse(kind, error) ==
    /\ pc = "posting"
    /\ Ended(Outcome(kind, 0, "none"))
    /\ lastError' = error
    /\ BackOff(0) \/ GiveUp

PostTimesOut == NoResponse("timeout", "timeout")
PostFails == NoResponse("transport", "connection")

\* (Variant: every status is worth a retry.)
PostRetryable_AnyStatus ==
    /\ pc = "posting"
    /\ \E kind \in {"retryable", "other"}, body \in UpstreamBodies,
          header \in RetryAfters \cup {0} :
        /\ Ended(Outcome(kind, ParseRetryAfter(header), body))
        /\ BackOff(ParseRetryAfter(header))
    /\ UNCHANGED lastError

\* A transient status, while attempts are left: its body is dropped.
PostRetryable ==
    /\ pc = "posting"
    /\ \E header \in RetryAfters \cup {0}, body \in UpstreamBodies :
        /\ Ended(Outcome("retryable", ParseRetryAfter(header), body))
        /\ BackOff(ParseRetryAfter(header))
    /\ UNCHANGED lastError

\* Any other response, or a transient status on the last attempt: it is the
\* result, unless its body cannot even be parsed.  Nobody looks at its header.
PostReturns ==
    /\ pc = "posting"
    /\ \E kind \in {"retryable", "other"}, body \in UpstreamBodies :
        /\ kind = "retryable" => attempt = MaxRetries
        /\ Ended(Outcome(kind, 0, body))
        /\ IF body = "unparseable"
             THEN pc' = "crashed" /\ UNCHANGED result
             ELSE /\ pc' = "returned"
                  /\ result' = Result("none", ParseJsonBody(body), attempt)
    /\ UNCHANGED <<attempt, lastError, delay, slept>>

\* An exception the loop does not catch.
PostRaises ==
    /\ pc = "posting"
    /\ Ended(Outcome("exception", 0, "none"))
    /\ pc' = "crashed"
    /\ UNCHANGED <<attempt, lastError, delay, slept, result>>

\* (Variant: the sleep does not use up an attempt; bounded by the history.)
Wake_SameAttempt ==
    /\ pc = "sleeping"
    /\ Len(outcomes) <= MaxRetries
    /\ slept' = slept + delay
    /\ delay' = 0
    /\ pc' = "posting"
    /\ UNCHANGED <<attempt, lastError, outcomes, result>>

\* asyncio.sleep() returns and the loop goes on.
Wake ==
    /\ pc = "sleeping"
    /\ slept' = slept + delay
    /\ delay' = 0
    /\ attempt' = attempt + 1
    /\ pc' = "posting"
    /\ UNCHANGED <<lastError, outcomes, result>>

Next ==
    \/ PostTimesOut
    \/ PostFails
    \/ PostRetryable
    \/ PostReturns
    \/ PostRaises
    \/ Wake

\* The client's timeouts end every attempt, and a sleep ends.
Spec == Init /\ [][Next]_vars /\ WF_vars(Next)

-----------------------------------------------------------------------------
\* The properties.

\* Every variable has its type.
TypeOK ==
    /\ pc \in Places
    /\ attempt \in 0 .. MaxRetries
    /\ lastError \in Errors
    /\ delay \in Nat
    /\ slept \in Nat
    /\ outcomes \in Seq(Outcomes)
    /\ result \in [error : Errors, content : Contents, retries : 0 .. MaxRetries]

\* A call never costs more than MaxRetries + 1 attempts and MaxRetries sleeps
\* of Cap each, and the X-Primary-Retries header tells how many it cost.
CallIsBounded ==
    /\ Len(outcomes) <= MaxRetries + 1
    /\ slept + delay <= MaxRetries * Cap
    /\ pc = "returned" => result.retries = Len(outcomes) - 1

\* "we respect it as a floor (still capped)": each sleep honours the upstream
\* and the configuration at once, never over the cap and, up to it, never under
\* the Retry-After of the last response.
RetryAfterIsAFloor ==
    pc = "sleeping" =>
        /\ delay <= Cap
        /\ delay >= Least(Cap, outcomes[Len(outcomes)].retryAfter)

\* Only a transient outcome is followed by another attempt.
OnlyTransientIsRetried ==
    \A i \in 1 .. Len(outcomes) :
        (i < Len(outcomes) \/ pc = "sleeping") => outcomes[i].kind \in Transient

\* A call that raises used all its attempts, its last one got no response,
\* and the error is that attempt's: never an earlier one's, and never the
\* fallback of a call that recorded none.
ErrorIsTheLastAttempts ==
    pc = "raised" /\ result.error # "config" =>
        /\ Len(outcomes) = MaxRetries + 1
        /\ \/ outcomes[Len(outcomes)].kind = "timeout" /\ result.error = "timeout"
           \/ outcomes[Len(outcomes)].kind = "transport" /\ result.error = "connection"

\* Every call ends, whatever the upstream does to it.
CallEnds == <>(pc \in {"returned", "raised", "crashed"})
=============================================================================
