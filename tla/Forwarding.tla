------------------------------ MODULE Forwarding ------------------------------
(***************************************************************************)
(* One payload, two upstreams: the chat handler (app/api/routes/chat.py)   *)
(* hands the object it has received to the primary's client, whose call is *)
(* that of PrimaryLLM, and, in the closure of the shadow job, to the       *)
(* candidate's.  Each client fills in its own default model                *)
(* (app/utils/http.py), the primary's before its first attempt, the        *)
(* candidate's whenever a worker gets to the job: before a retry of the    *)
(* primary, between two, or when the handler is long gone.                 *)
(***************************************************************************)
EXTENDS PrimaryLLM

CONSTANTS
    Models,       \* what a "model" member may be, null included
    Absent        \* a payload, or a setting, without a model

ASSUME ForwardingAssumption == Absent \notin Models

VARIABLES
    defaults,   \* the default model of each upstream in the settings
    received,   \* what the client has sent (history)
    payload,    \* the object that the handler and its job share
    request,    \* the primary client's request_payload
    shadow,     \* where the shadow job is
    wire        \* the calls made: <<upstream, body>>

forwardVars == <<defaults, received, payload, request, shadow, wire>>

Upstreams == {"primary", "candidate"}

\* A payload is a JSON object, with a model or without one, or other JSON.
Payload(object, model) == [object |-> object, model |-> model]
Payloads == {Payload(TRUE, m) : m \in Models \cup {Absent}} \cup {Payload(FALSE, Absent)}

apply_default_model(body, model) ==
    IF model # Absent /\ body.object /\ body.model = Absent
      THEN [body EXCEPT !.model = model]
      ELSE body

\* (Variant: the default is written into the payload.)
Chat_FillsInPlace(body) ==
    LET filled == apply_default_model(body, defaults["primary"])
    IN  /\ received = body
        /\ payload = filled
        /\ request = filled
        /\ wire = IF pc = "posting" THEN {<<"primary", filled>>} ELSE {}
        /\ shadow \in {"none", "queued"}

\* The handler up to the primary's first attempt, which waits for nothing; a
\* job that is mirrored is queued by then.  Without an API key there is no
\* attempt.
Chat(body) ==
    LET filled == apply_default_model(body, defaults["primary"])
    IN  /\ received = body
        /\ payload = body
        /\ request = filled
        /\ wire = IF pc = "posting" THEN {<<"primary", filled>>} ELSE {}
        /\ shadow \in {"none", "queued"}

ForwardInit ==
    /\ Init
    /\ defaults \in [Upstreams -> Models \cup {Absent}]
    /\ \E body \in Payloads : Chat(body)

\* The next attempt sends the same object again.
Retry ==
    /\ Wake
    /\ wire' = wire \cup {<<"primary", request>>}
    /\ UNCHANGED <<defaults, received, payload, request, shadow>>

\* An attempt ends, and perhaps the call.
CallGoesOn ==
    /\ PostTimesOut \/ PostFails \/ PostRetryable \/ PostReturns \/ PostRaises
    /\ UNCHANGED forwardVars

\* A worker runs the job up to the candidate's call.
Invoke ==
    /\ shadow = "queued"
    /\ shadow' = "called"
    /\ wire' = wire \cup
         {<<"candidate", apply_default_model(payload, defaults["candidate"])>>}
    /\ UNCHANGED <<vars, defaults, received, payload, request>>

CallStep == Retry \/ CallGoesOn

ForwardNext == CallStep \/ Invoke

\* The call goes on as in PrimaryLLM; nobody need run the job.
ForwardSpec ==
    /\ ForwardInit
    /\ [][ForwardNext]_<<vars, forwardVars>>
    /\ WF_<<vars, forwardVars>>(CallStep)

-----------------------------------------------------------------------------

\* Each upstream is called with what the client has sent, with a model of its
\* own where the client named none: neither the order in which the two calls
\* and the retries are made nor the object they share makes one upstream's
\* default the other's, or touches what the client did say.
EachUpstreamItsOwnDefault ==
    \A call \in wire :
        LET upstream == call[1]
            body == call[2]
        IN  /\ body.object = received.object
            /\ received.model # Absent \/ ~received.object => body.model = received.model
            /\ received.object /\ received.model = Absent
                 => body.model = defaults[upstream]
=============================================================================
