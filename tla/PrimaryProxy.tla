---------------------------- MODULE PrimaryProxy ----------------------------
(***************************************************************************)
(* What the service promises its clients, as if shadow mode did not exist: *)
(* each request sent is settled exactly once, with a body the primary      *)
(* returned or with an error, and it is settled as long as the primary     *)
(* call ends, whatever the candidate, the workers or the trace database    *)
(* do.                                                                     *)
(***************************************************************************)
CONSTANTS Requests,   \* the requests clients may send
          Bodies,     \* the bodies the primary may return
          NoReply     \* no body

VARIABLES exchange,   \* where each request is
          reply       \* the body each client was sent

proxyVars == <<exchange, reply>>

Init ==
    /\ exchange = [r \in Requests |-> "unsent"]
    /\ reply = [r \in Requests |-> NoReply]

Send(r) ==
    /\ exchange[r] = "unsent"
    /\ exchange' = [exchange EXCEPT ![r] = "inflight"]
    /\ UNCHANGED reply

Answer(r) ==
    /\ exchange[r] = "inflight"
    /\ exchange' = [exchange EXCEPT ![r] = "answered"]
    /\ \E b \in Bodies : reply' = [reply EXCEPT ![r] = b]

Fail(r) ==
    /\ exchange[r] = "inflight"
    /\ exchange' = [exchange EXCEPT ![r] = "failed"]
    /\ UNCHANGED reply

Next == \E r \in Requests : Send(r) \/ Answer(r) \/ Fail(r)

SafeProxy == Init /\ [][Next]_proxyVars

Spec == SafeProxy /\ \A r \in Requests : WF_proxyVars(Answer(r) \/ Fail(r))
=============================================================================
