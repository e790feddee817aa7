----------------------------- MODULE TraceStore -----------------------------
(***************************************************************************)
(* What the trace repository promises: saving a trace ends, whatever the   *)
(* database does; a trace acknowledged as persisted is stored, and what is *)
(* stored stays stored.  The store may also hold traces whose save was     *)
(* given up, since a failed or abandoned save does not say which.          *)
(***************************************************************************)
CONSTANTS Traces   \* the traces that may be saved

VARIABLES request,  \* each save: "new", "asked", "acknowledged", "givenUp"
          stored    \* the traces stored

storeVars == <<request, stored>>

Init ==
    /\ request = [t \in Traces |-> "new"]
    /\ stored = {}

Ask(t) ==
    /\ request[t] = "new"
    /\ request' = [request EXCEPT ![t] = "asked"]
    /\ UNCHANGED stored

\* The database makes some of the traces it was asked to keep durable.
Store ==
    /\ \E S \in SUBSET {t \in Traces : request[t] # "new"} : stored' = stored \cup S
    /\ UNCHANGED request

Acknowledge(t) ==
    /\ request[t] = "asked"
    /\ t \in stored
    /\ request' = [request EXCEPT ![t] = "acknowledged"]
    /\ UNCHANGED stored

\* A save fails, is cancelled, or finds no database.  One the process took
\* with it when it crashed is given up with all the others.
GiveUp ==
    /\ \E S \in SUBSET {t \in Traces : request[t] \in {"new", "asked"}} :
          request' = [t \in Traces |-> IF t \in S THEN "givenUp" ELSE request[t]]
    /\ UNCHANGED stored

Next ==
    \/ \E t \in Traces : Ask(t) \/ Acknowledge(t)
    \/ Store
    \/ GiveUp

SafeStore == Init /\ [][Next]_storeVars

\* Every save asked for ends.
SavesSettle == \A t \in Traces : request[t] = "asked" ~> request[t] # "asked"

Spec == SafeStore /\ SavesSettle
=============================================================================
