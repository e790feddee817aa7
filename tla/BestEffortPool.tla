--------------------------- MODULE BestEffortPool ---------------------------
(***************************************************************************)
(* What a pool of best-effort jobs promises to the code that offers them,  *)
(* whatever its queue and its tasks look like: a job offered is refused at *)
(* once or accepted; it is refused only when MaxWaiting jobs already wait; *)
(* an accepted job runs at most once; at most MaxRunning run at a time; a  *)
(* job is started only while the pool is open and given up only while it   *)
(* is closed; and, while the pool stays open, every accepted job runs.     *)
(***************************************************************************)
EXTENDS Naturals, FiniteSets

CONSTANTS Jobs,        \* the jobs that may be offered
          MaxWaiting,  \* how many may wait
          MaxRunning   \* how many may run

VARIABLES status,      \* what became of each job
          open         \* is the pool open?

poolVars == <<status, open>>

Waiting == {j \in Jobs : status[j] = "waiting"}
Running == {j \in Jobs : status[j] = "running"}

Init ==
    /\ status = [j \in Jobs |-> "unseen"]
    /\ open = FALSE

Move(j, from, to) ==
    /\ status[j] = from
    /\ status' = [status EXCEPT ![j] = to]
    /\ UNCHANGED open

Accept(j) ==
    /\ Cardinality(Waiting) < MaxWaiting
    /\ Move(j, "unseen", "waiting")

Refuse(j) ==
    /\ Cardinality(Waiting) = MaxWaiting
    /\ Move(j, "unseen", "refused")

Begin(j) ==
    /\ open
    /\ Cardinality(Running) < MaxRunning
    /\ Move(j, "waiting", "running")

Finish(j) ==
    /\ open
    /\ Move(j, "running", "finished")

Abandon(j) ==
    /\ ~open
    /\ Move(j, "running", "abandoned")

Open ==
    /\ ~open
    /\ Running = {}
    /\ open' = TRUE
    /\ UNCHANGED status

Close ==
    /\ open
    /\ open' = FALSE
    /\ UNCHANGED status

Next ==
    \/ \E j \in Jobs : \/ Accept(j)
                       \/ Refuse(j)
                       \/ Begin(j)
                       \/ Finish(j)
                       \/ Abandon(j)
    \/ Open
    \/ Close

SafePool == Init /\ [][Next]_poolVars

Fairness ==
    \A j \in Jobs : /\ WF_poolVars(Begin(j))
                    /\ WF_poolVars(Finish(j))
                    /\ WF_poolVars(Abandon(j))

Spec == SafePool /\ Fairness
=============================================================================
