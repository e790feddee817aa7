----------------------------- MODULE Comparison -----------------------------
(***************************************************************************)
(* One comparison of two responses by the evaluator                        *)
(* (app/services/evaluator_service.py), for any set of actions that        *)
(* responses may carry: evaluate() is a pure function, so a behaviour is   *)
(* one call of it on one pair of responses.                                *)
(***************************************************************************)
EXTENDS Evaluator

CONSTANT Actions   \* the values of "action", Missing and Null among them

Responses ==
    {Plain(k) : k \in {"none", "text", "unparseable", "nonobject"}}
        \cup {Object(a) : a \in Actions}

VARIABLES
    primary, candidate,   \* the responses compared
    evaluated,            \* has evaluate() returned?
    result                \* what it returned
vars == <<primary, candidate, evaluated, result>>

Init ==
    /\ primary \in Responses
    /\ candidate \in Responses
    /\ evaluated = FALSE
    /\ result = Result(FALSE, Null, Null, FALSE)

Next ==
    /\ ~evaluated
    /\ evaluated' = TRUE
    /\ result' = Evaluate(primary, candidate)
    /\ UNCHANGED <<primary, candidate>>

Spec == Init /\ [][Next]_vars

\* The counters and the traces agree on every comparison: an exact match is of
\* two valid responses and never leaves a trace, and two valid responses that
\* do not match always leave one; so no evaluation is lost between the match
\* rate of GET /metrics and the rows kept for offline inspection.
MatchOrTrace ==
    evaluated =>
        /\ result.exact_match => result.json_valid
        /\ result.json_valid => (result.exact_match <=> ~Diverges(result))

\* Which side is called primary does not matter: swapping the two responses
\* swaps the actions and changes nothing else.
SidesAreSymmetric ==
    evaluated =>
        Evaluate(candidate, primary) =
            Result(result.json_valid, result.candidate_action,
                   result.primary_action, result.exact_match)

\* "True when both are valid JSON and their action values match exactly": a
\* match is of the same JSON value, type included.
MatchesAreExact ==
    evaluated /\ result.exact_match => ActionOf(primary) = ActionOf(candidate)
=============================================================================
