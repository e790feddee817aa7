--------------------------- MODULE EvaluatorProofs ---------------------------
(***************************************************************************)
(* Theorems about the evaluator, for every set of actions: a comparison    *)
(* counts as a match or leaves a trace, does not mind its sides, and is an *)
(* equivalence on the responses that a client would call the same.         *)
(***************************************************************************)
EXTENDS Comparison, TLAPS

-----------------------------------------------------------------------------
\* Python's equality, as the evaluator uses it, on scalars and on any values.

LEMMA ScalarEqFacts ==
  ASSUME NEW a, NEW b, NEW c
  PROVE  /\ ScalarEq(a, b) <=> ScalarEq(b, a)
         /\ ScalarEq(a, b) /\ ScalarEq(b, c) => ScalarEq(a, c)
         /\ ScalarEq(a, a) <=> a.type # "nan"
BY DEF ScalarEq

LEMMA PyEqSymmetric ==
  ASSUME NEW a, NEW b
  PROVE  PyEq(a, b) <=> PyEq(b, a)
BY ScalarEqFacts DEF PyEq

LEMMA PyEqTransitive ==
  ASSUME NEW a, NEW b, NEW c, PyEq(a, b), PyEq(b, c)
  PROVE  PyEq(a, c)
<1>1. a.form = c.form /\ DOMAIN a.leaves = DOMAIN c.leaves
  BY DEF PyEq
<1>2. ASSUME NEW i \in DOMAIN a.leaves
      PROVE  \/ ScalarEq(a.leaves[i], c.leaves[i])
             \/ a.form # "scalar" /\ a.leaves[i] = c.leaves[i]
  <2>1. \/ ScalarEq(a.leaves[i], b.leaves[i])
        \/ a.form # "scalar" /\ a.leaves[i] = b.leaves[i]
    BY DEF PyEq
  <2>2. \/ ScalarEq(b.leaves[i], c.leaves[i])
        \/ a.form # "scalar" /\ b.leaves[i] = c.leaves[i]
    BY DEF PyEq
  <2> QED
    BY <2>1, <2>2, ScalarEqFacts
<1> QED
  BY <1>1, <1>2 DEF PyEq

\* A value equals itself unless it is NaN; a list with a NaN in it does.
LEMMA PyEqReflexive ==
  ASSUME NEW a
  PROVE  PyEq(a, a) <=>
           ~(a.form = "scalar" /\ \E i \in DOMAIN a.leaves : a.leaves[i].type = "nan")
BY ScalarEqFacts DEF PyEq

\* A valid response is one that _parse_json could parse; the fields of what
\* evaluate() returns, one by one.
LEMMA EvaluateFields ==
  ASSUME NEW p, NEW c
  PROVE  LET e == Evaluate(p, c)
             parseable == "unparseable" \notin {p.kind, c.kind}
         IN  /\ e.json_valid = (IsJson(p) /\ IsJson(c))
             /\ e.primary_action = IF parseable THEN ActionOf(p) ELSE Null
             /\ e.candidate_action = IF parseable THEN ActionOf(c) ELSE Null
             /\ e.exact_match =
                   (IsJson(p) /\ IsJson(c) /\ PyEq(ActionOf(p), ActionOf(c)))
<1>1. CASE "unparseable" \in {p.kind, c.kind}
  <2>1. ~(IsJson(p) /\ IsJson(c))
    BY <1>1 DEF IsJson
  <2> QED
    BY <1>1, <2>1 DEF Evaluate, Result
<1>2. CASE "unparseable" \notin {p.kind, c.kind}
  BY <1>2 DEF Evaluate, Result
<1> QED
  BY <1>1, <1>2

-----------------------------------------------------------------------------
\* The two invariants of a comparison.

\* What is returned is what evaluate() makes of the two responses.
Returned == evaluated => result = Evaluate(primary, candidate)

LEMMA ReturnedInvariant == Spec => []Returned
<1>1. Init => Returned
  BY DEF Init, Returned
<1>2. Returned /\ [Next]_vars => Returned'
  BY DEF Returned, Next, vars
<1> QED
  BY <1>1, <1>2, PTL DEF Spec

\* Two valid responses are counted as a match or kept as a trace, and never
\* both: no evaluation is lost between the metrics and the rows.
THEOREM MatchesLeaveNoTrace == Spec => []MatchOrTrace
<1>1. Returned => MatchOrTrace
  <2> SUFFICES ASSUME Returned, evaluated PROVE MatchOrTrace
    BY DEF MatchOrTrace
  <2>1. result = Evaluate(primary, candidate)
    BY DEF Returned
  <2>2. IsJson(primary) /\ IsJson(candidate) =>
            "unparseable" \notin {primary.kind, candidate.kind}
    BY DEF IsJson
  <2> QED
    BY <2>1, <2>2, EvaluateFields DEF MatchOrTrace, Diverges
<1> QED
  BY <1>1, ReturnedInvariant, PTL

\* Swapping the responses swaps the two actions and changes nothing else.
THEOREM SidesDoNotMatter == Spec => []SidesAreSymmetric
<1>1. Returned => SidesAreSymmetric
  <2> SUFFICES ASSUME Returned, evaluated PROVE SidesAreSymmetric
    BY DEF SidesAreSymmetric
  <2>1. result = Evaluate(primary, candidate)
    BY DEF Returned
  <2>2. PyEq(ActionOf(primary), ActionOf(candidate))
            = PyEq(ActionOf(candidate), ActionOf(primary))
    BY PyEqSymmetric DEF PyEq
  <2> QED
    BY <2>1, <2>2 DEF SidesAreSymmetric, Evaluate, Result
<1> QED
  BY <1>1, ReturnedInvariant, PTL

\* Two scalars that are the same but for the types of numbers.
SameButForNumbers(x, y) ==
    \/ x = y
    \/ x.type \in Numeric /\ y.type \in Numeric /\ x.val = y.val

\* What is left of the documented "match exactly": actions that match are
\* nested alike, with the same keys and lengths, and wherever they differ, at
\* the top or inside, there are numbers worth the same (true, 1 and 1.0).
THEOREM MatchesAreExactButForNumbers ==
  Spec => [](evaluated /\ result.exact_match =>
               LET p == ActionOf(primary)
                   c == ActionOf(candidate)
               IN  /\ p.form = c.form
                   /\ DOMAIN p.leaves = DOMAIN c.leaves
                   /\ \A i \in DOMAIN p.leaves :
                         SameButForNumbers(p.leaves[i], c.leaves[i]))
<1> DEFINE Alike(p, c) ==
      /\ p.form = c.form
      /\ DOMAIN p.leaves = DOMAIN c.leaves
      /\ \A i \in DOMAIN p.leaves : SameButForNumbers(p.leaves[i], c.leaves[i])
<1>1. Returned =>
        (evaluated /\ result.exact_match => Alike(ActionOf(primary), ActionOf(candidate)))
  <2> SUFFICES ASSUME Returned, evaluated, result.exact_match
               PROVE  Alike(ActionOf(primary), ActionOf(candidate))
    OBVIOUS
  <2>1. PyEq(ActionOf(primary), ActionOf(candidate))
    BY EvaluateFields DEF Returned
  <2> QED
    BY <2>1 DEF PyEq, ScalarEq, SameButForNumbers
<1> QED
  BY <1>1, ReturnedInvariant, PTL

\* The candidate that answers with the primary's own body matches it, unless
\* the body is no JSON or its action is NaN (and not only has one inside).
THEOREM EchoMatches ==
  ASSUME NEW r
  PROVE  Evaluate(r, r).exact_match <=>
           /\ IsJson(r)
           /\ ~(ActionOf(r).form = "scalar"
                  /\ \E i \in DOMAIN ActionOf(r).leaves : ActionOf(r).leaves[i].type = "nan")
BY EvaluateFields, PyEqReflexive

\* Candidates that match a primary match each other: the match rate does not
\* depend on which of several agreeing models serves as the primary.
THEOREM MatchingIsTransitive ==
  ASSUME NEW p, NEW q, NEW r,
         Evaluate(p, q).exact_match, Evaluate(q, r).exact_match
  PROVE  Evaluate(p, r).exact_match
BY EvaluateFields, PyEqTransitive

\* Responses without an action never leave a trace, valid or not: a primary
\* that failed and a candidate that returned garbage are not kept.
THEOREM NoActionsNoTrace ==
  ASSUME NEW p, NEW c, ActionOf(p) = Null, ActionOf(c) = Null
  PROVE  ~Diverges(Evaluate(p, c))
<1>1. PyEq(Null, Null)
  BY DEF PyEq, ScalarEq, Null, Atom, Value, Scalar
<1> QED
  BY <1>1, EvaluateFields DEF Diverges
=============================================================================
