----------------------------- MODULE Evaluator -----------------------------
(***************************************************************************)
(* app/services/evaluator_service.py: what one comparison of a primary and *)
(* a candidate response returns, and the pipeline's decision to keep a     *)
(* trace of it (app/services/shadow_pipeline.py).                          *)
(*                                                                         *)
(* A response is the raw text of an upstream body, told apart only as far  *)
(* as the evaluator looks: None (the primary failed), text that is not     *)
(* JSON, text whose parsing raises anything else than ValueError (nesting  *)
(* beyond the recursion limit), JSON that is not an object, or an object   *)
(* with its top-level "action".                                            *)
(*                                                                         *)
(* A JSON value, nested as it may be, is its form (how its lists and       *)
(* objects are nested, with their lengths and keys) and its leaves, the    *)
(* scalars that stand in the form's places.  A scalar is its Python type   *)
(* and a number that stands for it: the number it is worth when it has     *)
(* one.                                                                    *)
(***************************************************************************)
EXTENDS Naturals, Sequences

Scalar(type, val) == [type |-> type, val |-> val]
Value(form, leaves) == [form |-> form, leaves |-> leaves]

\* A value that is a scalar itself.
Atom(type, val) == Value("scalar", <<Scalar(type, val)>>)

Null == Atom("null", 0)
Missing == Value("missing", <<>>)
NaN == Atom("nan", 0)

Numeric == {"bool", "int", "float"}

\* Python's == on scalars: True is 1 and 1 is 1.0; NaN is not even equal to
\* itself.
ScalarEq(a, b) ==
    /\ "nan" \notin {a.type, b.type}
    /\ IF a.type \in Numeric /\ b.type \in Numeric
         THEN a.val = b.val
         ELSE a = b

\* Python's == on JSON values.  Lists and objects are compared item by item,
\* and there an object is equal to itself before == is asked: every NaN that
\* json.loads() returns is one and the same object.
PyEq(a, b) ==
    /\ a.form = b.form
    /\ DOMAIN a.leaves = DOMAIN b.leaves
    /\ \A i \in DOMAIN a.leaves :
          \/ ScalarEq(a.leaves[i], b.leaves[i])
          \/ a.form # "scalar" /\ a.leaves[i] = b.leaves[i]

Plain(kind) == [kind |-> kind, action |-> Missing]
Object(action) == [kind |-> "object", action |-> action]

NoResponse == Plain("none")

\* _parse_json: the evaluator's notion of a valid response.
IsJson(r) == r.kind \in {"nonobject", "object"}

\* _extract_action: a missing action and an explicit null are both None.
ActionOf(r) ==
    IF r.kind = "object" /\ r.action # Missing THEN r.action ELSE Null

Result(valid, p, c, exact) ==
    [json_valid |-> valid, primary_action |-> p, candidate_action |-> c,
     exact_match |-> exact]

\* (Variant: the actions compared whether or not both sides are JSON.)
Evaluate_IgnoresValidity(p, c) ==
    Result(IsJson(p) /\ IsJson(c), ActionOf(p), ActionOf(c),
           PyEq(ActionOf(p), ActionOf(c)))

\* (Variant: a candidate that is not JSON keeps the primary's action.)
Evaluate_OneSided(p, c) ==
    Result(IsJson(p), ActionOf(p), ActionOf(c),
           IsJson(p) /\ PyEq(ActionOf(p), ActionOf(c)))

\* evaluate(): never raises; what it cannot parse it calls invalid.
Evaluate(p, c) ==
    IF "unparseable" \in {p.kind, c.kind}
      THEN Result(FALSE, Null, Null, FALSE)
      ELSE LET valid == IsJson(p) /\ IsJson(c)
           IN  Result(valid, ActionOf(p), ActionOf(c),
                      valid /\ PyEq(ActionOf(p), ActionOf(c)))

\* The pipeline's test for a trace: primary_action != candidate_action.
Diverges(e) == ~PyEq(e.primary_action, e.candidate_action)
=============================================================================
