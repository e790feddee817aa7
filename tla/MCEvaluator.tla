---------------------------- MODULE MCEvaluator ----------------------------
(***************************************************************************)
(* Comparison with actions of each kind the evaluator tells apart: scalars *)
(* by type and worth, and lists and objects whose items are such.          *)
(***************************************************************************)
EXTENDS Comparison

Scalars ==
    {Scalar("null", 0), Scalar("nan", 0),
     Scalar("bool", 0), Scalar("bool", 1),
     Scalar("int", 0), Scalar("int", 1), Scalar("int", 2), Scalar("float", 1),
     Scalar("str", 1), Scalar("str", 2)}

\* The scalars themselves; [] and {}; [x]; {"key": x}; [x, y] and [[x], y].
KindsOfAction ==
    {Missing, Value("[]", <<>>), Value("{}", <<>>)}
        \cup {Value(form, <<x>>) : form \in {"scalar", "[_]", "{key: _}"}, x \in Scalars}
        \cup {Value(form, <<x, y>>) :
                 form \in {"[_, _]", "[[_], _]"},
                 x \in {Scalar("bool", 1), Scalar("nan", 0)},
                 y \in {Scalar("int", 1), Scalar("str", 1)}}
=============================================================================
