---------------------------- MODULE MCShadowMode ----------------------------
(* Instances of ShadowMode for TLC.                                        *)
EXTENDS ShadowMode, TLC

Buy == Object(Atom("str", 1))
Sell == Object(Atom("str", 2))
NotJson == Plain("text")
NaNAction == Object(NaN)

ThreeBodies == {Buy, Sell, NotJson}
BodiesAndNaN == {Buy, NaNAction}

Deployment(candidate, primary, percentage) ==
    [candidate |-> candidate, primary |-> primary, percentage |-> percentage]

\* Everything configured, with and without a candidate, with and without the
\* primary's key; every request mirrored.
FullMirroring ==
    {Deployment(TRUE, TRUE, 100), Deployment(FALSE, TRUE, 100),
     Deployment(TRUE, FALSE, 100)}

\* Sampling: either decision for every request.
Sampling == {Deployment(TRUE, TRUE, 50)}

\* Every request, or any of them.
AllOrSome == Sampling \cup {Deployment(TRUE, TRUE, 100)}

RequestSymmetry == Permutations(Requests)
=============================================================================
