--------------------------- MODULE MCRequestContext ---------------------------
(* Instances of RequestContext for TLC.                                    *)
EXTENDS RequestContext, TLC

RequestSymmetry == Permutations(Requests)
=============================================================================
