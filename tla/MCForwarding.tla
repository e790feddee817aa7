---------------------------- MODULE MCForwarding ----------------------------
(***************************************************************************)
(* Forwarding with a Retry-After header of each kind: one that is ignored, *)
(* one under the cap and one over it.                                      *)
(***************************************************************************)
EXTENDS Forwarding

Headers == {-1, 3, 7}
=============================================================================
