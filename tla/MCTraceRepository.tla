------------------------- MODULE MCTraceRepository --------------------------
(***************************************************************************)
(* The instance of TraceRepository that TLC checks.                        *)
(***************************************************************************)
EXTENDS TraceRepository

CONSTANTS t1, t2, t3
=============================================================================
