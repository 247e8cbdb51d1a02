--------------------------- MODULE MCPeriodQueue ---------------------------
(* Detector A fills its queue and wraps its indices; B, which runs the same code
   and is drained and reset behind A, captures once. *)
EXTENDS PeriodQueue

MCCaptures == [A |-> 5, B |-> 1]
=============================================================================
