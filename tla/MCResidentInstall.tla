------------------------- MODULE MCResidentInstall -------------------------
(* Two images of three rows: one ends in a full row of the second page, the *)
(* other in a partial row of it.                                            *)
EXTENDS ResidentInstall
CONSTANTS ImageA, ImageB
MCImages == {ImageA, ImageB}
MCLength == [m \in MCImages |-> IF m = ImageA THEN 6 ELSE 5]
=============================================================================
