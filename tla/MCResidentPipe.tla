--------------------------- MODULE MCResidentPipe ---------------------------
(* Cells decay one by one, so that a supply that fails several times in a    *)
(* row reaches every partly decayed container, or all at once.               *)
EXTENDS ResidentPipe
MCDecays == {{c} : c \in Cells} \cup {Cells}
=============================================================================
