--------------------------- MODULE MCAudioTransport ---------------------------
(* The 96 kHz build, whose codec driver starts from 48 kHz.                  *)
EXTENDS AudioTransport

MCNominal == [l \in Legs |-> 96000]
===============================================================================
