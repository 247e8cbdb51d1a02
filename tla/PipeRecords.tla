----------------------------- MODULE PipeRecords -----------------------------
(***************************************************************************)
(* What the cross-reset container promises to the two images that talk     *)
(* through it: a record is there only because its publisher completed it;  *)
(* a reset, a power failure or an interrupted store may lose a record but  *)
(* never makes one or brings an old one back; and the container becomes    *)
(* usable only with every record absent.  The payload of the cause record  *)
(* has no check of its own: it alone may be garbled by a loss of power.    *)
(***************************************************************************)
EXTENDS Naturals

CONSTANTS Causes,   \* reset causes the bootloader may forward
          NoCause,  \* no cause record
          Garbled   \* a cause record whose payload was lost

VARIABLES ready,    \* the container is established
          request,  \* an update request is pending
          count,    \* launch attempts since the last acknowledgement
          cause     \* the forwarded reset cause, or NoCause

vars == <<ready, request, count, cause>>

Init == ~ready /\ ~request /\ count = 0 /\ cause = NoCause

\* Records disappear, taken or lost.
Vanish == /\ ready' \in {ready, FALSE} /\ request' \in {request, FALSE}
          /\ count' \in {count, 0}
          /\ cause' \in {cause, NoCause} \cup
                         (IF cause = NoCause THEN {} ELSE {Garbled})

Establish == /\ ~ready /\ ready'
             /\ ~request' /\ count' = 0 /\ cause' = NoCause

SetRequest == ready /\ request' /\ UNCHANGED <<ready, count, cause>>

SetCount == ready /\ count' \in Nat /\ UNCHANGED <<ready, request, cause>>

PublishCause == /\ ready /\ cause = NoCause /\ cause' \in Causes
                /\ UNCHANGED <<ready, request, count>>

Next == Vanish \/ Establish \/ SetRequest \/ SetCount \/ PublishCause

Spec == Init /\ [][Next]_vars
=============================================================================
