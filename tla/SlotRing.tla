------------------------------ MODULE SlotRing ------------------------------
(***************************************************************************)
(* The index arithmetic of a ring of slots that keeps one slot free: the   *)
(* PWM core's block FIFO and the UART driver's receive ring both use it.   *)
(* `head' is the next slot to fill, `tail' the next slot to empty; both    *)
(* wrap, and head = tail means empty.                                      *)
(***************************************************************************)
EXTENDS Naturals, Sequences

\* The slot after slot i in a ring of n slots.
NextSlot(i, n) == IF i + 1 = n THEN 0 ELSE i + 1

\* How many slots are filled.
Level(head, tail, n) == IF head >= tail THEN head - tail ELSE head + n - tail

\* The slot that lies k places behind slot i.
SlotAt(i, k, n) == IF i + k < n THEN i + k ELSE i + k - n

\* What a ring holds, oldest first.
Contents(slots, head, tail, n) ==
    [k \in 1..Level(head, tail, n) |-> slots[SlotAt(tail, k - 1, n)]]
=============================================================================
