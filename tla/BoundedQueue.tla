---------------------------- MODULE BoundedQueue ----------------------------
(***************************************************************************)
(* What a ring promises to its one producer and its one consumer: what is  *)
(* taken out is what was put in, whole, in order and once, and no more     *)
(* than Capacity items wait at a time.                                     *)
(***************************************************************************)
EXTENDS Naturals, Sequences

CONSTANTS Items,     \* what is queued
          Capacity   \* how many items the ring holds

VARIABLES queue,     \* the items that wait, oldest first
          taken      \* how the last item left: as it was at the first and at the
                     \* last moment the consumer looked at it

vars == <<queue, taken>>

Init == queue = <<>> /\ taken \in Items \X Items

Put(x) == /\ Len(queue) < Capacity
          /\ queue' = Append(queue, x)
          /\ UNCHANGED taken

Get == /\ queue # <<>>
       /\ taken' = <<Head(queue), Head(queue)>>
       /\ queue' = Tail(queue)

\* Both sides are stopped and what waits is dropped.
Clear == queue' = <<>> /\ UNCHANGED taken

Next == (\E x \in Items : Put(x)) \/ Get \/ Clear

Spec == Init /\ [][Next]_vars
=============================================================================
