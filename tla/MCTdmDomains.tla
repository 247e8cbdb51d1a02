---------------------------- MODULE MCTdmDomains ----------------------------
(* Three legs in two domains: the tables a board may commit, two of them wrong. *)
EXTENDS TdmDomains

Row(r, f) == [role |-> r, frame |-> f]
Table(a, b, c, d) == [stream |-> <<a, b, c>>, domain |-> d]

MCTables ==
    { \* co-clocked pair under our master, and a master of its own
      Table(Row("master", "pulse"), Row("slave", "pulse"), Row("master", "pulse"), <<0, 0, 1>>),
      \* everything clocked from outside
      Table(Row("slave", "pulse"), Row("slave", "pulse"), Row("slave", "fifty"), <<0, 0, 1>>),
      \* two masters that need CLC10: the second domain cannot start
      Table(Row("slave", "fifty"), Row("master", "fifty"), Row("master", "fifty"), <<0, 0, 1>>),
      \* one of them, with a follower in the other domain
      Table(Row("slave", "pulse"), Row("master", "fifty"), Row("slave", "fifty"), <<0, 1, 1>>),
      \* two masters in one domain; two framings in one domain
      Table(Row("master", "pulse"), Row("master", "pulse"), Row("slave", "pulse"), <<0, 0, 1>>),
      Table(Row("slave", "pulse"), Row("slave", "fifty"), Row("slave", "pulse"), <<0, 0, 1>>) }
=============================================================================
