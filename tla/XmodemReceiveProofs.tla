------------------------- MODULE XmodemReceiveProofs -------------------------
(***************************************************************************)
(* What the XMODEM receiver keeps for every file, every line and every     *)
(* number of faults: the types, the error budget, and the order of the     *)
(* block numbers.  The numbers wrap, so on a line that holds anything      *)
(* their order is all that the receiver can promise; on a line that holds  *)
(* less than a turn of them the blocks themselves are in order.            *)
(***************************************************************************)
EXTENDS XmodemReceive, SequenceTheorems, FiniteSetTheorems, TLAPS

Follow(n) == (n + 1) % Wrap

\* The blocks the sink is given carry consecutive numbers from 1 on, modulo
\* Wrap, whatever is lost, repeated, damaged or late
\* (resident_de_boot_xmodem.c:167-186).
NumbersFollow ==
  /\ got # <<>> => Number(got[1]) = 1 % Wrap
  /\ \A i \in 1..Len(got) : i + 1 \in 1..Len(got) =>
       Number(got[i + 1]) = Follow(Number(got[i]))

\* The number the receiver waits for is the one behind the last block's.
ExpectsNext ==
  expected = IF got = <<>> THEN 1 % Wrap ELSE Follow(Number(got[Len(got)]))

\* As long as the call runs, its error budget holds.
BudgetHolds == Done \/ errors <= MaxErrors

Chars == {"C", "ACK", "NAK", "CAN"}

USE DEF receiver, sender

LEMMA WrittenType ==
  ASSUME LineOK, NEW c \in Chars
  PROVE  /\ Written(c) \in Seq(Chars) /\ Len(Written(c)) <= LineMax
<1>1. Append(back, c) \in Seq(Chars) /\ Len(Append(back, c)) = Len(back) + 1
  BY AppendProperties DEF LineOK, Chars
<1>2. Len(back) \in Nat
  BY DEF LineOK
<1>. QED BY <1>1, <1>2, NumbersAssumption DEF Written, LineOK, Chars

LEMMA TailType ==
  ASSUME LineOK, wire # <<>>
  PROVE  /\ Head(wire) \in Item
         /\ Tail(wire) \in Seq(Item) /\ Len(Tail(wire)) <= LineMax
<1>1. /\ Head(wire) \in Item /\ Tail(wire) \in Seq(Item)
      /\ Len(Tail(wire)) = Len(wire) - 1
  BY HeadTailProperties DEF LineOK
<1>. QED BY <1>1, NumbersAssumption DEF LineOK

LEMMA BackTailType ==
  ASSUME LineOK, back # <<>>
  PROVE  Tail(back) \in Seq(Chars) /\ Len(Tail(back)) <= LineMax
<1>1. Tail(back) \in Seq(Chars) /\ Len(Tail(back)) = Len(back) - 1
  BY HeadTailProperties DEF LineOK, Chars
<1>. QED BY <1>1, NumbersAssumption DEF LineOK

LEMMA ItemsType ==
  /\ \A k \in 1..Blocks : Block(k) \in Item
  /\ \A c \in {"eot", "can", "stray"} : Char(c) \in Item
BY DEF Item, Block, Char

\* Every step on the receiver's side gives a number in range.
LEMMA NumberType == ASSUME NEW n \in Nat PROVE n % Wrap \in 0..Wrap - 1
BY NumbersAssumption

\* The receiver's error branch keeps its types, and the budget.
LEMMA ErrorType ==
  ASSUME ReceiverOK, LineOK, BudgetHolds, pc = "header",
         NEW status \in Statuses,
         \/ Error(status, pc' = pc /\ back' = Written("NAK"))
         \/ Error(status, ToPurge)
  PROVE  /\ ReceiverOK' /\ BudgetHolds'
         /\ back' \in Seq(Chars) /\ Len(back') <= LineMax
         /\ UNCHANGED <<expected, got>>
<1>1. errors \in 0..MaxErrors
  BY DEF ReceiverOK, BudgetHolds, Done, Statuses
<1>2. errors' = errors + 1 /\ UNCHANGED <<tries, expected, started, got>>
  BY DEF Error
<1>3. /\ pc' \in {"header", "purge", status}
      /\ pc' = status \/ errors + 1 <= MaxErrors
      /\ back' \in {back, Written("NAK"), Written("CAN")}
  BY <1>1, NumbersAssumption DEF Error, ToPurge
<1>4. ReceiverOK'
  BY <1>1, <1>2, <1>3, NumbersAssumption DEF ReceiverOK, Statuses
<1>5. BudgetHolds'
  BY <1>1, <1>2, <1>3, NumbersAssumption DEF BudgetHolds, Done
<1>6. back' \in Seq(Chars) /\ Len(back') <= LineMax
  BY <1>3, WrittenType DEF LineOK, Chars
<1>. QED BY <1>2, <1>4, <1>5, <1>6

\* A good block: the one place where the sink is given something.
LEMMA TakeBlockStep ==
  ASSUME ReceiverOK, LineOK, BudgetHolds, NumbersFollow, ExpectsNext,
         pc = "header", NEW k \in 1..Blocks, NEW accepted \in BOOLEAN,
         TakeBlock(k, accepted)
  PROVE  /\ ReceiverOK' /\ BudgetHolds' /\ NumbersFollow' /\ ExpectsNext'
         /\ back' \in Seq(Chars) /\ Len(back') <= LineMax
<1>1. back' \in Seq(Chars) /\ Len(back') <= LineMax
  BY WrittenType DEF TakeBlock, Acknowledge, Chars
<1>2. BudgetHolds'
  BY NumbersAssumption DEF BudgetHolds, Done, TakeBlock, Statuses
<1>3. CASE UNCHANGED <<expected, got>>
  <2>1. NumbersFollow' /\ ExpectsNext'
    BY <1>3 DEF NumbersFollow, ExpectsNext
  <2>2. ReceiverOK'
    BY <1>3, NumbersAssumption DEF TakeBlock, ReceiverOK, Statuses
  <2>. QED BY <1>1, <1>2, <2>1, <2>2
<1>4. CASE /\ got' = Append(got, k) /\ Number(k) = expected
           /\ expected' = (expected + 1) % Wrap
           /\ started' = TRUE /\ errors' = 0 /\ UNCHANGED <<pc, tries>>
  <2>1. /\ got' \in Seq(1..Blocks) /\ got' # <<>> /\ Len(got') = Len(got) + 1
        /\ \A i \in 1..Len(got) : got'[i] = got[i]
        /\ got'[Len(got) + 1] = k
    BY <1>4, AppendProperties DEF ReceiverOK
  <2>2. Len(got) \in Nat /\ (got = <<>> <=> Len(got) = 0)
    BY DEF ReceiverOK
  <2>3. ReceiverOK'
    <3>1. expected' \in 0..Wrap - 1
      BY <1>4, NumberType DEF ReceiverOK
    <3>. QED BY <1>4, <2>1, <3>1, NumbersAssumption DEF ReceiverOK
  <2>4. ExpectsNext'
    BY <1>4, <2>1, <2>2 DEF ExpectsNext, Follow
  <2>5. Number(got'[1]) = 1 % Wrap
    <3>1. CASE got = <<>>
      BY <1>4, <2>1, <2>2, <3>1 DEF ExpectsNext
    <3>2. CASE got # <<>>
      BY <2>1, <2>2, <3>2 DEF NumbersFollow
    <3>. QED BY <3>1, <3>2
  <2>6. ASSUME NEW i \in 1..Len(got'), i + 1 \in 1..Len(got')
        PROVE  Number(got'[i + 1]) = Follow(Number(got'[i]))
    <3>1. i \in 1..Len(got) /\ got'[i] = got[i]
      BY <2>1, <2>2, <2>6
    <3>2. CASE i = Len(got)
      BY <1>4, <2>1, <2>2, <3>1, <3>2 DEF ExpectsNext
    <3>3. CASE i # Len(got)
      <4>1. i + 1 \in 1..Len(got)
        BY <2>1, <2>2, <3>1, <3>3
      <4>. QED BY <2>1, <3>1, <4>1 DEF NumbersFollow
    <3>. QED BY <3>2, <3>3
  <2>7. NumbersFollow'
    BY <2>5, <2>6 DEF NumbersFollow
  <2>. QED BY <1>1, <1>2, <2>3, <2>4, <2>7
<1>. QED BY <1>3, <1>4 DEF TakeBlock, IsExpected

\* Any other turn of the receive loop gives the sink nothing.
LEMMA TakeOtherStep ==
  ASSUME ReceiverOK, LineOK, BudgetHolds, pc = "header",
         NEW item \in Item,
         \/ Error("SYNC", ToPurge) \/ Error("TIMEOUT", ToPurge)
         \/ TakeHeadless(Number(item.index)) \/ TakeEot \/ TakeCan
  PROVE  /\ ReceiverOK' /\ BudgetHolds'
         /\ back' \in Seq(Chars) /\ Len(back') <= LineMax
         /\ UNCHANGED <<expected, got>>
<1>1. CASE \E s \in Statuses : Error(s, ToPurge)
  BY <1>1, ErrorType
<1>2. CASE TakeEot
  <2>1. back' \in Seq(Chars) /\ Len(back') <= LineMax
    BY <1>2, WrittenType DEF TakeEot, Acknowledge, Chars
  <2>. QED BY <1>2, <2>1 DEF TakeEot, ReceiverOK, BudgetHolds, Done, Statuses
<1>3. CASE TakeCan /\ ~Error("CANCELLED", ToPurge)
  <2>1. /\ pc' = "CANCELLED"
        /\ UNCHANGED <<tries, expected, errors, started, got, back>>
    BY <1>3 DEF TakeCan
  <2>. QED BY <2>1 DEF ReceiverOK, BudgetHolds, LineOK, Done, Statuses, Chars
<1>4. TakeHeadless(Number(item.index)) =>
        TakeEot \/ \E s \in Statuses : Error(s, ToPurge)
  BY DEF TakeHeadless, Statuses
<1>. QED BY <1>1, <1>2, <1>3, <1>4 DEF Statuses

Inv == TypeOK /\ BudgetHolds /\ NumbersFollow /\ ExpectsNext

LEMMA Bounds ==
  /\ 0 \in 0..Tries /\ 0 \in 0..MaxErrors + 1
  /\ 1 \in 1..Blocks + 1 /\ 0 \in 0..HostRetries /\ 0 \in 0..MaxFaults
<1>1. /\ Blocks \in Nat /\ Tries \in Nat /\ MaxErrors \in Nat
      /\ HostRetries \in Nat /\ MaxFaults \in Nat
  BY NumbersAssumption
<1>. QED BY <1>1

LEMMA InitInv == Init => Inv
<1>. SUFFICES ASSUME Init PROVE Inv
  OBVIOUS
<1>1. ReceiverOK
  <2>1. 1 % Wrap \in 0..Wrap - 1
    BY NumberType
  <2>2. pc = "handshake" /\ tries = 0 /\ expected = 1 % Wrap
        /\ errors = 0 /\ started = FALSE /\ got = <<>>
    BY DEF Init
  <2>3. <<>> \in Seq(1..Blocks)
    BY EmptySeq
  <2>. QED BY <2>1, <2>2, <2>3, Bounds DEF ReceiverOK
<1>2. LineOK
  <2>1. \A S : <<>> \in Seq(S) /\ Len(<<>>) = 0
    BY EmptySeq
  <2>2. 0 <= LineMax
    BY NumbersAssumption
  <2>. QED BY <2>1, <2>2 DEF Init, LineOK
<1>3. HostOK
  <2>1. orderly \in BOOLEAN
    BY Zenon DEF Init
  <2>2. sending \in 1..Blocks + 1 /\ retries \in 0..HostRetries
        /\ faults \in 0..MaxFaults /\ eotSent \in BOOLEAN
    <3>1. sending = 1 /\ retries = 0 /\ faults = 0 /\ eotSent = FALSE
      BY DEF Init
    <3>. QED BY <3>1, Bounds
  <2>. QED BY <2>1, <2>2 DEF Init, HostOK
<1>4. BudgetHolds /\ NumbersFollow /\ ExpectsNext
  BY NumbersAssumption DEF Init, BudgetHolds, NumbersFollow, ExpectsNext
<1>. QED BY <1>1, <1>2, <1>3, <1>4 DEF Inv, TypeOK

\* The receiver's steps leave the host alone and count no fault.
LEMMA HostKept ==
  ASSUME HostOK, UNCHANGED <<sender, faults>>, orderly' \in BOOLEAN
  PROVE  HostOK'
BY DEF HostOK

\* A step of the host or of the line leaves the receiver alone.
LEMMA ReceiverKept ==
  ASSUME Inv, UNCHANGED receiver
  PROVE  ReceiverOK' /\ BudgetHolds' /\ NumbersFollow' /\ ExpectsNext'
<1>1. ReceiverOK'
  BY DEF Inv, TypeOK, ReceiverOK
<1>2. BudgetHolds'
  BY DEF Inv, BudgetHolds, Done
<1>3. NumbersFollow' /\ ExpectsNext'
  BY DEF Inv, NumbersFollow, ExpectsNext
<1>. QED BY <1>1, <1>2, <1>3

\* Before the first block is heard no error was counted.
LEMMA ReceiverStep == Inv /\ Receiver => Inv'
<1>. SUFFICES ASSUME Inv, Receiver PROVE Inv'
  OBVIOUS
<1>. USE DEF Inv, TypeOK
<1>1. orderly' \in BOOLEAN
  BY Zenon DEF Receiver, HandshakeTry, HandshakeAnswered, HandshakeGivesUp,
     HeaderTimeout, PurgeOne, PurgeDone, Receive, Timely, HostOK
<1>2. HostOK'
  <2>1. UNCHANGED <<sender, faults>>
    BY DEF Receiver, HandshakeTry, HandshakeAnswered, HandshakeGivesUp,
       HeaderTimeout, PurgeOne, PurgeDone, Receive
  <2>. QED BY <1>1, <2>1, HostKept
<1>3. /\ \A c \in Chars : Written(c) \in Seq(Chars) /\ Len(Written(c)) <= LineMax
      /\ <<>> \in Seq(Item) /\ Len(<<>>) <= LineMax
  BY WrittenType, EmptySeq, NumbersAssumption
<1>4. CASE HandshakeTry
  <2>1. LineOK'
    BY <1>3, <1>4 DEF HandshakeTry, LineOK, Chars
  <2>2. ReceiverOK'
    BY <1>4, NumbersAssumption DEF HandshakeTry, ReceiverOK
  <2>3. BudgetHolds' /\ NumbersFollow' /\ ExpectsNext'
    BY <1>4 DEF HandshakeTry, BudgetHolds, NumbersFollow, ExpectsNext, Done
  <2>. QED BY <1>2, <2>1, <2>2, <2>3
<1>5. CASE HandshakeAnswered \/ HandshakeGivesUp
  <2>1. LineOK'
    BY <1>5 DEF HandshakeAnswered, HandshakeGivesUp, LineOK
  <2>2. ReceiverOK'
    BY <1>5 DEF HandshakeAnswered, HandshakeGivesUp, ReceiverOK, Statuses
  <2>3. BudgetHolds' /\ NumbersFollow' /\ ExpectsNext'
    BY <1>5 DEF HandshakeAnswered, HandshakeGivesUp, BudgetHolds,
       NumbersFollow, ExpectsNext, Done, Statuses
  <2>. QED BY <1>2, <2>1, <2>2, <2>3
<1>6. CASE HeaderTimeout
  <2>1. Error("TIMEOUT", pc' = pc /\ back' = Written("NAK")) /\ wire' = wire
        /\ pc = "header"
    BY <1>6 DEF HeaderTimeout
  <2>2. /\ ReceiverOK' /\ BudgetHolds' /\ UNCHANGED <<expected, got>>
        /\ back' \in Seq(Chars) /\ Len(back') <= LineMax
    BY <2>1, ErrorType DEF Statuses
  <2>3. LineOK' /\ NumbersFollow' /\ ExpectsNext'
    BY <2>1, <2>2 DEF LineOK, NumbersFollow, ExpectsNext, Chars
  <2>. QED BY <1>2, <2>2, <2>3
<1>7. CASE PurgeOne
  <2>1. LineOK'
    BY <1>7, TailType DEF PurgeOne, LineOK
  <2>. QED BY <1>2, <1>7, <2>1, ReceiverKept DEF PurgeOne
<1>8. CASE PurgeDone
  <2>1. LineOK'
    BY <1>3, <1>8 DEF PurgeDone, LineOK, Chars
  <2>2. ReceiverOK'
    BY <1>8 DEF PurgeDone, ReceiverOK
  <2>3. BudgetHolds' /\ NumbersFollow' /\ ExpectsNext'
    BY <1>8 DEF PurgeDone, BudgetHolds, NumbersFollow, ExpectsNext, Done,
       Statuses
  <2>. QED BY <1>2, <2>1, <2>2, <2>3
<1>9. ASSUME NEW accepted \in BOOLEAN, Receive(accepted) PROVE Inv'
  <2>. DEFINE item == Head(wire)
  <2>1. /\ pc = "header" /\ item \in Item
        /\ wire' \in Seq(Item) /\ Len(wire') <= LineMax
    BY <1>9, TailType DEF Receive
  <2>2. CASE item.kind = "block"
    <3>1. TakeBlock(item.index, accepted) /\ item.index \in 1..Blocks
      BY <1>9, <2>1, <2>2 DEF Receive, Item
    <3>2. /\ ReceiverOK' /\ BudgetHolds' /\ NumbersFollow' /\ ExpectsNext'
          /\ back' \in Seq(Chars) /\ Len(back') <= LineMax
      BY <2>1, <3>1, TakeBlockStep
    <3>. QED BY <1>2, <2>1, <3>2 DEF LineOK, Chars
  <2>3. CASE item.kind # "block"
    <3>1. \/ Error("SYNC", ToPurge) \/ Error("TIMEOUT", ToPurge)
          \/ TakeHeadless(Number(item.index)) \/ TakeEot \/ TakeCan
      BY <1>9, <2>1, <2>3 DEF Receive, Item
    <3>2. /\ ReceiverOK' /\ BudgetHolds' /\ UNCHANGED <<expected, got>>
          /\ back' \in Seq(Chars) /\ Len(back') <= LineMax
      BY <2>1, <3>1, TakeOtherStep
    <3>3. NumbersFollow' /\ ExpectsNext'
      BY <3>2 DEF NumbersFollow, ExpectsNext
    <3>. QED BY <1>2, <2>1, <3>2, <3>3 DEF LineOK, Chars
  <2>. QED BY <2>2, <2>3
<1>. QED BY <1>4, <1>5, <1>6, <1>7, <1>8, <1>9 DEF Receiver

\* What the host puts on the line is an item of its file.
LEMMA TransmitType ==
  ASSUME LineOK, HostOK, NEW k \in 1..Blocks + 1, Transmit(k)
  PROVE  /\ wire' \in Seq(Item) /\ Len(wire') <= LineMax
         /\ eotSent' \in BOOLEAN
<1>. DEFINE x == IF k > Blocks THEN Char("eot") ELSE Block(k)
<1>1. x \in Item
  BY ItemsType, NumbersAssumption
<1>2. wire' = Append(wire, x) /\ Len(wire) < LineMax
  BY DEF Transmit
<1>. HIDE DEF x
<1>3. Append(wire, x) \in Seq(Item) /\ Len(Append(wire, x)) = Len(wire) + 1
  BY <1>1, AppendProperties DEF LineOK
<1>4. wire' \in Seq(Item) /\ Len(wire') <= LineMax
  BY <1>2, <1>3, NumbersAssumption DEF LineOK
<1>5. eotSent' \in BOOLEAN
  BY Zenon DEF Transmit, HostOK
<1>. QED BY <1>4, <1>5

LEMMA HostStep == Inv /\ (Host \/ HostTimeout \/ HostCancels) => Inv'
<1>. SUFFICES ASSUME Inv, Host \/ HostTimeout \/ HostCancels PROVE Inv'
  OBVIOUS
<1>1. UNCHANGED receiver /\ faults' = faults
  BY DEF Host, HostHearsStart, HostHearsAck, HostHearsNak, HostHearsCancel,
     HostIgnores, HostTimeout, HostCancels
<1>2. ReceiverOK' /\ BudgetHolds' /\ NumbersFollow' /\ ExpectsNext'
  BY <1>1, ReceiverKept
<1>3. orderly' \in BOOLEAN
  BY Zenon DEF Host, HostHearsStart, HostHearsAck, HostHearsNak,
     HostHearsCancel, HostIgnores, HostTimeout, HostCancels, Timely, Inv,
     TypeOK, HostOK
<1>. USE DEF Inv, TypeOK
<1>4. CASE HostHearsStart
  <2>1. Transmit(1) /\ 1 \in 1..Blocks + 1 /\ back # <<>> /\ back' = Tail(back)
        /\ host' = "sending" /\ UNCHANGED <<sending, retries>>
    BY <1>4, NumbersAssumption DEF HostHearsStart
  <2>2. LineOK' /\ HostOK'
    BY <1>1, <1>3, <2>1, TransmitType, BackTailType DEF LineOK, HostOK, Chars
  <2>. QED BY <1>2, <2>2
<1>5. CASE HostHearsAck
  <2>1. back # <<>> /\ back' = Tail(back) /\ retries' = 0
    BY <1>5 DEF HostHearsAck
  <2>2. CASE sending > Blocks
    <3>1. host' = "finished" /\ UNCHANGED <<sending, wire, eotSent>>
      BY <1>5, <2>2 DEF HostHearsAck
    <3>. QED BY <1>1, <1>2, <1>3, <2>1, <3>1, BackTailType, NumbersAssumption
             DEF LineOK, HostOK, Chars
  <2>3. CASE ~(sending > Blocks)
    <3>1. /\ sending' = sending + 1 /\ Transmit(sending + 1) /\ host' = host
          /\ sending + 1 \in 1..Blocks + 1
      BY <1>5, <2>3, NumbersAssumption DEF HostHearsAck, HostOK
    <3>. QED BY <1>1, <1>2, <1>3, <2>1, <3>1, TransmitType, BackTailType,
             NumbersAssumption DEF LineOK, HostOK, Chars
  <2>. QED BY <2>2, <2>3
<1>6. CASE HostHearsNak
  <2>1. Transmit(sending) /\ sending \in 1..Blocks + 1 /\ back # <<>>
        /\ back' = Tail(back) /\ UNCHANGED <<host, sending, retries>>
    BY <1>6 DEF HostHearsNak, HostOK
  <2>2. LineOK' /\ HostOK'
    BY <1>1, <1>3, <2>1, TransmitType, BackTailType DEF LineOK, HostOK, Chars
  <2>. QED BY <1>2, <2>2
<1>7. CASE HostHearsCancel \/ HostIgnores
  <2>1. back # <<>> /\ back' = Tail(back) /\ host' \in {host, "failed"}
        /\ UNCHANGED <<wire, sending, retries, eotSent>>
    BY <1>7 DEF HostHearsCancel, HostIgnores
  <2>2. LineOK' /\ HostOK'
    BY <1>1, <1>3, <2>1, BackTailType DEF LineOK, HostOK, Chars
  <2>. QED BY <1>2, <2>2
<1>8. CASE HostTimeout
  <2>1. back' = back /\ sending' = sending
    BY <1>8 DEF HostTimeout
  <2>2. CASE retries < HostRetries
    <3>1. retries' = retries + 1 /\ Transmit(sending) /\ host' = host
          /\ sending \in 1..Blocks + 1
      BY <1>8, <2>2 DEF HostTimeout, HostOK
    <3>. QED BY <1>1, <1>2, <1>3, <2>1, <2>2, <3>1, TransmitType,
             NumbersAssumption DEF LineOK, HostOK
  <2>3. CASE ~(retries < HostRetries)
    <3>1. host' = "failed" /\ UNCHANGED <<retries, wire, eotSent>>
      BY <1>8, <2>3 DEF HostTimeout
    <3>. QED BY <1>1, <1>2, <1>3, <2>1, <3>1 DEF LineOK, HostOK
  <2>. QED BY <2>2, <2>3
<1>9. CASE HostCancels
  <2>. DEFINE two == <<Char("can"), Char("can")>>
  <2>1. two \in Seq(Item) /\ Len(two) = 2
    BY ItemsType
  <2>2. /\ wire' = wire \o two /\ Len(wire) + 2 <= LineMax /\ back' = back
        /\ host' = "failed" /\ UNCHANGED <<sending, retries, eotSent>>
    BY <1>9 DEF HostCancels
  <2>. HIDE DEF two
  <2>3. wire \o two \in Seq(Item) /\ Len(wire \o two) = Len(wire) + Len(two)
    <3>1. wire \in Seq(Item)
      BY DEF LineOK
    <3>. QED BY <2>1, <3>1, ConcatProperties
  <2>. QED BY <1>1, <1>2, <1>3, <2>1, <2>2, <2>3 DEF LineOK, HostOK
<1>. QED BY <1>4, <1>5, <1>6, <1>7, <1>8, <1>9 DEF Host

\* A sequence without one of its elements.
LEMMA WithoutAt ==
  ASSUME NEW S, NEW s \in Seq(S), NEW i \in 1..Len(s)
  PROVE  /\ Without(s, i) \in Seq(S) /\ Len(Without(s, i)) = Len(s) - 1
         /\ \A m \in 1..Len(Without(s, i)) :
              Without(s, i)[m] = IF m < i THEN s[m] ELSE s[m + 1]
<1>. DEFINE a == SubSeq(s, 1, i - 1)
            b == SubSeq(s, i + 1, Len(s))
<1>1. Len(s) \in Nat /\ \A k \in 1..Len(s) : s[k] \in S
  BY ElementOfSeq
<1>2. /\ a \in Seq(S) /\ Len(a) = i - 1
      /\ \A m \in 1..i - 1 : a[m] = s[m]
  <2>1. \A k \in 1..i - 1 : s[k] \in S
    BY <1>1
  <2>2. /\ a \in Seq(S)
        /\ Len(a) = IF 1 <= i - 1 THEN (i - 1) - 1 + 1 ELSE 0
        /\ \A m \in 1..(i - 1) - 1 + 1 : a[m] = s[1 + m - 1]
    BY <1>1, <2>1, SubSeqProperties
  <2>. HIDE DEF a
  <2>. QED BY <1>1, <2>2
<1>3. /\ b \in Seq(S) /\ Len(b) = Len(s) - i
      /\ \A m \in 1..Len(s) - i : b[m] = s[m + i]
  <2>1. \A k \in i + 1..Len(s) : s[k] \in S
    BY <1>1
  <2>2. /\ b \in Seq(S)
        /\ Len(b) = IF i + 1 <= Len(s) THEN Len(s) - (i + 1) + 1 ELSE 0
        /\ \A m \in 1..Len(s) - (i + 1) + 1 : b[m] = s[(i + 1) + m - 1]
    BY <1>1, <2>1, SubSeqProperties
  <2>. HIDE DEF b
  <2>. QED BY <1>1, <2>2
<1>4. Without(s, i) = a \o b
  BY DEF Without
<1>. HIDE DEF a, b
<1>5. /\ a \o b \in Seq(S) /\ Len(a \o b) = Len(a) + Len(b)
      /\ \A m \in 1..Len(a) + Len(b) :
           (a \o b)[m] = IF m <= Len(a) THEN a[m] ELSE b[m - Len(a)]
  BY <1>2, <1>3, ConcatProperties
<1>6. Len(a \o b) = Len(s) - 1
  BY <1>1, <1>2, <1>3, <1>5
<1>7. ASSUME NEW m \in 1..Len(s) - 1
      PROVE  (a \o b)[m] = IF m < i THEN s[m] ELSE s[m + 1]
  <2>1. (a \o b)[m] = IF m <= i - 1 THEN a[m] ELSE b[m - (i - 1)]
    BY <1>1, <1>2, <1>3, <1>5
  <2>2. CASE m < i
    BY <1>1, <1>2, <2>1, <2>2
  <2>3. CASE ~(m < i)
    <3>1. m - (i - 1) \in 1..Len(s) - i /\ (m - (i - 1)) + i = m + 1
      BY <1>1, <2>3
    <3>2. (a \o b)[m] = b[m - (i - 1)]
      BY <2>1, <2>3
    <3>3. b[m - (i - 1)] = s[(m - (i - 1)) + i]
      BY <1>3, <3>1
    <3>. QED BY <2>3, <3>1, <3>2, <3>3
  <2>. QED BY <2>2, <2>3
<1>. QED BY <1>4, <1>5, <1>6, <1>7

LEMMA LineStep == Inv /\ LineFault => Inv'
<1>. SUFFICES ASSUME Inv, LineFault PROVE Inv'
  OBVIOUS
<1>. USE DEF Inv, TypeOK
<1>1. UNCHANGED <<receiver, sender>> /\ faults' = faults + 1 /\ faults < MaxFaults
  BY DEF LineFault
<1>2. ReceiverOK' /\ BudgetHolds' /\ NumbersFollow' /\ ExpectsNext'
  BY <1>1, ReceiverKept
<1>3. orderly' \in BOOLEAN
  BY Zenon DEF LineFault, Timely, HostOK
<1>4. HostOK'
  BY <1>1, <1>3, NumbersAssumption DEF HostOK
<1>5. ASSUME NEW i \in 1..Len(wire), wire' = Without(wire, i), back' = back
      PROVE  LineOK'
  BY <1>5, WithoutAt, NumbersAssumption DEF LineOK
<1>6. ASSUME NEW i \in 1..Len(wire), NEW x \in Harm(wire[i]),
             wire' = [wire EXCEPT ![i] = x], back' = back
      PROVE  LineOK'
  <2>1. wire[i] \in Item
    BY ElementOfSeq DEF LineOK
  <2>2. x \in Item
    BY <2>1, ItemsType DEF Harm, Item
  <2>. QED BY <1>6, <2>2, ExceptSeq DEF LineOK
<1>7. ASSUME NEW i \in 1..Len(back), back' = Without(back, i), wire' = wire
      PROVE  LineOK'
  BY <1>7, WithoutAt, NumbersAssumption DEF LineOK
<1>8. ASSUME Len(wire) < LineMax, wire' = Append(wire, Char("stray")),
             back' = back
      PROVE  LineOK'
  <2>1. Char("stray") \in Item
    BY ItemsType
  <2>2. /\ Append(wire, Char("stray")) \in Seq(Item)
        /\ Len(Append(wire, Char("stray"))) = Len(wire) + 1
    BY <2>1, AppendProperties DEF LineOK
  <2>. QED BY <1>8, <2>2, NumbersAssumption DEF LineOK
<1>9. LineOK'
  BY <1>5, <1>6, <1>7, <1>8 DEF LineFault
<1>. QED BY <1>2, <1>4, <1>9

LEMMA Invariant == Spec => []Inv
<1>1. Inv /\ [Next]_vars => Inv'
  <2>. SUFFICES ASSUME Inv, [Next]_vars PROVE Inv'
    OBVIOUS
  <2>1. CASE UNCHANGED vars
    BY <2>1 DEF vars, Inv, TypeOK, ReceiverOK, LineOK, HostOK, BudgetHolds,
       NumbersFollow, ExpectsNext, Done
  <2>. QED BY <2>1, ReceiverStep, HostStep, LineStep DEF Next
<1>. QED BY InitInv, <1>1, PTL DEF Spec

\* Every variable keeps its type, for every file, budget and line; the count
\* of errors never goes behind the one that ends the call
\* (resident_de_boot_xmodem.c:87-186).
THEOREM TypeCorrect == Spec => []TypeOK
<1>1. Inv => TypeOK
  BY DEF Inv
<1>. QED BY Invariant, <1>1, PTL

\* The sink is given blocks with consecutive numbers, whatever the line and
\* the host do (resident_de_boot_xmodem.c:167-186).
THEOREM SinkInSequence == Spec => []NumbersFollow
<1>1. Inv => NumbersFollow
  BY DEF Inv
<1>. QED BY Invariant, <1>1, PTL

\* A call that goes on has counted no more than XM_MAX_ERRORS errors
\* (resident_de_boot_xmodem.c:42-47 and the error branches).
THEOREM BudgetKept == Spec => []BudgetHolds
<1>1. Inv => BudgetHolds
  BY DEF Inv
<1>. QED BY Invariant, <1>1, PTL

(***************************************************************************)
(* The order of the blocks, on a line whose two directions together hold   *)
(* less than a turn of the block numbers: 2 * LineMax + 1 < Wrap.          *)
(*                                                                         *)
(* The operators below are about a line w, of which the receiver has       *)
(* accepted e blocks, and a host at block s.                               *)
(***************************************************************************)
IsBlock(item) == item.kind = "block"

Travels(w, k) == \E i \in 1..Len(w) : w[i] = Block(k)

\* The line keeps the order in which the host sent its blocks, and no block
\* before the last accepted one is left on it.
Sorted(w, e, s) ==
  \A i \in 1..Len(w) : IsBlock(w[i]) =>
     /\ w[i].index \in e..s
     /\ \A m \in i + 1..Len(w) : IsBlock(w[m]) => w[i].index <= w[m].index

\* The receiver can get no further than to block j - 1.  The blocks up to
\* there are among the first p items of the line; j itself is either the
\* host's current block, or lost and never sent again.  The host moves on once
\* for each of the n ACKs that travel, and for each ACK the p items can cause.
Reach(w, e, s, n, j, p) ==
  /\ \A k \in e + 1..j - 1 : Travels(w, k)
  /\ \A i \in 1..Len(w) : IsBlock(w[i]) =>
       IF i <= p THEN w[i].index < j
       ELSE w[i].index >= j /\ (j < s => w[i].index > j)
  /\ (s - j) + n + p <= 2 * LineMax

Near(w, e, s, n) ==
  e = s \/ \E j \in e + 1..s, p \in 0..Len(w) : Reach(w, e, s, n, j, p)

\* The line w with one item taken out, or turned into something that is no
\* block, at i: sh is 1 or 0.
Thinned(w, v, i, sh) ==
  /\ Len(v) = Len(w) - sh
  /\ \A m \in 1..Len(v) : m < i => v[m] = w[m]
  /\ \A m \in 1..Len(v) : m >= i => v[m] = w[m + sh] \/ (sh = 0 /\ m = i)
  /\ sh = 0 => ~IsBlock(v[i])

\* The line w with items behind it that are no block, or the host's current one.
Extended(w, v, s) ==
  /\ Len(v) >= Len(w)
  /\ \A m \in 1..Len(w) : v[m] = w[m]
  /\ \A m \in Len(w) + 1..Len(v) : IsBlock(v[m]) => v[m].index = s

\* A number is its quotient times the divisor, and the remainder.
LEMMA Division ==
  ASSUME NEW a \in Nat
  PROVE  \E q \in Int, m \in 0..Wrap - 1 : a % Wrap = m /\ a = q * Wrap + m
<1>. DEFINE q == a \div Wrap
            m == a % Wrap
<1>1. Wrap \in Int /\ Wrap > 0
  BY NumbersAssumption
<1>2. q \in Int /\ m \in 0..Wrap - 1
  BY <1>1
<1>3. a = Wrap * q + m
  BY <1>1, Z3
<1>. HIDE DEF q
<1>4. a = q * Wrap + m
  BY <1>1, <1>2, <1>3
<1>. QED BY <1>2, <1>4

\* Two numbers less than Wrap apart that are equal modulo Wrap are equal.
LEMMA WrapOnce ==
  ASSUME NEW a \in Nat, NEW b \in Nat, a <= b, b < a + Wrap,
         Number(a) = Number(b)
  PROVE  a = b
<1>. PICK q \in Int, m \in 0..Wrap - 1 : a % Wrap = m /\ a = q * Wrap + m
  BY Division
<1>. PICK r \in Int, o \in 0..Wrap - 1 : b % Wrap = o /\ b = r * Wrap + o
  BY Division
<1>1. m = o /\ Wrap \in Int /\ Wrap > 0
  BY NumbersAssumption DEF Number
<1>2. b - a = (r - q) * Wrap
  BY <1>1
<1>3. r - q < 1
  <2>1. r - q >= 1 => (r - q) * Wrap >= Wrap
    BY <1>1
  <2>. QED BY <1>1, <1>2, <2>1
<1>4. r - q > -1
  <2>1. r - q <= -1 => (r - q) * Wrap <= -Wrap
    BY <1>1
  <2>. QED BY <1>1, <1>2, <2>1
<1>5. r - q = 0
  BY <1>1, <1>3, <1>4
<1>. QED BY <1>1, <1>2, <1>5

\* A remainder is found again when a multiple is added to it.
LEMMA NumberPlus ==
  ASSUME NEW c \in Int, NEW m \in 0..Wrap - 1
  PROVE  (c * Wrap + m) % Wrap = m
<1>1. \A p \in Nat \ {0} : m \in 0..p - 1 => (c * p + m) % p = m
  OBVIOUS
<1>. QED BY <1>1, NumbersAssumption

\* What is added after the remainder was taken counts modulo Wrap.
LEMMA Residue ==
  ASSUME NEW n \in Nat, NEW d \in Nat
  PROVE  ((n % Wrap) + d) % Wrap = (n + d) % Wrap
<1>. PICK q \in Int, l \in 0..Wrap - 1 : n % Wrap = l /\ n = q * Wrap + l
  BY Division
<1>1. l + d \in Nat
  BY NumbersAssumption
<1>. PICK t \in Int, m \in 0..Wrap - 1 :
            (l + d) % Wrap = m /\ l + d = t * Wrap + m
  BY <1>1, Division
<1>2. n + d = (q + t) * Wrap + m
  BY NumbersAssumption
<1>3. ((q + t) * Wrap + m) % Wrap = m
  BY NumberPlus
<1>. QED BY <1>2, <1>3

\* Different blocks are at different places.
LEMMA Pigeons ==
  ASSUME NEW w, NEW a \in Int, NEW b \in Int, NEW l \in Int, NEW h \in Int,
         \A k \in a..b : \E i \in l..h : w[i] = Block(k), l <= h + 1
  PROVE  b - a <= h - l
<1>. DEFINE f == [k \in a..b |-> CHOOSE i \in l..h : w[i] = Block(k)]
<1>1. \A k \in a..b : f[k] \in l..h /\ w[f[k]] = Block(k)
  OBVIOUS
<1>3. f \in [a..b -> l..h]
  BY <1>1
<1>. HIDE DEF f
<1>2. ASSUME NEW k \in a..b, NEW m \in a..b, f[k] = f[m] PROVE k = m
  <2>1. Block(k) = Block(m)
    BY <1>1, <1>2
  <2>2. Block(k).index = k /\ Block(m).index = m
    BY DEF Block
  <2>. QED BY <2>1, <2>2
<1>4. f \in Injection(a..b, l..h)
  BY <1>2, <1>3 DEF Injection, IsInjective
<1>5. IsFiniteSet(l..h) /\ Cardinality(l..h) = IF l > h THEN 0 ELSE h - l + 1
  BY FS_Interval
<1>6. Cardinality(a..b) = IF a > b THEN 0 ELSE b - a + 1
  BY FS_Interval
<1>7. Cardinality(a..b) <= Cardinality(l..h)
  BY <1>4, <1>5, FS_Injection
<1>. QED BY <1>5, <1>6, <1>7

(***************************************************************************)
(* The ACKs that travel back.                                              *)
(***************************************************************************)
Acking(b) == {i \in 1..Len(b) : b[i] = "ACK"}
Acks(b) == Cardinality(Acking(b))

LEMMA AcksType ==
  ASSUME NEW b \in Seq(Chars)
  PROVE  IsFiniteSet(Acking(b)) /\ Acks(b) \in Nat /\ Acks(b) <= Len(b)
<1>1. Len(b) \in Nat /\ Acking(b) \in SUBSET (1..Len(b))
  BY DEF Acking
<1>2. IsFiniteSet(1..Len(b)) /\ Cardinality(1..Len(b)) = Len(b)
  <2>. DEFINE n == Len(b)
  <2>1. n \in Int /\ n >= 0 /\ 1 \in Int
    BY <1>1
  <2>. HIDE DEF n
  <2>2. /\ IsFiniteSet(1..n)
        /\ Cardinality(1..n) = IF 1 > n THEN 0 ELSE n - 1 + 1
    BY <2>1, FS_Interval, Zenon
  <2>3. Cardinality(1..n) = n
    BY <2>1, <2>2
  <2>. QED BY <2>2, <2>3 DEF n
<1>3. IsFiniteSet(Acking(b)) /\ Cardinality(Acking(b)) <= Len(b)
  BY <1>1, <1>2, FS_Subset
<1>. QED BY <1>3, FS_CardinalityType DEF Acks

\* One more character is one more ACK at most, and only if it is one.
LEMMA AcksAppend ==
  ASSUME NEW b \in Seq(Chars), NEW c \in Chars
  PROVE  Acks(Append(b, c)) <= Acks(b) + IF c = "ACK" THEN 1 ELSE 0
<1>1. /\ Len(b) \in Nat /\ Len(Append(b, c)) = Len(b) + 1
      /\ \A i \in 1..Len(b) : Append(b, c)[i] = b[i]
      /\ Append(b, c)[Len(b) + 1] = c
  BY AppendProperties
<1>2. IsFiniteSet(Acking(b)) /\ Acks(b) \in Nat
  BY AcksType
<1>3. CASE c = "ACK"
  <2>1. Acking(Append(b, c)) = Acking(b) \cup {Len(b) + 1}
    BY <1>1, <1>3 DEF Acking
  <2>2. Cardinality(Acking(b) \cup {Len(b) + 1}) <= Cardinality(Acking(b)) + 1
    <3>1. Len(b) + 1 \notin Acking(b)
      BY <1>1 DEF Acking
    <3>2. Cardinality(Acking(b) \cup {Len(b) + 1}) = Cardinality(Acking(b)) + 1
      BY <1>2, <3>1, FS_AddElement, Zenon
    <3>. QED BY <1>2, <3>2 DEF Acks
  <2>. QED BY <1>3, <2>1, <2>2 DEF Acks
<1>4. CASE c # "ACK"
  <2>1. Acking(Append(b, c)) = Acking(b)
    BY <1>1, <1>4 DEF Acking
  <2>. QED BY <1>2, <1>4, <2>1 DEF Acks
<1>. QED BY <1>3, <1>4

\* One character less, at i: one ACK less if it was one.
LEMMA AcksDropped ==
  ASSUME NEW b \in Seq(Chars), NEW d \in Seq(Chars), NEW i \in 1..Len(b),
         Len(d) = Len(b) - 1,
         \A m \in 1..Len(d) : d[m] = IF m < i THEN b[m] ELSE b[m + 1]
  PROVE  Acks(d) <= Acks(b) - IF b[i] = "ACK" THEN 1 ELSE 0
<1>. DEFINE f == [m \in Acking(d) |-> IF m < i THEN m ELSE m + 1]
            T == Acking(b) \ {i}
<1>1. Len(b) \in Nat /\ Len(d) \in Nat
  OBVIOUS
<1>2. f \in [Acking(d) -> T]
  <2>1. ASSUME NEW m \in Acking(d) PROVE (IF m < i THEN m ELSE m + 1) \in T
    <3>1. m \in 1..Len(d) /\ d[m] = "ACK"
      BY DEF Acking
    <3>2. CASE m < i
      BY <1>1, <3>1, <3>2 DEF Acking
    <3>3. CASE ~(m < i)
      BY <1>1, <3>1, <3>3 DEF Acking
    <3>. QED BY <3>2, <3>3
  <2>. QED BY <2>1
<1>3. \A k \in Acking(d), m \in Acking(d) : f[k] = f[m] => k = m
  BY <1>1 DEF Acking
<1>. HIDE DEF f
<1>4. f \in Injection(Acking(d), T)
  BY <1>2, <1>3 DEF Injection, IsInjective
<1>5. IsFiniteSet(Acking(b)) /\ Acks(b) \in Nat
  BY AcksType
<1>6. /\ IsFiniteSet(T)
      /\ Cardinality(T) = IF i \in Acking(b) THEN Acks(b) - 1 ELSE Acks(b)
  BY <1>5, FS_RemoveElement DEF Acks
<1>7. i \in Acking(b) <=> b[i] = "ACK"
  BY <1>1 DEF Acking
<1>. HIDE DEF T
<1>8. Acks(d) <= Cardinality(T)
  BY <1>4, <1>6, FS_Injection DEF Acks
<1>9. CASE b[i] = "ACK"
  BY <1>5, <1>6, <1>7, <1>8, <1>9
<1>10. CASE b[i] # "ACK"
  BY <1>5, <1>6, <1>7, <1>8, <1>10
<1>. QED BY <1>9, <1>10

(***************************************************************************)
(* What happens to the line keeps its order, and the host within reach.    *)
(***************************************************************************)

\* The blocks the receiver can get to are among the first p items.
LEMMA Within ==
  ASSUME NEW w \in Seq(Item), NEW e \in Nat, NEW s \in Nat, NEW n \in Nat,
         NEW j \in Nat, NEW p \in Nat, Reach(w, e, s, n, j, p),
         NEW k \in e + 1..j - 1
  PROVE  \E i \in 1..p : i <= Len(w) /\ w[i] = Block(k)
<1>1. PICK i \in 1..Len(w) : w[i] = Block(k)
  BY DEF Reach, Travels
<1>2. IsBlock(w[i]) /\ w[i].index = k
  BY <1>1 DEF Block, IsBlock
<1>3. i <= p
  <2>1. i > p => w[i].index >= j
    BY <1>2 DEF Reach
  <2>2. k \in Int /\ k < j /\ i \in Int
    OBVIOUS
  <2>. QED BY <1>2, <2>1, <2>2
<1>4. i \in 1..p
  BY <1>3
<1>. QED BY <1>1, <1>4

\* And the blocks from a on are behind item l, if those before l are older.
LEMMA Crowded ==
  ASSUME NEW w \in Seq(Item), NEW e \in Nat, NEW s \in Nat, NEW n \in Nat,
         NEW j \in Nat, NEW p \in Nat, Reach(w, e, s, n, j, p),
         NEW a \in e + 1..j, NEW l \in 1..p + 1,
         \A i \in 1..Len(w) : i < l /\ IsBlock(w[i]) => w[i].index < a
  PROVE  j - a <= p - l + 1
<1>0. a \in Int /\ e + 1 <= a /\ l \in Int
  OBVIOUS
<1>1. ASSUME NEW k \in a..j - 1 PROVE \E i \in l..p : w[i] = Block(k)
  <2>0. k \in Int /\ a <= k /\ k <= j - 1
    BY <1>0
  <2>1. k \in e + 1..j - 1
    BY <1>0, <2>0
  <2>2. PICK i \in 1..p : i <= Len(w) /\ w[i] = Block(k)
    BY <2>1, Within
  <2>3. IsBlock(w[i]) /\ w[i].index = k
    BY <2>2 DEF IsBlock, Block
  <2>4. i \in 1..Len(w)
    BY <2>2
  <2>5. ~(i < l)
    <3>1. i < l => k < a
      BY <2>3, <2>4
    <3>. QED BY <1>0, <2>0, <3>1
  <2>6. i \in l..p
    BY <2>5
  <2>. QED BY <2>2, <2>6
<1>2. /\ a \in Int /\ j - 1 \in Int /\ l \in Int /\ p \in Int
      /\ l <= p + 1
  OBVIOUS
<1>3. (j - 1) - a <= p - l
  BY <1>1, <1>2, Pigeons
<1>. QED BY <1>2, <1>3

\* The host is less than a line and a block ahead of the receiver.
LEMMA Ahead ==
  ASSUME NEW w \in Seq(Item), NEW e \in Nat, NEW s \in Nat, NEW n \in Nat,
         Near(w, e, s, n)
  PROVE  s - e <= 2 * LineMax + 1
<1>1. CASE e = s
  BY <1>1, NumbersAssumption
<1>2. CASE \E j \in e + 1..s, p \in 0..Len(w) : Reach(w, e, s, n, j, p)
  <2>. PICK j \in e + 1..s, p \in 0..Len(w) : Reach(w, e, s, n, j, p)
    BY <1>2
  <2>1. j \in Nat /\ p \in Nat
    OBVIOUS
  <2>2. /\ e + 1 \in e + 1..j /\ 1 \in 1..p + 1
        /\ \A i \in 1..Len(w) : i < 1 /\ IsBlock(w[i]) => w[i].index < e + 1
    OBVIOUS
  <2>3. j - (e + 1) <= p - 1 + 1
    BY <2>1, <2>2, Crowded
  <2>4. (s - j) + n + p <= 2 * LineMax
    BY DEF Reach
  <2>. QED BY <2>1, <2>3, <2>4, NumbersAssumption
<1>. QED BY <1>1, <1>2 DEF Near

\* Fewer ACKs travel.
LEMMA FewerAcks ==
  ASSUME NEW w \in Seq(Item), NEW e \in Nat, NEW s \in Nat, NEW n \in Nat,
         NEW o \in Nat, o <= n, Near(w, e, s, n)
  PROVE  Near(w, e, s, o)
<1>1. ASSUME NEW j \in e + 1..s, NEW p \in 0..Len(w), Reach(w, e, s, n, j, p)
      PROVE  Reach(w, e, s, o, j, p)
  BY <1>1, NumbersAssumption DEF Reach
<1>. QED BY <1>1 DEF Near

\* The line is flushed.
LEMMA Flushed ==
  ASSUME NEW w \in Seq(Item), NEW e \in Nat, NEW s \in Nat, NEW n \in Nat,
         e <= s, Near(w, e, s, n)
  PROVE  Sorted(<<>>, e, s) /\ Near(<<>>, e, s, n)
<1>1. Len(<<>>) = 0
  BY EmptySeq
<1>2. ASSUME NEW j \in e + 1..s, NEW p \in 0..Len(w), Reach(w, e, s, n, j, p)
      PROVE  Reach(<<>>, e, s, n, e + 1, 0)
  <2>1. j \in Nat /\ p \in Nat
    OBVIOUS
  <2>2. /\ e + 1 \in e + 1..j /\ 1 \in 1..p + 1
        /\ \A i \in 1..Len(w) : i < 1 /\ IsBlock(w[i]) => w[i].index < e + 1
    OBVIOUS
  <2>3. j - (e + 1) <= p - 1 + 1
    BY <1>2, <2>1, <2>2, Crowded
  <2>4. (s - j) + n + p <= 2 * LineMax
    BY <1>2 DEF Reach
  <2>5. (s - (e + 1)) + n + 0 <= 2 * LineMax
    BY <2>1, <2>3, <2>4, NumbersAssumption
  <2>. QED BY <1>1, <2>5 DEF Reach
<1>3. Near(<<>>, e, s, n)
  <2>1. CASE e = s
    BY <2>1 DEF Near
  <2>2. CASE e # s
    <3>1. Reach(<<>>, e, s, n, e + 1, 0)
      BY <1>2, <2>2 DEF Near
    <3>2. e + 1 \in e + 1..s /\ 0 \in 0..Len(<<>>)
      BY <1>1, <2>2
    <3>. QED BY <3>1, <3>2 DEF Near
  <2>. QED BY <2>1, <2>2
<1>. QED BY <1>1, <1>3 DEF Sorted

\* The blocks of the thinned line were blocks of the line.
LEMMA ThinnedFrom ==
  ASSUME NEW w \in Seq(Item), NEW v \in Seq(Item), NEW i \in 1..Len(w),
         NEW sh \in {0, 1}, Thinned(w, v, i, sh),
         NEW m \in 1..Len(v), IsBlock(v[m])
  PROVE  /\ m < i => m \in 1..Len(w) /\ v[m] = w[m]
         /\ m >= i => m + sh \in 1..Len(w) /\ m + sh # i /\ v[m] = w[m + sh]
<1>1. Len(w) \in Nat /\ Len(v) \in Nat /\ Len(v) = Len(w) - sh
  BY DEF Thinned
<1>2. m < i => v[m] = w[m]
  BY DEF Thinned
<1>3. m >= i => v[m] = w[m + sh] \/ (sh = 0 /\ m = i)
  BY DEF Thinned
<1>4. ~(sh = 0 /\ m = i)
  BY DEF Thinned
<1>5. CASE m < i
  <2>1. m \in 1..Len(w) /\ ~(m >= i)
    BY <1>1, <1>5
  <2>. QED BY <1>2, <1>5, <2>1
<1>6. CASE m >= i
  <2>1. m + sh \in 1..Len(w) /\ m + sh # i /\ ~(m < i)
    BY <1>1, <1>4, <1>6
  <2>. QED BY <1>3, <1>4, <1>6, <2>1
<1>7. m \in Int /\ i \in Int
  OBVIOUS
<1>. QED BY <1>5, <1>6, <1>7

\* Every other item of the line is still there.
LEMMA ThinnedTo ==
  ASSUME NEW w \in Seq(Item), NEW v \in Seq(Item), NEW i \in 1..Len(w),
         NEW sh \in {0, 1}, Thinned(w, v, i, sh), NEW m \in 1..Len(w), m # i
  PROVE  /\ m < i => m \in 1..Len(v) /\ v[m] = w[m]
         /\ m > i => m - sh \in 1..Len(v) /\ v[m - sh] = w[m]
<1>1. Len(w) \in Nat /\ Len(v) \in Nat /\ Len(v) = Len(w) - sh
  BY DEF Thinned
<1>2. CASE m < i
  <2>1. m \in 1..Len(v)
    BY <1>1, <1>2
  <2>. QED BY <1>2, <2>1 DEF Thinned
<1>3. CASE m > i
  <2>1. m - sh \in 1..Len(v) /\ m - sh >= i /\ ~(sh = 0 /\ m - sh = i)
        /\ (m - sh) + sh = m
    BY <1>1, <1>3
  <2>. QED BY <1>3, <2>1 DEF Thinned
<1>. QED BY <1>2, <1>3

LEMMA ThinnedSorted ==
  ASSUME NEW w \in Seq(Item), NEW v \in Seq(Item), NEW i \in 1..Len(w),
         NEW sh \in {0, 1}, Thinned(w, v, i, sh),
         NEW e \in Nat, NEW s \in Nat, Sorted(w, e, s)
  PROVE  Sorted(v, e, s)
<1>. SUFFICES ASSUME NEW k \in 1..Len(v), IsBlock(v[k])
              PROVE  /\ v[k].index \in e..s
                     /\ \A m \in k + 1..Len(v) : IsBlock(v[m]) =>
                          v[k].index <= v[m].index
  BY DEF Sorted
<1>. DEFINE g(m) == IF m < i THEN m ELSE m + sh
<1>1. Len(w) \in Nat /\ Len(v) \in Nat
  OBVIOUS
<1>2. ASSUME NEW m \in 1..Len(v), IsBlock(v[m])
      PROVE  g(m) \in 1..Len(w) /\ v[m] = w[g(m)]
  BY <1>2, ThinnedFrom
<1>3. g(k) \in 1..Len(w) /\ v[k] = w[g(k)]
  BY <1>2
<1>4. v[k].index \in e..s
  BY <1>3 DEF Sorted
<1>5. ASSUME NEW m \in k + 1..Len(v), IsBlock(v[m])
      PROVE  v[k].index <= v[m].index
  <2>1. m \in 1..Len(v) /\ g(k) < g(m)
    BY <1>1
  <2>2. g(m) \in 1..Len(w) /\ v[m] = w[g(m)]
    BY <1>2, <1>5, <2>1
  <2>3. g(k) \in Int /\ g(m) \in Int
    OBVIOUS
  <2>. HIDE DEF g
  <2>4. g(m) \in g(k) + 1..Len(w)
    <3>1. \A x, y \in Int : x < y /\ y <= Len(w) => y \in x + 1..Len(w)
      BY <1>1
    <3>2. g(m) <= Len(w)
      BY <1>1, <2>2, <2>3
    <3>. QED BY <2>1, <2>3, <3>1, <3>2
  <2>. QED BY <1>3, <1>5, <2>2, <2>4 DEF Sorted
<1>. QED BY <1>4, <1>5

\* An item that is not at the gap and, moved up, not before it lies behind it.
LEMMA PastGap ==
  ASSUME NEW l \in Int, NEW i \in Int, NEW sh \in Nat, l >= i, l + sh # i
  PROVE  i < l + sh /\ ~(l <= i - 1)
  OBVIOUS

\* A line that loses an item, or has it damaged: if it was the only copy of a
\* block the receiver could get to, that block is the new end of its reach.
LEMMA ThinnedNear ==
  ASSUME NEW w \in Seq(Item), NEW v \in Seq(Item), NEW i \in 1..Len(w),
         NEW sh \in {0, 1}, Thinned(w, v, i, sh),
         NEW e \in Nat, NEW s \in Nat, NEW n \in Nat,
         Sorted(w, e, s), Near(w, e, s, n)
  PROVE  Near(v, e, s, n)
<1>. SUFFICES ASSUME NEW j \in e + 1..s, NEW p \in 0..Len(w),
                     Reach(w, e, s, n, j, p)
              PROVE  \E k \in e + 1..s, q \in 0..Len(v) : Reach(v, e, s, n, k, q)
  BY DEF Near
<1>1. /\ Len(w) \in Nat /\ Len(v) \in Nat /\ Len(v) = Len(w) - sh /\ sh \in Int
      /\ j \in Nat /\ p \in Nat /\ j <= s /\ e + 1 <= j /\ p <= Len(w)
      /\ i \in Int /\ 1 <= i /\ i <= Len(w)
  BY Z3 DEF Thinned
<1>2. (s - j) + n + p <= 2 * LineMax
  BY DEF Reach
<1>3. ASSUME NEW k \in Nat, NEW m \in 1..Len(w), m # i, w[m] = Block(k)
      PROVE  Travels(v, k)
  <2>1. \E l \in 1..Len(v) : v[l] = w[m]
    <3>1. CASE m < i
      <4>1. m \in 1..Len(v) /\ v[m] = w[m]
        BY <1>3, <3>1, ThinnedTo
      <4>. QED BY <4>1
    <3>2. CASE m > i
      <4>1. m - sh \in 1..Len(v) /\ v[m - sh] = w[m]
        BY <1>3, <3>2, ThinnedTo
      <4>. QED BY <4>1
    <3>3. m < i \/ m > i
      BY <1>1, <1>3
    <3>. QED BY <3>1, <3>2, <3>3
  <2>. QED BY <1>3, <2>1 DEF Travels
<1>4. ASSUME NEW m \in 1..Len(w), IsBlock(w[m])
      PROVE  w[m] = Block(w[m].index) /\ w[m].index \in Nat
  BY <1>4, ElementOfSeq, NumbersAssumption DEF IsBlock, Block, Item
<1>7. ASSUME NEW k \in e + 1..j - 1
      PROVE  \E m \in 1..p : m <= Len(w) /\ w[m] = Block(k)
  <2>1. PICK m \in 1..Len(w) : w[m] = Block(k)
    BY DEF Reach, Travels
  <2>2. IsBlock(w[m]) /\ w[m].index = k
    BY <2>1 DEF Block, IsBlock
  <2>3. m > p => w[m].index >= j
    BY <1>1, <2>2, Z3T(30) DEF Reach
  <2>4. m \in 1..p
    BY <1>1, <2>2, <2>3, Z3T(30)
  <2>. QED BY <2>1, <2>4
\* The end stays where it is.
<1>5. CASE \A k \in e + 1..j - 1 : Travels(v, k)
  <2>. DEFINE q == IF i <= p THEN p - sh ELSE p
  <2>1. q \in 0..Len(v) /\ q <= p
    BY <1>1, Z3
  <2>2. ASSUME NEW m \in 1..Len(v), IsBlock(v[m])
        PROVE  IF m <= q THEN v[m].index < j
               ELSE v[m].index >= j /\ (j < s => v[m].index > j)
    <3>1. CASE m < i
      <4>1. m \in 1..Len(w) /\ v[m] = w[m]
        BY <2>2, <3>1, ThinnedFrom, Z3T(30)
      <4>2. m <= q <=> m <= p
        BY <1>1, <3>1, Z3
      <4>. QED BY <2>2, <4>1, <4>2 DEF Reach
    <3>2. CASE m >= i
      <4>1. m + sh \in 1..Len(w) /\ m + sh # i /\ v[m] = w[m + sh]
        BY <2>2, <3>2, ThinnedFrom, SMTT(30)
      <4>2. m <= q <=> m + sh <= p
        BY <1>1, <3>2, <4>1, Z3T(30)
      <4>. QED BY <2>2, <4>1, <4>2 DEF Reach
    <3>. QED BY <1>1, <3>1, <3>2
  <2>3. (s - j) + n + q <= 2 * LineMax
    BY <1>1, <1>2, <2>1, NumbersAssumption
  <2>. HIDE DEF q
  <2>4. Reach(v, e, s, n, j, q)
    BY <1>5, <2>2, <2>3 DEF Reach
  <2>. QED BY <2>1, <2>4
\* The end moves to the block that got lost.
<1>6. ASSUME NEW k \in e + 1..j - 1, ~Travels(v, k)
      PROVE  \E f \in e + 1..s, q \in 0..Len(v) : Reach(v, e, s, n, f, q)
  <2>1. k \in Nat /\ k < j /\ e + 1 <= k /\ k < s /\ k \in e + 1..s
    BY <1>1
  <2>2. ASSUME NEW m \in 1..Len(w), w[m] = Block(k) PROVE m = i
    BY <1>3, <1>6, <2>1, <2>2
  <2>3. PICK m \in 1..p : m <= Len(w) /\ w[m] = Block(k)
    BY <1>6, <1>7
  <2>4. i = m /\ i <= p /\ w[i] = Block(k) /\ IsBlock(w[i]) /\ w[i].index = k
    BY <1>1, <2>2, <2>3, Z3 DEF IsBlock, Block
  \* On either side of the lost block.
  <2>5. ASSUME NEW l \in 1..Len(w), l < i, IsBlock(w[l])
        PROVE  w[l].index < k
    <3>1. w[l].index <= k /\ w[l].index \in Nat
      BY <1>1, <1>4, <2>4, <2>5, Z3 DEF Sorted
    <3>2. w[l].index # k
      <4>1. l # i
        BY <1>1, <2>5
      <4>. QED BY <1>4, <2>2, <2>5, <4>1, Zenon
    <3>. QED BY <2>1, <3>1, <3>2, Z3T(30)
  <2>6. ASSUME NEW l \in 1..Len(w), i < l, IsBlock(w[l])
        PROVE  w[l].index > k
    <3>1. w[l].index >= k /\ w[l].index \in Nat
      <4>1. l \in i + 1..Len(w)
        BY <1>1, <2>6
      <4>2. w[i].index <= w[l].index
        BY <2>4, <2>6, <4>1 DEF Sorted
      <4>3. w[l].index \in Nat
        BY <1>4, <2>6
      <4>. QED BY <2>1, <2>4, <4>2, <4>3
    <3>2. w[l].index # k
      <4>1. l # i
        BY <1>1, <2>6
      <4>. QED BY <1>4, <2>2, <2>6, <4>1, Zenon
    <3>. QED BY <2>1, <3>1, <3>2, Z3T(30)
  <2>7. ASSUME NEW f \in e + 1..k - 1 PROVE Travels(v, f)
    <3>1. f \in e + 1..j - 1 /\ f \in Nat /\ f < k
      BY <1>1, <2>1
    <3>2. PICK l \in 1..p : l <= Len(w) /\ w[l] = Block(f)
      BY <1>7, <3>1
    <3>3. l \in 1..Len(w) /\ w[l].index = f
      BY <1>1, <3>2 DEF Block
    <3>4. l # i
      BY <2>1, <2>4, <3>1, <3>3, Z3
    <3>. QED BY <1>3, <3>1, <3>2, <3>3, <3>4
  <2>8. ASSUME NEW l \in 1..Len(v), IsBlock(v[l])
        PROVE  IF l <= i - 1 THEN v[l].index < k ELSE v[l].index > k
    <3>1. CASE l < i
      <4>1. l \in 1..Len(w) /\ v[l] = w[l]
        BY <2>8, <3>1, ThinnedFrom, SMTT(30)
      <4>. QED BY <1>1, <2>5, <2>8, <3>1, <4>1
    <3>2. CASE l >= i
      <4>1. l + sh \in 1..Len(w) /\ l + sh # i /\ v[l] = w[l + sh]
        BY <2>8, <3>2, ThinnedFrom, SMTT(30)
      <4>2. i < l + sh /\ ~(l <= i - 1)
        <5>1. l \in Int /\ i \in Int /\ sh \in Nat
          BY <1>1
        <5>. QED BY <3>2, <4>1, <5>1, PastGap
      <4>. QED BY <2>6, <2>8, <4>1, <4>2
    <3>. QED BY <1>1, <3>1, <3>2, Z3
  <2>9. j - k <= p - i + 1
    <3>1. k \in e + 1..j /\ i \in 1..p + 1
      BY <1>1, <2>1, <2>4
    <3>2. \A l \in 1..Len(w) : l < i /\ IsBlock(w[l]) => w[l].index < k
      BY <2>5
    <3>. QED BY <1>1, <3>1, <3>2, Crowded
  <2>10. (s - k) + n + (i - 1) <= 2 * LineMax
    BY <1>1, <1>2, <2>1, <2>9, NumbersAssumption
  <2>11. i - 1 \in 0..Len(v)
    BY <1>1, Z3
  <2>12. ASSUME NEW l \in 1..Len(v), IsBlock(v[l])
         PROVE  IF l <= i - 1 THEN v[l].index < k
                ELSE v[l].index >= k /\ (k < s => v[l].index > k)
    <3>1. v[l].index \in Nat
      BY <2>12, ElementOfSeq, NumbersAssumption DEF IsBlock, Item
    <3>. QED BY <2>1, <2>8, <2>12, <3>1, Z3T(30)
  <2>13. Reach(v, e, s, n, k, i - 1)
    BY <2>7, <2>10, <2>12 DEF Reach
  <2>. QED BY <2>1, <2>11, <2>13
<1>. QED BY <1>5, <1>6

\* The items of a line, and the indices of its blocks.
LEMMA Indices ==
  ASSUME NEW w \in Seq(Item), NEW i \in 1..Len(w), IsBlock(w[i])
  PROVE  w[i] = Block(w[i].index) /\ w[i].index \in Nat
BY ElementOfSeq, NumbersAssumption DEF IsBlock, Block, Item

\* The host sends its current block again, or the line carries something else.
LEMMA ExtendedKeeps ==
  ASSUME NEW w \in Seq(Item), NEW v \in Seq(Item), NEW e \in Nat,
         NEW s \in Nat, NEW n \in Nat, e <= s, Extended(w, v, s),
         Sorted(w, e, s), Near(w, e, s, n)
  PROVE  Sorted(v, e, s) /\ Near(v, e, s, n)
<1>1. /\ Len(w) \in Nat /\ Len(v) \in Nat /\ Len(w) <= Len(v)
      /\ \A m \in 1..Len(w) : v[m] = w[m]
      /\ \A m \in Len(w) + 1..Len(v) : IsBlock(v[m]) => v[m].index = s
  BY DEF Extended
<1>2. Sorted(v, e, s)
  <2>1. ASSUME NEW i \in 1..Len(v), IsBlock(v[i])
        PROVE  v[i].index \in e..s
    <3>1. CASE i <= Len(w)
      <4>1. i \in 1..Len(w) /\ v[i] = w[i]
        BY <1>1, <3>1, Z3
      <4>. QED BY <2>1, <4>1 DEF Sorted
    <3>2. CASE i > Len(w)
      BY <1>1, <2>1, <3>2, Z3
    <3>. QED BY <1>1, <3>1, <3>2, Z3
  <2>2. ASSUME NEW i \in 1..Len(v), IsBlock(v[i]),
               NEW m \in i + 1..Len(v), IsBlock(v[m])
        PROVE  v[i].index <= v[m].index
    <3>1. CASE m <= Len(w)
      <4>1. i \in 1..Len(w) /\ m \in i + 1..Len(w) /\ m \in 1..Len(w)
        BY <1>1, <3>1, Z3
      <4>2. v[i] = w[i] /\ v[m] = w[m]
        BY <1>1, <4>1
      <4>. QED BY <2>2, <4>1, <4>2 DEF Sorted
    <3>2. CASE m > Len(w)
      <4>1. v[m].index = s
        BY <1>1, <2>2, <3>2, Z3
      <4>2. v[i].index \in e..s
        BY <2>1, <2>2
      <4>. QED BY <4>1, <4>2
    <3>. QED BY <1>1, <3>1, <3>2, Z3
  <2>. QED BY <2>1, <2>2 DEF Sorted
<1>3. ASSUME NEW j \in e + 1..s, NEW p \in 0..Len(w), Reach(w, e, s, n, j, p)
      PROVE  Reach(v, e, s, n, j, p) /\ p \in 0..Len(v)
  <2>1. p \in 0..Len(v) /\ p <= Len(w) /\ j <= s /\ j \in Int
    BY <1>1, Z3
  <2>2. \A k \in e + 1..j - 1 : Travels(v, k)
    <3>1. \A k \in e + 1..j - 1 : Travels(w, k)
      BY <1>3 DEF Reach
    <3>2. 1..Len(w) \subseteq 1..Len(v)
      BY <1>1
    <3>. QED BY <1>1, <3>1, <3>2 DEF Travels
  <2>3. ASSUME NEW i \in 1..Len(v), IsBlock(v[i])
        PROVE  IF i <= p THEN v[i].index < j
               ELSE v[i].index >= j /\ (j < s => v[i].index > j)
    <3>1. CASE i <= Len(w)
      <4>1. i \in 1..Len(w) /\ v[i] = w[i]
        BY <1>1, <3>1, Z3
      <4>. QED BY <1>3, <2>3, <4>1 DEF Reach
    <3>2. CASE i > Len(w)
      <4>1. v[i].index = s /\ ~(i <= p)
        BY <1>1, <2>1, <2>3, <3>2, Z3
      <4>. QED BY <2>1, <4>1, Z3
    <3>. QED BY <1>1, <3>1, <3>2, Z3
  <2>. QED BY <1>3, <2>1, <2>2, <2>3 DEF Reach
<1>4. Near(v, e, s, n)
  BY <1>3 DEF Near
<1>. QED BY <1>2, <1>4

\* The receiver takes block f, the last one again or the next one, from the
\* front of the line, and answers with an ACK.
LEMMA Taken ==
  ASSUME NEW w \in Seq(Item), NEW v \in Seq(Item), NEW e \in Nat,
         NEW s \in Nat, NEW n \in Nat, NEW o \in Nat, o <= n + 1,
         NEW f \in Nat, f = e \/ f = e + 1, Len(w) >= 1, Len(v) = Len(w) - 1,
         \A m \in 1..Len(v) : v[m] = w[m + 1],
         w[1] = Block(f), Sorted(w, e, s), Near(w, e, s, n)
  PROVE  f <= s /\ Sorted(v, f, s) /\ Near(v, f, s, o)
<1>1. /\ Len(w) \in Nat /\ Len(v) \in Nat /\ 1 \in 1..Len(w) /\ f \in Nat
      /\ IsBlock(w[1]) /\ w[1].index = f
  BY Z3 DEF Block, IsBlock
<1>2. f <= s
  BY <1>1 DEF Sorted
<1>3. ASSUME NEW m \in 1..Len(v), IsBlock(v[m])
      PROVE  /\ m + 1 \in 1..Len(w) /\ v[m] = w[m + 1]
             /\ v[m].index \in f..s
  <2>1. m + 1 \in 1..Len(w) /\ m + 1 \in 1 + 1..Len(w) /\ v[m] = w[m + 1]
    BY <1>1, Z3
  <2>2. w[m + 1].index \in e..s /\ w[1].index <= w[m + 1].index
    BY <1>1, <1>3, <2>1 DEF Sorted
  <2>. QED BY <1>1, <2>1, <2>2, Z3
<1>4. Sorted(v, f, s)
  <2>1. ASSUME NEW i \in 1..Len(v), IsBlock(v[i]),
               NEW m \in i + 1..Len(v), IsBlock(v[m])
        PROVE  v[i].index <= v[m].index
    <3>1. m \in 1..Len(v) /\ m + 1 \in (i + 1) + 1..Len(w)
      BY <1>1, Z3
    <3>2. /\ i + 1 \in 1..Len(w) /\ v[i] = w[i + 1] /\ v[m] = w[m + 1]
      BY <1>3, <2>1, <3>1
    <3>. QED BY <2>1, <3>1, <3>2 DEF Sorted
  <2>. QED BY <1>3, <2>1 DEF Sorted
<1>5. ASSUME f < s PROVE Near(v, f, s, o)
  <2>1. e # s
    BY <1>2, <1>5, Z3
  <2>. PICK j \in e + 1..s, p \in 0..Len(w) : Reach(w, e, s, n, j, p)
    BY <2>1 DEF Near
  <2>2. IF 1 <= p THEN f < j ELSE f >= j /\ (j < s => f > j)
    BY <1>1 DEF Reach
  <2>3. f + 1 <= j /\ 1 <= p /\ j \in Nat /\ p \in Nat /\ j <= s
    BY <1>1, <1>5, <2>2, Z3
  <2>4. j \in f + 1..s /\ p - 1 \in 0..Len(v)
    BY <1>1, <2>3, Z3
  <2>5. ASSUME NEW k \in f + 1..j - 1 PROVE Travels(v, k)
    <3>1. k \in e + 1..j - 1 /\ k # f
      BY <1>1, <2>3, Z3
    <3>2. PICK i \in 1..Len(w) : w[i] = Block(k)
      BY <3>1 DEF Reach, Travels
    <3>3. i # 1
      BY <1>1, <3>1, <3>2 DEF Block
    <3>4. i - 1 \in 1..Len(v) /\ v[i - 1] = w[i]
      BY <1>1, <3>3, Z3
    <3>. QED BY <3>2, <3>4 DEF Travels
  <2>6. ASSUME NEW i \in 1..Len(v), IsBlock(v[i])
        PROVE  IF i <= p - 1 THEN v[i].index < j
               ELSE v[i].index >= j /\ (j < s => v[i].index > j)
    <3>1. i + 1 \in 1..Len(w) /\ v[i] = w[i + 1]
      BY <1>3, <2>6
    <3>2. IF i + 1 <= p THEN v[i].index < j
          ELSE v[i].index >= j /\ (j < s => v[i].index > j)
      BY <2>6, <3>1 DEF Reach
    <3>3. i + 1 <= p <=> i <= p - 1
      BY <2>3, Z3
    <3>. QED BY <3>2, <3>3
  <2>7. (s - j) + o + (p - 1) <= 2 * LineMax
    <3>1. (s - j) + n + p <= 2 * LineMax
      BY DEF Reach
    <3>. QED BY <2>3, <3>1, NumbersAssumption, Z3
  <2>8. Reach(v, f, s, o, j, p - 1)
    BY <2>5, <2>6, <2>7 DEF Reach
  <2>. QED BY <2>4, <2>8 DEF Near
<1>6. Near(v, f, s, o)
  <2>1. f = s => Near(v, f, s, o)
    BY DEF Near
  <2>. QED BY <1>1, <1>2, <1>5, <2>1, Z3
<1>. QED BY <1>2, <1>4, <1>6

\* The host hears an ACK and sends its next block.  A receiver that can get to
\* everything before the old block can get to the new one, if the old one
\* travels too; otherwise the old one is lost for good.
LEMMA Advanced ==
  ASSUME NEW w \in Seq(Item), NEW v \in Seq(Item), NEW e \in Nat,
         NEW s \in Nat, NEW n \in Nat, e <= s, Extended(w, v, s + 1),
         Sorted(w, e, s), Near(w, e, s, n),
         1 <= n, n <= LineMax, Len(w) <= LineMax
  PROVE  Sorted(v, e, s + 1) /\ Near(v, e, s + 1, n - 1)
<1>0. LineMax \in Nat
  BY NumbersAssumption
<1>1. /\ Len(w) \in Nat /\ Len(v) \in Nat /\ Len(w) <= Len(v)
      /\ \A m \in 1..Len(w) : v[m] = w[m]
      /\ \A m \in Len(w) + 1..Len(v) : IsBlock(v[m]) => v[m].index = s + 1
  BY DEF Extended
<1>3. ASSUME NEW k \in e + 1..s, Travels(w, k) PROVE Travels(v, k)
  <2>1. 1..Len(w) \subseteq 1..Len(v)
    BY <1>1
  <2>. QED BY <1>1, <1>3, <2>1 DEF Travels
\* The new items are the host's new block.
<1>4. ASSUME NEW j \in e + 1..s + 1, NEW p \in 0..Len(w),
             \A k \in e + 1..j - 1 : Travels(w, k),
             \A i \in 1..Len(w) : IsBlock(w[i]) =>
               IF i <= p THEN w[i].index < j
               ELSE w[i].index >= j /\ (j < s + 1 => w[i].index > j),
             (s + 1 - j) + (n - 1) + p <= 2 * LineMax
      PROVE  Near(v, e, s + 1, n - 1)
  <2>1. j \in Int /\ p \in Int /\ j <= s + 1 /\ p <= Len(w) /\ p \in 0..Len(v)
    BY <1>1, Z3
  <2>2. ASSUME NEW k \in e + 1..j - 1 PROVE Travels(v, k)
    <3>1. k \in e + 1..s
      BY <2>1, Z3
    <3>. QED BY <1>3, <1>4, <3>1
  <2>3. ASSUME NEW i \in 1..Len(v), IsBlock(v[i])
        PROVE  IF i <= p THEN v[i].index < j
               ELSE v[i].index >= j /\ (j < s + 1 => v[i].index > j)
    <3>1. CASE i <= Len(w)
      <4>1. i \in 1..Len(w) /\ v[i] = w[i]
        BY <1>1, <3>1, Z3
      <4>. QED BY <1>4, <2>3, <4>1
    <3>2. CASE i > Len(w)
      <4>1. v[i].index = s + 1 /\ ~(i <= p)
        BY <1>1, <2>1, <2>3, <3>2, Z3
      <4>. QED BY <2>1, <4>1, Z3
    <3>. QED BY <1>1, <3>1, <3>2, Z3
  <2>4. Reach(v, e, s + 1, n - 1, j, p)
    BY <1>4, <2>2, <2>3 DEF Reach
  <2>. QED BY <2>1, <2>4 DEF Near
\* Everything before the new block travels: all of the line is reach.
<1>5. ASSUME \A k \in e + 1..s : Travels(w, k)
      PROVE  Near(v, e, s + 1, n - 1)
  <2>1. s + 1 \in e + 1..s + 1 /\ Len(w) \in 0..Len(w)
    BY <1>1, Z3
  <2>2. ASSUME NEW i \in 1..Len(w), IsBlock(w[i])
        PROVE  i <= Len(w) /\ w[i].index < s + 1
    <3>1. w[i].index \in e..s
      BY <2>2 DEF Sorted
    <3>. QED BY <1>1, <3>1, Z3
  <2>3. (s + 1 - (s + 1)) + (n - 1) + Len(w) <= 2 * LineMax
    BY <1>0, <1>1, Z3
  <2>4. \A k \in e + 1..(s + 1) - 1 : Travels(w, k)
    BY <1>5
  <2>. QED BY <1>4, <2>1, <2>2, <2>3, <2>4
<1>6. ASSUME e = s PROVE Near(v, e, s + 1, n - 1)
  <2>1. \A k \in e + 1..s : Travels(w, k)
    BY <1>6, Z3
  <2>. QED BY <1>5, <2>1, Zenon
<1>7. ASSUME e # s PROVE Near(v, e, s + 1, n - 1)
  <2>. PICK j \in e + 1..s, p \in 0..Len(w) : Reach(w, e, s, n, j, p)
    BY <1>7 DEF Near
  <2>1. /\ \A k \in e + 1..j - 1 : Travels(w, k)
        /\ \A i \in 1..Len(w) : IsBlock(w[i]) =>
             IF i <= p THEN w[i].index < j
             ELSE w[i].index >= j /\ (j < s => w[i].index > j)
        /\ (s - j) + n + p <= 2 * LineMax
    BY DEF Reach
  <2>2. /\ j \in Int /\ p \in Int /\ e + 1 <= j /\ j <= s
        /\ j \in e + 1..s + 1
        /\ (s + 1 - j) + (n - 1) + p <= 2 * LineMax
    BY <1>0, <1>1, <2>1, Z3
  <2>3. CASE j = s /\ Travels(w, s)
    <3>1. ASSUME NEW k \in e + 1..s PROVE Travels(w, k)
      <4>1. k = s \/ k \in e + 1..j - 1
        BY <2>2, <2>3, Z3
      <4>. QED BY <2>1, <2>3, <4>1
    <3>2. \A k \in e + 1..s : Travels(w, k)
      BY <3>1
    <3>. QED BY <1>5, <3>2, Zenon
  <2>4. CASE ~(j = s /\ Travels(w, s))
    <3>1. ASSUME NEW i \in 1..Len(w), IsBlock(w[i])
          PROVE  IF i <= p THEN w[i].index < j
                 ELSE w[i].index >= j /\ (j < s + 1 => w[i].index > j)
      <4>1. CASE j < s
        BY <2>1, <2>2, <3>1, <4>1
      <4>2. CASE j = s
        <5>1. w[i].index # s
          BY <2>4, <3>1, <4>2, Indices DEF Travels
        <5>2. w[i].index \in Nat
          BY <3>1, Indices
        <5>3. IF i <= p THEN w[i].index < j ELSE w[i].index >= j
          BY <2>1, <3>1
        <5>. QED BY <2>2, <4>2, <5>1, <5>2, <5>3, Z3
      <4>. QED BY <2>2, <4>1, <4>2, Z3
    <3>2. \A i \in 1..Len(w) : IsBlock(w[i]) =>
            IF i <= p THEN w[i].index < j
            ELSE w[i].index >= j /\ (j < s + 1 => w[i].index > j)
      BY <3>1
    <3>. QED BY <1>4, <2>1, <2>2, <3>2, Zenon
  <2>. QED BY <2>3, <2>4
<1>8. Near(v, e, s + 1, n - 1)
  BY <1>6, <1>7
<1>9. Sorted(v, e, s + 1)
  <2>1. ASSUME NEW i \in 1..Len(v), IsBlock(v[i])
        PROVE  v[i].index \in e..s + 1
    <3>1. CASE i <= Len(w)
      <4>1. i \in 1..Len(w) /\ v[i] = w[i]
        BY <1>1, <3>1, Z3
      <4>2. v[i].index \in e..s
        BY <2>1, <4>1 DEF Sorted
      <4>. QED BY <4>2
    <3>2. CASE i > Len(w)
      BY <1>1, <2>1, <3>2, Z3
    <3>. QED BY <1>1, <3>1, <3>2, Z3
  <2>2. ASSUME NEW i \in 1..Len(v), IsBlock(v[i]),
               NEW m \in i + 1..Len(v), IsBlock(v[m])
        PROVE  v[i].index <= v[m].index
    <3>1. CASE m <= Len(w)
      <4>1. i \in 1..Len(w) /\ m \in i + 1..Len(w) /\ m \in 1..Len(w)
        BY <1>1, <3>1, Z3
      <4>2. v[i] = w[i] /\ v[m] = w[m]
        BY <1>1, <4>1
      <4>. QED BY <2>2, <4>1, <4>2 DEF Sorted
    <3>2. CASE m > Len(w)
      <4>1. v[m].index = s + 1
        <5>1. m \in Len(w) + 1..Len(v)
          BY <1>1, <3>2, Z3
        <5>. QED BY <1>1, <2>2, <5>1
      <4>2. v[i].index \in e..s + 1
        BY <2>1, <2>2
      <4>. QED BY <4>1, <4>2
    <3>. QED BY <1>1, <3>1, <3>2, Z3
  <2>. QED BY <2>1, <2>2 DEF Sorted
<1>. QED BY <1>8, <1>9

(***************************************************************************)
(* The invariant, and the steps that keep it.                              *)
(***************************************************************************)

\* While the call runs, the line is sorted and the host within reach.
Ordered ==
  /\ Len(got) <= sending
  /\ Sorted(wire, Len(got), sending)
  /\ Near(wire, Len(got), sending, Acks(back))
  /\ host = "ready" => sending = 1

InStep == InOrder /\ (Done \/ Ordered)

\* The types the operators above are used with.
LEMMA OrderTypes ==
  ASSUME Inv
  PROVE  /\ wire \in Seq(Item) /\ back \in Seq(Chars) /\ Len(got) \in Nat
         /\ sending \in Nat /\ Len(wire) <= LineMax
         /\ Acks(back) \in Nat /\ Acks(back) <= LineMax
<1>1. /\ wire \in Seq(Item) /\ back \in Seq(Chars)
      /\ Len(wire) <= LineMax /\ Len(back) <= LineMax
  BY DEF Inv, TypeOK, LineOK, Chars
<1>2. Len(got) \in Nat
  BY LenProperties DEF Inv, TypeOK, ReceiverOK
<1>3. sending \in Nat
  BY NumbersAssumption DEF Inv, TypeOK, HostOK
<1>4. Acks(back) \in Nat /\ Acks(back) <= Len(back)
  BY <1>1, AcksType
<1>5. Len(back) \in Nat /\ LineMax \in Nat
  BY <1>1, NumbersAssumption
<1>. QED BY <1>1, <1>2, <1>3, <1>4, <1>5

LEMMA WrittenAcks ==
  ASSUME Inv, NEW c \in Chars
  PROVE  Acks(Written(c)) <= Acks(back) + IF c = "ACK" THEN 1 ELSE 0
<1>1. Acks(back) \in Nat /\ back \in Seq(Chars)
  BY OrderTypes
<1>2. Acks(Append(back, c)) <= Acks(back) + IF c = "ACK" THEN 1 ELSE 0
  BY <1>1, AcksAppend
<1>3. Acks(back) <= Acks(back) + IF c = "ACK" THEN 1 ELSE 0
  BY <1>1
<1>. QED BY <1>2, <1>3 DEF Written

\* What a tail is to the line.
LEMMA TailThins ==
  ASSUME NEW w \in Seq(Item), w # <<>>
  PROVE  /\ Len(w) \in Nat /\ 1 \in 1..Len(w) /\ Head(w) = w[1]
         /\ Tail(w) \in Seq(Item) /\ Len(Tail(w)) = Len(w) - 1
         /\ \A m \in 1..Len(Tail(w)) : Tail(w)[m] = w[m + 1]
         /\ Thinned(w, Tail(w), 1, 1)
<1>1. /\ Tail(w) \in Seq(Item) /\ Len(Tail(w)) = Len(w) - 1
      /\ \A m \in 1..Len(Tail(w)) : Tail(w)[m] = w[m + 1]
  BY HeadTailProperties
<1>2. Len(w) \in Nat \ {0} /\ Head(w) = w[1]
  BY EmptySeq
<1>3. Thinned(w, Tail(w), 1, 1)
  BY <1>1, <1>2 DEF Thinned
<1>. QED BY <1>1, <1>2, <1>3

\* The host keeps its place, and no further ACK travels.
LEMMA KeptOrder ==
  ASSUME Inv, Inv', Ordered, UNCHANGED <<got, sending>>,
         host' = "ready" => host = "ready", Acks(back') <= Acks(back),
         \/ wire' = wire
         \/ wire' = <<>>
         \/ \E i \in 1..Len(wire), sh \in {0, 1} : Thinned(wire, wire', i, sh)
         \/ Extended(wire, wire', sending)
  PROVE  Ordered'
<1>. DEFINE e == Len(got)
            n == Acks(back)
<1>1. /\ wire \in Seq(Item) /\ wire' \in Seq(Item) /\ e \in Nat
      /\ sending \in Nat /\ n \in Nat /\ Acks(back') \in Nat
  <2>1. wire' \in Seq(Item) /\ back' \in Seq(Chars)
    BY DEF Inv, TypeOK, LineOK, Chars
  <2>2. Acks(back') \in Nat
    BY <2>1, AcksType
  <2>. QED BY <2>1, <2>2, OrderTypes
<1>2. e <= sending /\ Sorted(wire, e, sending) /\ Near(wire, e, sending, n)
  BY DEF Ordered
<1>. HIDE DEF e, n
<1>3. Sorted(wire', e, sending) /\ Near(wire', e, sending, n)
  <2>1. CASE wire' = wire
    BY <1>2, <2>1
  <2>2. CASE wire' = <<>>
    BY <1>1, <1>2, <2>2, Flushed
  <2>3. ASSUME NEW i \in 1..Len(wire), NEW sh \in {0, 1},
               Thinned(wire, wire', i, sh)
        PROVE  Sorted(wire', e, sending) /\ Near(wire', e, sending, n)
    BY <1>1, <1>2, <2>3, ThinnedSorted, ThinnedNear
  <2>4. CASE Extended(wire, wire', sending)
    BY <1>1, <1>2, <2>4, ExtendedKeeps
  <2>. QED BY <2>1, <2>2, <2>3, <2>4
<1>4. Near(wire', e, sending, Acks(back'))
  <2>1. Acks(back') <= n
    BY DEF n
  <2>. QED BY <1>1, <1>3, <2>1, FewerAcks
<1>. QED BY <1>2, <1>3, <1>4 DEF Ordered, e

\* The host hears a character: one ACK less, if it is one.
LEMMA HeardAcks ==
  ASSUME Inv, back # <<>>
  PROVE  Acks(Tail(back)) <= Acks(back) - IF Head(back) = "ACK" THEN 1 ELSE 0
<1>1. back \in Seq(Chars)
  BY OrderTypes
<1>2. /\ Tail(back) \in Seq(Chars) /\ Len(Tail(back)) = Len(back) - 1
      /\ \A m \in 1..Len(Tail(back)) : Tail(back)[m] = back[m + 1]
  BY <1>1, HeadTailProperties
<1>3. 1 \in 1..Len(back) /\ Head(back) = back[1]
  BY <1>1, EmptySeq
<1>4. \A m \in 1..Len(Tail(back)) :
        Tail(back)[m] = IF m < 1 THEN back[m] ELSE back[m + 1]
  BY <1>2
<1>. QED BY <1>1, <1>2, <1>3, <1>4, AcksDropped

\* The next block or the last one again: the numbers do not lie, because the
\* host is never a whole turn of them ahead.
LEMMA NumbersAgree ==
  ASSUME Inv, InOrder, Ordered, 2 * LineMax + 1 < Wrap,
         NEW k \in Nat, k \in Len(got)..sending
  PROVE  /\ IsRepeat(Number(k)) => k = Len(got)
         /\ IsExpected(Number(k)) => k = Len(got) + 1
<1>. DEFINE e == Len(got)
<1>1. e \in Nat /\ sending \in Nat /\ wire \in Seq(Item) /\ Acks(back) \in Nat
  BY OrderTypes
<1>2. sending - e <= 2 * LineMax + 1
  BY <1>1, Ahead DEF Ordered
<1>3. Wrap \in Nat /\ Wrap > 2 /\ LineMax \in Nat
  BY NumbersAssumption
<1>4. e <= k /\ k < e + Wrap
  BY <1>1, <1>2, <1>3
<1>5. expected = Number(e + 1)
  <2>1. CASE got = <<>>
    <3>1. e = 0
      BY <2>1, EmptySeq
    <3>2. expected = 1 % Wrap
      BY <2>1 DEF Inv, ExpectsNext
    <3>. QED BY <3>1, <3>2 DEF Number
  <2>2. CASE got # <<>>
    <3>1. got[e] = e
      <4>1. got \in Seq(1..Blocks)
        BY DEF Inv, TypeOK, ReceiverOK
      <4>2. e \in 1..e
        BY <2>2, <4>1, EmptySeq
      <4>. QED BY <4>2 DEF InOrder
    <3>2. expected = ((e % Wrap) + 1) % Wrap
      BY <2>2, <3>1 DEF Inv, ExpectsNext, Follow, Number
    <3>. HIDE DEF e
    <3>3. ((e % Wrap) + 1) % Wrap = (e + 1) % Wrap
      BY <1>1, Residue
    <3>. QED BY <3>2, <3>3 DEF Number
  <2>. QED BY <2>1, <2>2
<1>. HIDE DEF e
<1>6. ASSUME IsRepeat(Number(k)) PROVE k = e
  <2>1. Number(k) = (((e + 1) % Wrap) + (Wrap - 1)) % Wrap
    <3>1. Number(k) = (expected + Wrap - 1) % Wrap
      BY <1>6 DEF IsRepeat
    <3>2. expected \in Int
      BY <1>3 DEF Inv, TypeOK, ReceiverOK
    <3>3. expected + Wrap - 1 = expected + (Wrap - 1)
      BY <1>3, <3>2
    <3>. QED BY <1>5, <3>1, <3>3 DEF Number
  <2>2. (((e + 1) % Wrap) + (Wrap - 1)) % Wrap = ((e + 1) + (Wrap - 1)) % Wrap
    <3>1. e + 1 \in Nat /\ Wrap - 1 \in Nat
      BY <1>1, <1>3
    <3>. QED BY <3>1, Residue
  <2>3. (e + 1) + (Wrap - 1) = e + Wrap
    BY <1>1, <1>3
  <2>4. Number(k) = Number(e + Wrap)
    BY <2>1, <2>2, <2>3 DEF Number
  <2>5. e + Wrap \in Nat /\ k <= e + Wrap
    BY <1>1, <1>3, <1>4
  <2>6. Number(e) = Number(e + Wrap)
    <3>1. ((Wrap % Wrap) + e) % Wrap = (Wrap + e) % Wrap
      BY <1>1, <1>3, Residue
    <3>2. Wrap % Wrap = 0
      <4>1. (1 * Wrap + 0) % Wrap = 0
        <5>1. 0 \in 0..Wrap - 1
          BY <1>3
        <5>. QED BY <5>1, NumberPlus
      <4>2. 1 * Wrap + 0 = Wrap
        BY <1>3
      <4>. QED BY <4>1, <4>2
    <3>3. Wrap + e = e + Wrap /\ 0 + e = e
      BY <1>1, <1>3
    <3>. QED BY <3>1, <3>2, <3>3 DEF Number
  <2>. QED BY <1>1, <1>4, <2>4, <2>6, WrapOnce
<1>7. ASSUME IsExpected(Number(k)) PROVE k = e + 1
  <2>1. Number(k) = Number(e + 1)
    BY <1>5, <1>7 DEF IsExpected
  <2>2. CASE k = e
    <3>1. e + 1 \in Nat /\ e <= e + 1 /\ e + 1 < e + Wrap
      BY <1>1, <1>3
    <3>2. e = e + 1
      BY <1>1, <2>1, <2>2, <3>1, WrapOnce
    <3>. QED BY <1>1, <3>2
  <2>3. CASE k # e
    <3>1. e + 1 \in Nat /\ e + 1 <= k /\ k < (e + 1) + Wrap
      BY <1>1, <1>3, <1>4, <2>3
    <3>. QED BY <2>1, <3>1, WrapOnce
  <2>. QED BY <2>2, <2>3
<1>. QED BY <1>6, <1>7 DEF e

\* A good block, for a call that goes on.
LEMMA TakeBlockOrder ==
  ASSUME Inv, Inv', InOrder, Ordered, 2 * LineMax + 1 < Wrap,
         wire # <<>>, NEW k \in 1..Blocks, Head(wire) = Block(k),
         NEW accepted \in BOOLEAN, TakeBlock(k, accepted),
         wire' = Tail(wire), UNCHANGED sender
  PROVE  InStep'
<1>. DEFINE e == Len(got)
<1>1. /\ wire \in Seq(Item) /\ e \in Nat /\ sending \in Nat /\ k \in Nat
      /\ Acks(back) \in Nat /\ wire' \in Seq(Item) /\ Acks(back') \in Nat
  <2>1. wire' \in Seq(Item) /\ back' \in Seq(Chars)
    BY DEF Inv, TypeOK, LineOK, Chars
  <2>. QED BY <2>1, OrderTypes, AcksType, NumbersAssumption
<1>2. /\ Len(wire) >= 1 /\ 1 \in 1..Len(wire) /\ wire[1] = Block(k)
      /\ Len(wire') = Len(wire) - 1
      /\ \A m \in 1..Len(wire') : wire'[m] = wire[m + 1]
  BY <1>1, TailThins
<1>3. Sorted(wire, e, sending) /\ Near(wire, e, sending, Acks(back))
  BY DEF Ordered
<1>. DEFINE n == Acks(back)
<1>4. k \in e..sending
  BY <1>2, <1>3 DEF Sorted, IsBlock, Block
\* Both blocks that are acknowledged leave the host within reach.
<1>5. ASSUME k \in {e, e + 1}, back' = Written("ACK")
      PROVE  /\ k <= sending /\ Sorted(wire', k, sending)
             /\ Near(wire', k, sending, Acks(back'))
  <2>. DEFINE o == Acks(back')
  <2>1. o <= n + 1
    BY <1>5, WrittenAcks DEF Chars
  <2>2. /\ n \in Nat /\ o \in Nat /\ e \in Nat /\ sending \in Nat
        /\ Near(wire, e, sending, n) /\ Sorted(wire, e, sending)
        /\ (k = e \/ k = e + 1)
    BY <1>1, <1>3, <1>5
  <2>. HIDE DEF e, n, o
  <2>3. /\ k <= sending /\ Sorted(wire', k, sending)
        /\ Near(wire', k, sending, o)
    BY <1>1, <1>2, <2>1, <2>2, Taken
  <2>. QED BY <2>3 DEF o
<1>6. host' = "ready" => sending' = 1
  BY DEF Ordered
<1>7. CASE IsRepeat(Number(k))
  <2>1. k = e
    BY <1>1, <1>4, <1>7, NumbersAgree
  <2>2. back' = Written("ACK") /\ UNCHANGED got
    BY <1>7 DEF TakeBlock, Acknowledge
  <2>3. Ordered'
    BY <1>5, <1>6, <2>1, <2>2 DEF Ordered
  <2>. QED BY <2>2, <2>3 DEF InStep, InOrder
<1>8. CASE ~IsRepeat(Number(k)) /\ (~IsExpected(Number(k)) \/ ~accepted)
  <2>1. pc' \in Statuses /\ UNCHANGED got
    BY <1>8 DEF TakeBlock, Statuses
  <2>. QED BY <2>1 DEF InStep, InOrder, Done
<1>9. CASE ~IsRepeat(Number(k)) /\ IsExpected(Number(k)) /\ accepted
  <2>1. k = e + 1
    BY <1>1, <1>4, <1>9, NumbersAgree
  <2>2. back' = Written("ACK") /\ got' = Append(got, k)
    BY <1>9 DEF TakeBlock, Acknowledge
  <2>3. /\ got' \in Seq(1..Blocks) /\ Len(got') = e + 1
        /\ \A i \in 1..e : got'[i] = got[i]
        /\ got'[e + 1] = k
    BY <2>2, AppendProperties DEF Inv, TypeOK, ReceiverOK
  <2>4. Ordered'
    BY <1>1, <1>5, <1>6, <2>1, <2>2, <2>3 DEF Ordered
  <2>5. InOrder'
    <3>1. \A i \in 1..e : got[i] = i
      BY DEF InOrder
    <3>2. \A i \in 1..e + 1 : got'[i] = i
      BY <1>1, <2>1, <2>3, <3>1
    <3>3. got' = [i \in 1..Len(got') |-> got'[i]]
      BY <2>3
    <3>. QED BY <2>3, <3>2, <3>3 DEF InOrder
  <2>. QED BY <2>4, <2>5 DEF InStep
<1>. QED BY <1>7, <1>8, <1>9

\* Anything else the receive loop reads, or waits for in vain.
LEMMA OtherOrder ==
  ASSUME Inv, Inv', InOrder, Ordered, UNCHANGED sender,
         wire' = wire \/ (wire # <<>> /\ wire' = Tail(wire)),
         UNCHANGED got, Done' \/ Acks(back') <= Acks(back)
  PROVE  InStep'
<1>1. CASE Done'
  BY <1>1 DEF InStep, InOrder
<1>2. CASE Acks(back') <= Acks(back)
  <2>1. wire # <<>> /\ wire' = Tail(wire) =>
          \E i \in 1..Len(wire), sh \in {0, 1} : Thinned(wire, wire', i, sh)
    BY TailThins, OrderTypes
  <2>2. Ordered'
    BY <1>2, <2>1, KeptOrder
  <2>. QED BY <2>2 DEF InStep, InOrder
<1>. QED BY <1>1, <1>2

\* An error sends no ACK.
LEMMA ErrorAcks ==
  ASSUME Inv, NEW status \in Statuses,
         \/ Error(status, pc' = pc /\ back' = Written("NAK"))
         \/ Error(status, ToPurge)
  PROVE  UNCHANGED got /\ (Done' \/ Acks(back') <= Acks(back))
<1>1. Acks(back) \in Nat
  BY OrderTypes
<1>2. Acks(Written("NAK")) <= Acks(back)
  BY <1>1, WrittenAcks DEF Chars
<1>. QED BY <1>1, <1>2 DEF Error, ToPurge, Done

LEMMA ReceiverInStep ==
  ASSUME Inv, Inv', InStep, Receiver, 2 * LineMax + 1 < Wrap
  PROVE  InStep'
<1>1. pc \notin Statuses
  BY DEF Receiver, HandshakeTry, HandshakeAnswered, HandshakeGivesUp,
     HeaderTimeout, PurgeOne, PurgeDone, Receive, Statuses
<1>2. InOrder /\ Ordered /\ UNCHANGED sender
  BY <1>1 DEF InStep, Done, Receiver, HandshakeTry, HandshakeAnswered,
     HandshakeGivesUp, HeaderTimeout, PurgeOne, PurgeDone, Receive
<1>3. Acks(back) \in Nat
  BY OrderTypes
<1>4. Acks(Written("C")) <= Acks(back) /\ Acks(Written("NAK")) <= Acks(back)
  <2>1. Acks(Written("C")) <= Acks(back) + IF "C" = "ACK" THEN 1 ELSE 0
    BY WrittenAcks DEF Chars
  <2>2. Acks(Written("NAK")) <= Acks(back) + IF "NAK" = "ACK" THEN 1 ELSE 0
    BY WrittenAcks DEF Chars
  <2>. QED BY <1>3, <2>1, <2>2
<1>5. CASE HandshakeTry
  <2>1. wire' = <<>> /\ Acks(back') <= Acks(back) /\ UNCHANGED got
    BY <1>4, <1>5 DEF HandshakeTry
  <2>2. Ordered'
    BY <1>2, <2>1, KeptOrder
  <2>. QED BY <1>2, <2>1, <2>2 DEF InStep, InOrder
<1>6. CASE HandshakeAnswered \/ HandshakeGivesUp
  <2>1. got' = got /\ wire' = wire /\ back' = back
    BY <1>6 DEF HandshakeAnswered, HandshakeGivesUp
  <2>2. Acks(back') <= Acks(back)
    BY <1>3, <2>1
  <2>. QED BY <1>2, <2>1, <2>2, OtherOrder
<1>7. CASE HeaderTimeout
  <2>1. /\ Error("TIMEOUT", pc' = pc /\ back' = Written("NAK"))
        /\ wire' = wire
    BY <1>7 DEF HeaderTimeout
  <2>2. UNCHANGED got /\ (Done' \/ Acks(back') <= Acks(back))
    BY <2>1, ErrorAcks DEF Statuses
  <2>. QED BY <1>2, <2>1, <2>2, OtherOrder
<1>8. CASE PurgeOne
  <2>1. wire # <<>> /\ wire' = Tail(wire) /\ UNCHANGED <<got, back>>
    BY <1>8 DEF PurgeOne
  <2>2. Acks(back') <= Acks(back)
    BY <1>3, <2>1
  <2>. QED BY <1>2, <2>1, <2>2, OtherOrder
<1>9. CASE PurgeDone
  <2>1. Acks(back') <= Acks(back) /\ got' = got /\ wire' = wire
    BY <1>4, <1>9 DEF PurgeDone
  <2>. QED BY <1>2, <2>1, OtherOrder
<1>10. ASSUME NEW accepted \in BOOLEAN, Receive(accepted) PROVE InStep'
  <2>. DEFINE item == Head(wire)
  <2>1. wire # <<>> /\ wire' = Tail(wire) /\ item \in Item
    BY <1>10, TailType DEF Receive, Inv, TypeOK
  <2>2. CASE item.kind = "block"
    <3>1. TakeBlock(item.index, accepted) /\ item.index \in 1..Blocks
      BY <1>10, <2>1, <2>2 DEF Receive, Item
    <3>2. item = Block(item.index)
      BY <2>1, <2>2 DEF Item, Block
    <3>. QED BY <1>2, <2>1, <3>1, <3>2, TakeBlockOrder
  <2>3. CASE item.kind # "block"
    <3>1. \/ Error("SYNC", ToPurge) \/ Error("TIMEOUT", ToPurge)
          \/ TakeHeadless(Number(item.index)) \/ TakeEot \/ TakeCan
      BY <1>10, <2>1, <2>3 DEF Receive, Item
    <3>2. ASSUME NEW status \in Statuses, Error(status, ToPurge)
          PROVE  UNCHANGED got /\ (Done' \/ Acks(back') <= Acks(back))
      BY <3>2, ErrorAcks
    <3>3. TakeEot => UNCHANGED got /\ Done'
      BY DEF TakeEot, Done, Statuses
    <3>4. TakeCan => \/ Error("CANCELLED", ToPurge)
                     \/ UNCHANGED got /\ Done'
      BY DEF TakeCan, Done, Statuses
    <3>5. TakeHeadless(Number(item.index)) =>
            TakeEot \/ \E s \in Statuses : Error(s, ToPurge)
      BY DEF TakeHeadless, Statuses
    <3>6. UNCHANGED got /\ (Done' \/ Acks(back') <= Acks(back))
      BY <3>1, <3>2, <3>3, <3>4, <3>5 DEF Statuses
    <3>. QED BY <1>2, <2>1, <3>6, OtherOrder
  <2>. QED BY <2>2, <2>3
<1>. QED BY <1>5, <1>6, <1>7, <1>8, <1>9, <1>10 DEF Receiver

\* What the host transmits goes behind what is on the line.
LEMMA TransmitExtends ==
  ASSUME Inv, NEW k \in 1..Blocks + 1, Transmit(k)
  PROVE  Extended(wire, wire', k)
<1>. DEFINE x == IF k > Blocks THEN Char("eot") ELSE Block(k)
<1>1. x \in Item /\ wire \in Seq(Item)
  BY ItemsType, OrderTypes, NumbersAssumption
<1>2. IsBlock(x) => x.index = k
  BY DEF IsBlock, Char, Block
<1>3. wire' = Append(wire, x)
  BY DEF Transmit
<1>. HIDE DEF x
<1>4. /\ Len(wire') = Len(wire) + 1 /\ Len(wire) \in Nat
      /\ \A m \in 1..Len(wire) : wire'[m] = wire[m]
      /\ wire'[Len(wire) + 1] = x
  BY <1>1, <1>3, AppendProperties
<1>. QED BY <1>2, <1>4 DEF Extended

LEMMA HostInStep ==
  ASSUME Inv, Inv', InStep, Host \/ HostTimeout \/ HostCancels
  PROVE  InStep'
<1>1. got' = got /\ pc' = pc
  BY DEF Host, HostHearsStart, HostHearsAck, HostHearsNak, HostHearsCancel,
     HostIgnores, HostTimeout, HostCancels
<1>2. InOrder' /\ (Done => Done')
  BY <1>1 DEF InStep, InOrder, Done
<1>. SUFFICES ASSUME Ordered PROVE Ordered'
  BY <1>2 DEF InStep
<1>3. /\ Acks(back) \in Nat /\ sending \in Nat /\ wire \in Seq(Item)
      /\ Len(got) \in Nat /\ Len(wire) <= LineMax /\ Acks(back) <= LineMax
  BY OrderTypes
<1>4. ASSUME back # <<>>, back' = Tail(back) PROVE Acks(back') <= Acks(back)
  <2>1. Acks(back') <= Acks(back) - IF Head(back) = "ACK" THEN 1 ELSE 0
    BY <1>4, HeardAcks
  <2>2. back' \in Seq(Chars)
    BY DEF Inv, TypeOK, LineOK, Chars
  <2>3. Acks(back') \in Nat
    BY <2>2, AcksType
  <2>. QED BY <1>3, <2>1, <2>3
<1>5. CASE HostHearsStart
  <2>1. sending = 1 /\ sending' = sending /\ host' = "sending"
    BY <1>5 DEF HostHearsStart, Ordered
  <2>2. Transmit(1) /\ 1 \in 1..Blocks + 1
    BY <1>5, NumbersAssumption DEF HostHearsStart
  <2>3. Extended(wire, wire', sending)
    BY <2>1, <2>2, TransmitExtends
  <2>4. Acks(back') <= Acks(back)
    BY <1>4, <1>5 DEF HostHearsStart
  <2>. QED BY <1>1, <2>1, <2>3, <2>4, KeptOrder
<1>6. CASE HostHearsAck
  <2>1. host = "sending" /\ back # <<>> /\ Head(back) = "ACK"
        /\ back' = Tail(back)
    BY <1>6 DEF HostHearsAck
  <2>2. CASE sending > Blocks
    <3>1. host' = "finished" /\ sending' = sending /\ wire' = wire
      BY <1>6, <2>2 DEF HostHearsAck
    <3>2. Acks(back') <= Acks(back)
      BY <1>4, <2>1
    <3>. QED BY <1>1, <3>1, <3>2, KeptOrder
  <2>3. CASE ~(sending > Blocks)
    <3>1. /\ sending' = sending + 1 /\ Transmit(sending + 1) /\ host' = host
          /\ sending + 1 \in 1..Blocks + 1
      BY <1>3, <1>6, <2>3, NumbersAssumption DEF HostHearsAck, Inv, TypeOK, HostOK
    <3>. DEFINE e == Len(got)
                n == Acks(back)
                o == Acks(back')
    <3>2. Extended(wire, wire', sending + 1)
      BY <3>1, TransmitExtends
    <3>3. back' \in Seq(Chars) /\ wire' \in Seq(Item)
      BY DEF Inv, TypeOK, LineOK, Chars
    <3>4. o \in Nat /\ o <= n - 1 /\ n \in Nat /\ n <= LineMax /\ e \in Nat
      <4>1. o <= n - IF Head(back) = "ACK" THEN 1 ELSE 0
        BY <2>1, HeardAcks
      <4>2. o \in Nat
        BY <3>3, AcksType
      <4>. QED BY <1>3, <2>1, <4>1, <4>2
    <3>5. e <= sending /\ Sorted(wire, e, sending) /\ Near(wire, e, sending, n)
      BY DEF Ordered
    <3>. HIDE DEF e, n, o
    <3>6. 1 <= n
      BY <3>4
    <3>7. Sorted(wire', e, sending + 1) /\ Near(wire', e, sending + 1, n - 1)
      BY <1>3, <3>2, <3>3, <3>4, <3>5, <3>6, Advanced
    <3>8. Near(wire', e, sending + 1, o)
      <4>. DEFINE l == n - 1
                  s == sending + 1
      <4>1. l \in Nat /\ s \in Nat /\ o <= l
        BY <1>3, <3>4, <3>6
      <4>2. Near(wire', e, s, l)
        BY <3>7
      <4>. HIDE DEF l, s
      <4>3. Near(wire', e, s, o)
        BY <3>3, <3>4, <4>1, <4>2, FewerAcks
      <4>. QED BY <4>3 DEF s
    <3>9. e <= sending + 1
      BY <1>3, <3>4, <3>5
    <3>. QED BY <1>1, <2>1, <3>1, <3>7, <3>8, <3>9 DEF Ordered, e, o
  <2>. QED BY <2>2, <2>3
<1>7. CASE HostHearsNak
  <2>1. Transmit(sending) /\ sending' = sending /\ host' = host
        /\ back # <<>> /\ back' = Tail(back)
    BY <1>7 DEF HostHearsNak
  <2>2. Extended(wire, wire', sending)
    BY <2>1, TransmitExtends DEF Inv, TypeOK, HostOK
  <2>. QED BY <1>1, <1>4, <2>1, <2>2, KeptOrder
<1>8. CASE HostHearsCancel \/ HostIgnores
  <2>1. sending' = sending /\ host' \in {host, "failed"} /\ wire' = wire
        /\ back # <<>> /\ back' = Tail(back)
    BY <1>8 DEF HostHearsCancel, HostIgnores
  <2>. QED BY <1>1, <1>4, <2>1, KeptOrder
<1>9. CASE HostTimeout
  <2>1. back' = back /\ sending' = sending /\ Acks(back') <= Acks(back)
    BY <1>3, <1>9 DEF HostTimeout
  <2>2. host' \in {host, "failed"} /\ (wire' = wire \/ Transmit(sending))
    BY <1>9 DEF HostTimeout
  <2>3. Transmit(sending) => Extended(wire, wire', sending)
    BY TransmitExtends DEF Inv, TypeOK, HostOK
  <2>. QED BY <1>1, <2>1, <2>2, <2>3, KeptOrder
<1>10. CASE HostCancels
  <2>. DEFINE two == <<Char("can"), Char("can")>>
  <2>1. two \in Seq(Item) /\ Len(two) = 2
    BY ItemsType
  <2>2. ASSUME NEW m \in 1..2 PROVE ~IsBlock(two[m])
    BY DEF IsBlock, Char
  <2>3. /\ wire' = wire \o two /\ back' = back /\ host' = "failed"
        /\ sending' = sending
    BY <1>10 DEF HostCancels
  <2>. HIDE DEF two
  <2>4. /\ Len(wire') = Len(wire) + 2 /\ Len(wire) \in Nat
        /\ \A m \in 1..Len(wire) + 2 :
             wire'[m] = IF m <= Len(wire) THEN wire[m] ELSE two[m - Len(wire)]
    <3>1. /\ Len(wire \o two) = Len(wire) + Len(two)
          /\ \A m \in 1..Len(wire) + Len(two) :
               (wire \o two)[m] = IF m <= Len(wire) THEN wire[m]
                                  ELSE two[m - Len(wire)]
      BY <1>3, <2>1, ConcatProperties
    <3>2. Len(wire) \in Nat
      BY <1>3
    <3>. QED BY <2>1, <2>3, <3>1, <3>2
  <2>5. Extended(wire, wire', sending)
    <3>1. \A m \in 1..Len(wire) : wire'[m] = wire[m]
      BY <2>4
    <3>2. ASSUME NEW m \in Len(wire) + 1..Len(wire') PROVE ~IsBlock(wire'[m])
      <4>1. m - Len(wire) \in 1..2 /\ wire'[m] = two[m - Len(wire)]
        BY <2>4
      <4>. QED BY <2>2, <4>1
    <3>. QED BY <2>4, <3>1, <3>2 DEF Extended
  <2>6. Acks(back') <= Acks(back)
    BY <1>3, <2>3
  <2>. QED BY <1>1, <2>3, <2>5, <2>6, KeptOrder
<1>. QED BY <1>5, <1>6, <1>7, <1>8, <1>9, <1>10 DEF Host

LEMMA LineInStep ==
  ASSUME Inv, Inv', InStep, LineFault
  PROVE  InStep'
<1>1. got' = got /\ pc' = pc /\ sending' = sending /\ host' = host
  BY DEF LineFault
<1>2. InOrder' /\ (Done => Done')
  BY <1>1 DEF InStep, InOrder, Done
<1>. SUFFICES ASSUME Ordered PROVE Ordered'
  BY <1>2 DEF InStep
<1>3. /\ Acks(back) \in Nat /\ wire \in Seq(Item) /\ back \in Seq(Chars)
      /\ Len(wire) \in Nat
  BY OrderTypes
<1>4. ASSUME NEW i \in 1..Len(wire), wire' = Without(wire, i), back' = back
      PROVE  Ordered'
  <2>1. /\ Len(wire') = Len(wire) - 1
        /\ \A m \in 1..Len(wire') :
             wire'[m] = IF m < i THEN wire[m] ELSE wire[m + 1]
    BY <1>3, <1>4, WithoutAt
  <2>2. Thinned(wire, wire', i, 1)
    <3>1. \A m \in 1..Len(wire') : m < i => wire'[m] = wire[m]
      BY <2>1
    <3>2. \A m \in 1..Len(wire') : m >= i => wire'[m] = wire[m + 1]
      BY <1>3, <2>1
    <3>. QED BY <2>1, <3>1, <3>2 DEF Thinned
  <2>3. Acks(back') <= Acks(back)
    BY <1>3, <1>4
  <2>. QED BY <1>1, <2>2, <2>3, KeptOrder
<1>5. ASSUME NEW i \in 1..Len(wire), NEW x \in Harm(wire[i]),
             wire' = [wire EXCEPT ![i] = x], back' = back
      PROVE  Ordered'
  <2>1. ~IsBlock(x) /\ x \in Item
    <3>1. wire[i] \in Item
      BY <1>3, ElementOfSeq
    <3>. QED BY <3>1, ItemsType DEF Harm, IsBlock, Item, Char
  <2>2. /\ Len(wire') = Len(wire)
        /\ \A m \in 1..Len(wire) : wire'[m] = IF m = i THEN x ELSE wire[m]
    BY <1>3, <1>5, <2>1, ExceptSeq
  <2>3. Thinned(wire, wire', i, 0)
    BY <1>3, <2>1, <2>2 DEF Thinned
  <2>4. Acks(back') <= Acks(back)
    BY <1>3, <1>5
  <2>. QED BY <1>1, <2>3, <2>4, KeptOrder
<1>6. ASSUME NEW i \in 1..Len(back), back' = Without(back, i), wire' = wire
      PROVE  Ordered'
  <2>1. /\ back' \in Seq(Chars) /\ Len(back') = Len(back) - 1
        /\ \A m \in 1..Len(back') :
             back'[m] = IF m < i THEN back[m] ELSE back[m + 1]
    BY <1>3, <1>6, WithoutAt
  <2>2. Acks(back') <= Acks(back) - IF back[i] = "ACK" THEN 1 ELSE 0
    BY <1>3, <2>1, AcksDropped
  <2>3. Acks(back') \in Nat
    BY <2>1, AcksType
  <2>4. Acks(back') <= Acks(back)
    BY <1>3, <2>2, <2>3
  <2>. QED BY <1>1, <1>6, <2>4, KeptOrder
<1>7. ASSUME wire' = Append(wire, Char("stray")), back' = back
      PROVE  Ordered'
  <2>1. Char("stray") \in Item /\ ~IsBlock(Char("stray"))
    BY ItemsType DEF IsBlock, Char
  <2>2. /\ Len(wire') = Len(wire) + 1
        /\ \A m \in 1..Len(wire) : wire'[m] = wire[m]
        /\ wire'[Len(wire) + 1] = Char("stray")
    BY <1>3, <1>7, <2>1, AppendProperties
  <2>3. Extended(wire, wire', sending)
    BY <1>3, <2>1, <2>2 DEF Extended
  <2>4. Acks(back') <= Acks(back)
    BY <1>3, <1>7
  <2>. QED BY <1>1, <2>3, <2>4, KeptOrder
<1>. QED BY <1>4, <1>5, <1>6, <1>7 DEF LineFault

\* The sink is given the blocks of the host's file in order, each once and
\* without a gap, through lost answers, repeats, early timeouts and the
\* wrap-around of the block numbers, if the two directions of the line hold
\* less than a turn of the numbers: the host is then never a whole turn ahead
\* of the receiver (resident_de_boot_xmodem.c:156-186).  The numbers are bytes:
\* Wrap is 256, and a line may hold 127 blocks and 127 answers.
THEOREM BlocksInOrder ==
  ASSUME 2 * LineMax + 1 < Wrap
  PROVE  Spec => []InOrder
<1>1. Init => InStep
  <2>. SUFFICES ASSUME Init PROVE InStep
    OBVIOUS
  <2>1. Inv
    BY InitInv
  <2>2. /\ got = <<>> /\ wire = <<>> /\ sending = 1
    BY DEF Init
  <2>3. Len(got) = 0 /\ Len(wire) = 0
    BY <2>2, EmptySeq
  <2>4. InOrder
    BY <2>2, <2>3 DEF InOrder
  <2>5. Acks(back) = 0
    <3>1. back = <<>> /\ Len(back) = 0
      BY EmptySeq DEF Init
    <3>2. Acking(back) = {}
      BY <3>1 DEF Acking
    <3>. QED BY <3>2, FS_EmptySet DEF Acks
  <2>6. Reach(wire, 0, 1, 0, 1, 0)
    BY <2>3, NumbersAssumption DEF Reach
  <2>7. Near(wire, 0, 1, 0)
    BY <2>3, <2>6 DEF Near
  <2>8. Sorted(wire, 0, 1)
    BY <2>3 DEF Sorted
  <2>. QED BY <2>2, <2>3, <2>4, <2>5, <2>7, <2>8 DEF InStep, Ordered
<1>2. Inv /\ Inv' /\ InStep /\ [Next]_vars => InStep'
  <2>. SUFFICES ASSUME Inv, Inv', InStep, [Next]_vars PROVE InStep'
    OBVIOUS
  <2>1. CASE UNCHANGED vars
    BY <2>1 DEF vars, InStep, InOrder, Done, Ordered
  <2>. QED BY <2>1, ReceiverInStep, HostInStep, LineInStep DEF Next
<1>3. InStep => InOrder
  BY DEF InStep
<1>. QED BY Invariant, <1>1, <1>2, <1>3, PTL DEF Spec
=============================================================================
