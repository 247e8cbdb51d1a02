--------------------------- MODULE MainLoopProofs ---------------------------
(***************************************************************************)
(* What the main loop shares with interrupts and with other programs.      *)
(*   the coefficient upload, for every number of rows, every ring, any     *)
(*       lines on both ports and any damage                                *)
(*   the clock measurement, for every queue, any number of captures and    *)
(*       restarts, as long as no interrupt prints into the tick's drain    *)
(* The two share no variable, and each theorem is of its own specification.*)
(***************************************************************************)
EXTENDS CoeffUpload, PeriodQueue, SequenceTheorems, TLAPS

-----------------------------------------------------------------------------
(* The coefficient upload.                                                 *)

\* One upload at a time: what the busy test of the header relies on.
Handover ==
    /\ apply # "idle" => request
    /\ receiving => ~request /\ ~draining
    /\ pc = "ack" => apply = "wait"

\* The function the interrupt calls and the state agree, but for the moment
\* between the two stores; the table is rewritten only when both say bypass.
Switched ==
    /\ todo = "none" => (proc = "bypass" <=> pstate # "normal")
    /\ todo = "normal" => proc = "active"
    /\ todo = "bypass" => proc = "active" /\ pstate = "requested"
    /\ pc = "load" => todo = "none" /\ pstate = "active"
    /\ BypassIsOwned

\* Behind the first line of the ring nothing was hurt during a transfer, and
\* nothing was lost since its last.
CleanBehind ==
    /\ \A k \in 2..Len(rx) : rx[k].hurt # "during"
    /\ rx # <<>> => gap # "during"
CleanAll ==
    /\ \A k \in 1..Len(rx) : rx[k].hurt # "during"
    /\ gap # "during" /\ spoiled # "during"

\* The baseline is no older than the damage that can still be accepted.
Counted ==
    /\ ~faulty => CleanBehind
    /\ ~faulty /\ receiving => CleanAll
    /\ pc = "rx2" /\ ~receiving => CleanBehind
    /\ HurtIsCaught

Inv == TypeOK /\ Handover /\ Switched /\ Counted

LEMMA PlainIsValue == Plain \in Values
BY ValuesAssumption DEF Plain

\* What the ring's operations do to its lines.
LEMMA TailLines ==
  ASSUME NEW s \in Seq(Lines), s # <<>>
  PROVE  /\ Head(s) \in Lines /\ Head(s) = s[1] /\ 1 \in 1..Len(s)
         /\ Tail(s) \in Seq(Lines) /\ Len(Tail(s)) = Len(s) - 1
         /\ Len(s) \in Nat \ {0}
         /\ \A k \in 1..Len(Tail(s)) : k + 1 \in 2..Len(s) /\ Tail(s)[k] = s[k + 1]
OBVIOUS

LEMMA AppendLines ==
  ASSUME NEW s \in Seq(Lines), NEW l \in Lines
  PROVE  /\ Append(s, l) \in Seq(Lines) /\ Len(Append(s, l)) = Len(s) + 1
         /\ Len(s) \in Nat
         /\ \A k \in 1..Len(s) : Append(s, l)[k] = s[k]
         /\ Append(s, l)[Len(s) + 1] = l
         /\ Append(s, l) # <<>>
OBVIOUS

-----------------------------------------------------------------------------
(* Types.                                                                  *)

UartOK == rx \in Seq(Lines) /\ Len(rx) <= RingLines /\ faulty \in BOOLEAN
          /\ gap \in Damage
ConsoleOK == /\ mode \in {"normal", "csv", "reject"} /\ src \in 0..2
             /\ typing \in BOOLEAN /\ quiet2 \in BOOLEAN
TransferOK == /\ receiving \in BOOLEAN /\ draining \in BOOLEAN
              /\ rows \in 0..Rows /\ staging \in [1..Rows -> Values]
              /\ moved \in BOOLEAN /\ due \in BOOLEAN /\ spoiled \in Damage
ApplyOK == /\ request \in BOOLEAN /\ apply \in {"idle", "wait", "copy"}
           /\ ackDue \in BOOLEAN
CascadeOK == /\ proc \in {"active", "bypass"}
             /\ pstate \in {"normal", "requested", "active"}
             /\ todo \in {"none", "normal", "bypass"} /\ user \in BOOLEAN
MainOK == /\ running \in BOOLEAN
          /\ pc \in {"rx1", "rx2", "watch", "apply", "ack", "load", "restore", "end"}
          /\ sent \in 0..MaxLines /\ sent2 \in 0..MaxLines2 /\ hurts \in 0..MaxHurts

LEMMA TypeParts ==
  TypeOK <=> UartOK /\ ConsoleOK /\ TransferOK /\ ApplyOK /\ CascadeOK /\ MainOK
BY DEF TypeOK, UartOK, ConsoleOK, TransferOK, ApplyOK, CascadeOK, MainOK

\* The initial state satisfies the invariant.
LEMMA InitInv == Init => Inv
<1>. SUFFICES ASSUME Init PROVE Inv
  OBVIOUS
<1>. USE DEF Init
<1>1. UartOK
  <2>1. <<>> \in Seq(Lines) /\ Len(<<>>) <= RingLines
    BY SizeAssumption, EmptySeq
  <2>2. rx = <<>> /\ faulty \in BOOLEAN /\ gap \in Damage
    BY DEF Damage
  <2> QED BY <2>1, <2>2 DEF UartOK
<1>2. ConsoleOK
  <2>1. mode = "normal" /\ src = 0 /\ typing \in BOOLEAN /\ quiet2 \in BOOLEAN
    OBVIOUS
  <2>. HIDE DEF Init
  <2> QED BY <2>1 DEF ConsoleOK
<1>3. TransferOK
  <2>1. staging \in [1..Rows -> Values] /\ rows = 0
    BY PlainIsValue
  <2>2. /\ receiving \in BOOLEAN /\ draining \in BOOLEAN
        /\ moved \in BOOLEAN /\ due \in BOOLEAN /\ spoiled \in Damage
    BY DEF Damage
  <2>. HIDE DEF Init
  <2> QED BY <2>1, <2>2, SizeAssumption DEF TransferOK
<1>4. ApplyOK
  BY DEF ApplyOK
<1>5. CascadeOK
  BY DEF CascadeOK
<1>6. MainOK
  BY LinesAssumption DEF MainOK
<1>7. Handover
  BY DEF Handover
<1>8. Switched
  BY DEF Switched, BypassIsOwned
<1>9. Counted
  BY DEF Counted, CleanBehind, CleanAll, HurtIsCaught
<1>. HIDE DEF Init
<1> QED BY <1>1, <1>2, <1>3, <1>4, <1>5, <1>6, <1>7, <1>8, <1>9, TypeParts DEF Inv

LEMMA NoRows == 0 \in 0..Rows
BY SizeAssumption

\* The cascade keeps its types in each thing that is done to it.
LEMMA CascadeStep ==
  ASSUME CascadeOK, NEW b \in BOOLEAN,
         RequestNormal \/ RequestBypass(b) \/ UNCHANGED cascade
  PROVE  CascadeOK'
BY DEF CascadeOK, RequestNormal, RequestBypass, cascade

LEMMA CommandStep ==
  ASSUME CascadeOK, running \in BOOLEAN, Command
  PROVE  CascadeOK' /\ running' \in BOOLEAN
<1>1. CASE UNCHANGED <<cascade, running>>
  BY <1>1, CascadeStep
<1>2. CASE RequestBypass(TRUE) /\ UNCHANGED running
  BY <1>2, CascadeStep
<1>3. CASE RequestNormal /\ UNCHANGED running
  BY <1>3, CascadeStep
<1>4. CASE running' = ~running /\ UNCHANGED cascade
  BY <1>4, CascadeStep
<1> QED BY <1>1, <1>2, <1>3, <1>4 DEF Command

\* A line in normal mode.
LEMMA RelockStep ==
  ASSUME ConsoleOK, NEW p \in 1..2, Relock(p),
         mode' \in {"normal", "csv", "reject"},
         typing' \in BOOLEAN, quiet2' \in BOOLEAN
  PROVE  ConsoleOK'
<1>1. src' \in 0..2
  BY DEF Relock
<1> QED BY <1>1 DEF ConsoleOK

LEMMA NormalLineTypes ==
  ASSUME ConsoleOK, TransferOK, CascadeOK, running \in BOOLEAN,
         NEW p \in 1..2, NEW kind, NormalLine(p, kind), Relock(p)
  PROVE  ConsoleOK' /\ TransferOK' /\ CascadeOK' /\ running' \in BOOLEAN
<1>1. CASE kind = "begin" /\ p = 1 /\ StartFromHeader /\ UNCHANGED running
  <2>0. running' \in BOOLEAN
    BY <1>1
  <2>1. CASE MayStart
    <3>1. CascadeOK'
      BY <1>1, <2>1, CascadeStep DEF StartFromHeader
    <3>2. TransferOK'
      <4>1. /\ receiving' \in BOOLEAN /\ draining' \in BOOLEAN /\ rows' = 0
            /\ due' \in BOOLEAN /\ spoiled' \in Damage
            /\ UNCHANGED <<staging, moved>>
        BY <1>1, <2>1 DEF StartFromHeader, Damage
      <4> QED BY <4>1, NoRows DEF TransferOK
    <3>3. ConsoleOK'
      BY <1>1, <2>1, RelockStep DEF StartFromHeader, ConsoleOK
    <3> QED BY <2>0, <3>1, <3>2, <3>3
  <2>2. CASE ~MayStart
    <3>1. UNCHANGED <<transfer, cascade, mode, typing, quiet2>>
      BY <1>1, <2>2 DEF StartFromHeader
    <3>2. CascadeOK'
      BY <3>1, CascadeStep
    <3>3. TransferOK'
      BY <3>1 DEF TransferOK, transfer
    <3>4. ConsoleOK'
      BY <3>1, RelockStep DEF ConsoleOK
    <3> QED BY <2>0, <3>2, <3>3, <3>4
  <2> QED BY <2>1, <2>2
<1>2. CASE kind = "text" /\ typing' = FALSE /\ Command
           /\ UNCHANGED <<transfer, mode, quiet2>>
  <2>1. CascadeOK' /\ running' \in BOOLEAN
    BY <1>2, CommandStep
  <2>2. TransferOK'
    BY <1>2 DEF TransferOK, transfer
  <2>3. ConsoleOK'
    BY <1>2, RelockStep DEF ConsoleOK
  <2> QED BY <2>1, <2>2, <2>3
<1>3. CASE mode' \in {mode, "reject"} /\ typing' \in BOOLEAN /\ quiet2' \in BOOLEAN
           /\ UNCHANGED <<transfer, cascade, running>>
  <2>1. CascadeOK'
    BY <1>3, CascadeStep
  <2>2. TransferOK'
    BY <1>3 DEF TransferOK, transfer
  <2>3. ConsoleOK'
    BY <1>3, RelockStep DEF ConsoleOK
  <2> QED BY <1>3, <2>1, <2>2, <2>3
<1>4. CASE kind = "begin" /\ p = 2 /\ mode' = "reject" /\ quiet2' = FALSE
           /\ UNCHANGED <<transfer, cascade, typing, running>>
  BY <1>3, <1>4 DEF ConsoleOK
<1>5. CASE kind = "row" /\ typing' = FALSE
           /\ UNCHANGED <<transfer, cascade, running, mode, quiet2>>
  BY <1>3, <1>5 DEF ConsoleOK
<1>6. CASE kind = "part" /\ typing' = TRUE
           /\ UNCHANGED <<transfer, cascade, running, mode, quiet2>>
  BY <1>3, <1>6 DEF ConsoleOK
<1>7. CASE kind \in {"end", "esc"}
           /\ UNCHANGED <<transfer, cascade, running, mode, typing, quiet2>>
  BY <1>3, <1>7 DEF ConsoleOK
<1> QED BY <1>1, <1>2, <1>4, <1>5, <1>6, <1>7 DEF NormalLine

\* A line of an open or a draining transfer.
LEMMA FeedLineTypes ==
  ASSUME UartOK, TransferOK, ApplyOK, CascadeOK, rx # <<>>, NEW l \in Lines,
         receiving, FeedLine(l), UNCHANGED <<apply, ackDue>>
  PROVE  /\ rx' \in {<<>>, Tail(rx)}
         /\ receiving' \in BOOLEAN /\ draining' \in BOOLEAN
         /\ rows' \in 0..Rows /\ staging' \in [1..Rows -> Values]
         /\ request' \in BOOLEAN /\ CascadeOK'
<1>0. 0 \in 0..Rows
  BY NoRows
<1>1. CASE l.kind = "end" /\ WaitEnd /\ Commit
  <2>1. CASE Busy
    <3>1. CascadeOK'
      BY <1>1, <2>1, CascadeStep DEF Commit, Abort
    <3> QED BY <1>0, <1>1, <2>1, <3>1 DEF Commit, Abort, TransferOK, ApplyOK
  <2>2. CASE ~Busy
    <3>1. CascadeOK'
      BY <1>1, <2>2, CascadeStep DEF Commit
    <3> QED BY <1>0, <1>1, <2>2, <3>1 DEF Commit, TransferOK
  <2> QED BY <2>1, <2>2
<1>2. CASE /\ RoomForRow /\ rows' = rows + 1
           /\ staging' = [staging EXCEPT ![rows + 1] = l.value]
           /\ rx' = Tail(rx)
           /\ UNCHANGED <<receiving, draining, request, cascade>>
  <2>1. CascadeOK'
    BY <1>2, CascadeStep
  <2>2. rows + 1 \in 1..Rows /\ l.value \in Values
    BY <1>2, SizeAssumption DEF RoomForRow, WaitEnd, TransferOK, Lines
  <2>3. staging' \in [1..Rows -> Values] /\ rows' \in 0..Rows
    BY <1>2, <2>2 DEF TransferOK
  <2> QED BY <1>2, <2>1, <2>3 DEF TransferOK, ApplyOK
<1>3. CASE /\ rx' = Tail(rx)
           /\ UNCHANGED <<receiving, draining, rows, staging, request, cascade>>
  <2>1. CascadeOK'
    BY <1>3, CascadeStep
  <2> QED BY <1>3, <2>1 DEF TransferOK, ApplyOK
<1>4. ASSUME NEW b \in BOOLEAN, Abort(b), rx' = Tail(rx),
             UNCHANGED <<staging, request>>
      PROVE  /\ rx' \in {<<>>, Tail(rx)}
             /\ receiving' \in BOOLEAN /\ draining' \in BOOLEAN
             /\ rows' \in 0..Rows /\ staging' \in [1..Rows -> Values]
             /\ request' \in BOOLEAN /\ CascadeOK'
  <2>1. CascadeOK'
    BY <1>4, CascadeStep DEF Abort
  <2> QED BY <1>0, <1>4, <2>1 DEF Abort, TransferOK, ApplyOK
<1> QED BY <1>1, <1>2, <1>3, <1>4 DEF FeedLine

LEMMA FeedCharTypes ==
  ASSUME UartOK, ConsoleOK, TransferOK, ApplyOK, CascadeOK, running \in BOOLEAN,
         rx # <<>>, FeedChar(Head(rx)), Relock(1)
  PROVE  /\ ConsoleOK' /\ TransferOK' /\ ApplyOK' /\ CascadeOK'
         /\ rx' \in {<<>>, Tail(rx)} /\ running' \in BOOLEAN
<1>. DEFINE l == Head(rx)
<1>0. l \in Lines
  BY TailLines DEF UartOK
<1>. HIDE DEF l
<1>1. /\ moved' \in BOOLEAN /\ due' \in BOOLEAN /\ running' \in BOOLEAN
      /\ apply' = apply /\ ackDue' = ackDue
      /\ typing' \in BOOLEAN /\ quiet2' \in BOOLEAN
  BY DEF FeedChar, TransferOK, ConsoleOK
<1>2. /\ rx' \in {<<>>, Tail(rx)}
      /\ receiving' \in BOOLEAN /\ draining' \in BOOLEAN
      /\ rows' \in 0..Rows /\ staging' \in [1..Rows -> Values]
      /\ request' \in BOOLEAN /\ CascadeOK'
      /\ spoiled' \in Damage /\ mode' \in {"csv", "normal"}
  <2>1. CASE receiving
    <3>1. FeedLine(l) /\ spoiled' = Worse(spoiled, l.hurt)
          /\ mode' = IF receiving' THEN "csv" ELSE "normal"
      BY <2>1 DEF FeedChar, l
    <3>2. spoiled' \in Damage
      BY <3>1 DEF Worse, Damage
    <3>3. UNCHANGED <<apply, ackDue>>
      BY <1>1
    <3>4. /\ rx' \in {<<>>, Tail(rx)}
          /\ receiving' \in BOOLEAN /\ draining' \in BOOLEAN
          /\ rows' \in 0..Rows /\ staging' \in [1..Rows -> Values]
          /\ request' \in BOOLEAN /\ CascadeOK'
      BY <1>0, <2>1, <3>1, <3>3, FeedLineTypes
    <3>5. mode' \in {"csv", "normal"}
      BY <3>1
    <3> QED BY <3>2, <3>4, <3>5
  <2>2. CASE ~receiving
    <3>1. /\ draining' = (draining /\ l.kind \notin {"esc", "end"})
          /\ mode' = IF draining' THEN "csv" ELSE "normal"
          /\ rx' = Tail(rx) /\ rows' = 0
          /\ UNCHANGED <<receiving, staging, request, spoiled, cascade>>
      BY <2>2 DEF FeedChar, l
    <3>2. CascadeOK'
      BY <3>1, CascadeStep
    <3>3. draining' \in BOOLEAN /\ mode' \in {"csv", "normal"}
      BY <3>1
    <3>4. rows' \in 0..Rows
      BY <3>1, SizeAssumption
    <3> QED BY <3>1, <3>2, <3>3, <3>4 DEF TransferOK, ApplyOK
  <2> QED BY <2>1, <2>2
<1>3. ConsoleOK'
  BY <1>1, <1>2, RelockStep
<1> QED BY <1>1, <1>2, <1>3 DEF TransferOK, ApplyOK

\* The ring keeps its type when a line is taken out, or all of them.
LEMMA RingShrinks ==
  ASSUME UartOK, rx # <<>>, rx' \in {<<>>, Tail(rx)}, UNCHANGED <<faulty, gap>>
  PROVE  UartOK'
<1>1. rx' \in Seq(Lines) /\ Len(rx') <= RingLines
  <2>1. CASE rx' = <<>>
    BY <2>1, EmptySeq, SizeAssumption
  <2>2. CASE rx' = Tail(rx)
    <3>1. rx \in Seq(Lines) /\ Len(rx) <= RingLines
      BY DEF UartOK
    <3>2. Tail(rx) \in Seq(Lines) /\ Len(Tail(rx)) = Len(rx) - 1 /\ Len(rx) \in Nat
      BY <3>1, TailLines
    <3> QED BY <2>2, <3>1, <3>2, SizeAssumption
  <2> QED BY <2>1, <2>2
<1> QED BY <1>1 DEF UartOK

\* Every step keeps the types.
LEMMA TypeStep ==
  ASSUME TypeOK, [Next]_vars
  PROVE  TypeOK'
<1>0. UartOK /\ ConsoleOK /\ TransferOK /\ ApplyOK /\ CascadeOK /\ MainOK
  BY TypeParts
<1>. SUFFICES UartOK' /\ ConsoleOK' /\ TransferOK' /\ ApplyOK' /\ CascadeOK'
              /\ MainOK'
  BY DEF TypeOK, UartOK, ConsoleOK, TransferOK, ApplyOK, CascadeOK, MainOK
<1>u. ASSUME UNCHANGED uart PROVE UartOK'
  BY <1>0, <1>u DEF UartOK, uart
<1>c. ASSUME UNCHANGED console PROVE ConsoleOK'
  BY <1>0, <1>c DEF ConsoleOK, console
<1>t. ASSUME UNCHANGED transfer PROVE TransferOK'
  BY <1>0, <1>t DEF TransferOK, transfer
<1>a. ASSUME UNCHANGED applying PROVE ApplyOK'
  BY <1>0, <1>a DEF ApplyOK, applying
<1>s. ASSUME UNCHANGED cascade PROVE CascadeOK'
  BY <1>0, <1>s, CascadeStep
<1>m. ASSUME UNCHANGED bounds, running' \in BOOLEAN,
             pc' \in {"rx1", "rx2", "watch", "apply", "ack", "load", "restore", "end"}
      PROVE  MainOK'
  BY <1>0, <1>m DEF MainOK, bounds
<1>1. CASE SecondStore
  <2>1. CascadeOK' /\ pc' = pc /\ running' = running
    BY <1>0, <1>1 DEF SecondStore, CascadeOK
  <2> QED BY <1>0, <1>1, <2>1, <1>u, <1>c, <1>t, <1>a, <1>m DEF SecondStore, MainOK
<1>2. CASE ReadUart1
  <2>1. rx # <<>> /\ UNCHANGED <<faulty, gap, pc, bounds>>
    BY <1>2 DEF ReadUart1
  <2>2. CASE rx' = Tail(rx) /\ UNCHANGED <<console, transfer, applying, cascade, running>>
    <3>1. UartOK'
      BY <1>0, <2>1, <2>2, RingShrinks
    <3> QED BY <1>0, <2>1, <2>2, <3>1, <1>c, <1>t, <1>a, <1>s, <1>m DEF MainOK
  <2>3. CASE FeedChar(Head(rx)) /\ Relock(1)
    <3>1. /\ ConsoleOK' /\ TransferOK' /\ ApplyOK' /\ CascadeOK'
          /\ rx' \in {<<>>, Tail(rx)} /\ running' \in BOOLEAN
      BY <1>0, <2>1, <2>3, FeedCharTypes DEF MainOK
    <3>2. UartOK'
      BY <1>0, <2>1, <3>1, RingShrinks
    <3> QED BY <1>0, <2>1, <3>1, <3>2, <1>m DEF MainOK
  <2>4. CASE NormalLine(1, Head(rx).kind) /\ Relock(1)
             /\ rx' \in {<<>>, Tail(rx)} /\ UNCHANGED applying
    <3>1. ConsoleOK' /\ TransferOK' /\ CascadeOK' /\ running' \in BOOLEAN
      BY <1>0, <2>4, NormalLineTypes DEF MainOK
    <3>2. UartOK'
      BY <1>0, <2>1, <2>4, RingShrinks
    <3> QED BY <1>0, <2>1, <2>4, <3>1, <3>2, <1>a, <1>m DEF MainOK
  <2> QED BY <1>2, <2>2, <2>3, <2>4 DEF ReadUart1, Flushes
<1>3. CASE LeaveUart1
  BY <1>0, <1>3, <1>u, <1>c, <1>t, <1>a, <1>s, <1>m DEF LeaveUart1, MainOK
<1>4. CASE ReadUart2
  <2>1. UartOK' /\ ApplyOK'
    <3>1. UNCHANGED <<faulty, gap, applying>> /\ rx' \in {rx, <<>>}
      BY <1>4 DEF ReadUart2, Flushes
    <3>2. <<>> \in Seq(Lines) /\ Len(<<>>) <= RingLines
      BY SizeAssumption, EmptySeq
    <3> QED BY <1>0, <1>a, <3>1, <3>2 DEF UartOK
  <2>2. sent2' \in 0..MaxLines2 /\ UNCHANGED <<pc, sent, hurts>>
    BY <1>0, <1>4, LinesAssumption DEF ReadUart2, MainOK
  <2>3. ConsoleOK' /\ TransferOK' /\ CascadeOK' /\ running' \in BOOLEAN
    <3>1. CASE UNCHANGED <<console, transfer, cascade, running>>
      BY <1>0, <3>1, <1>c, <1>t, <1>s DEF MainOK
    <3>2. CASE /\ quiet2' = FALSE /\ src' = 2
               /\ UNCHANGED <<mode, typing, transfer, cascade, running>>
      <4>1. ConsoleOK'
        <5>1. src' \in 0..2
          BY <3>2
        <5> QED BY <1>0, <3>2, <5>1 DEF ConsoleOK
      <4> QED BY <1>0, <3>2, <4>1, <1>t, <1>s DEF MainOK
    <3>3. ASSUME NEW kind \in Kinds, NormalLine(2, kind), Relock(2)
          PROVE  ConsoleOK' /\ TransferOK' /\ CascadeOK' /\ running' \in BOOLEAN
      BY <1>0, <3>3, NormalLineTypes DEF MainOK
    <3> QED BY <1>4, <3>1, <3>2, <3>3 DEF ReadUart2
  <2> QED BY <1>0, <2>1, <2>2, <2>3 DEF MainOK
<1>5. CASE LeaveUart2
  <2>1. UartOK' /\ ConsoleOK'
    BY <1>0, <1>5 DEF LeaveUart2, UartOK, ConsoleOK
  <2> QED BY <1>0, <1>5, <2>1, <1>t, <1>a, <1>s, <1>m DEF LeaveUart2, MainOK
<1>6. CASE Watchdog
  <2>1. CascadeOK'
    <3>1. RequestNormal \/ UNCHANGED cascade
      BY <1>6 DEF Watchdog, Abort
    <3> QED BY <1>0, <3>1, CascadeStep
  <2>2. TransferOK'
    <3>1. UNCHANGED <<staging, spoiled>> /\ moved' \in BOOLEAN /\ due' \in BOOLEAN
      BY <1>0, <1>6 DEF Watchdog, Silent, TransferOK
    <3>2. receiving' \in BOOLEAN /\ draining' \in BOOLEAN
      BY <1>0, <1>6 DEF Watchdog, Abort, TransferOK
    <3>3. rows' = 0 \/ rows' = rows
      BY <1>6 DEF Watchdog, Abort
    <3> QED BY <1>0, <3>1, <3>2, <3>3, NoRows DEF TransferOK
  <2> QED BY <1>0, <1>6, <2>1, <2>2, <1>u, <1>c, <1>a, <1>m DEF Watchdog, MainOK
<1>7. CASE Apply
  <2>0. UartOK' /\ ConsoleOK' /\ TransferOK'
    BY <1>7, <1>u, <1>c, <1>t DEF Apply, ApplyIdle, ApplyWait, ApplyUnacknowledged,
       ApplyCopy, Loaded, Restore
  <2>1. MainOK'
    BY <1>0, <1>7, <1>m DEF Apply, ApplyIdle, ApplyWait, ApplyUnacknowledged,
       ApplyCopy, Loaded, Restore, MainOK
  <2>2. ApplyOK'
    BY <1>0, <1>7 DEF Apply, ApplyIdle, ApplyWait, ApplyUnacknowledged,
       ApplyCopy, Loaded, Restore, ApplyOK, applying
  <2>3. CascadeOK'
    <3>1. CASE RequestNormal \/ RequestBypass(FALSE) \/ UNCHANGED cascade
      BY <1>0, <3>1, CascadeStep
    <3>2. CASE ConfirmBypassStopped /\ UNCHANGED <<proc, todo, user>>
      BY <1>0, <3>2 DEF ConfirmBypassStopped, CascadeOK
    <3> QED BY <1>7, <3>1, <3>2 DEF Apply, ApplyIdle, ApplyWait,
               ApplyUnacknowledged, ApplyCopy, Loaded, Restore
  <2> QED BY <2>0, <2>1, <2>2, <2>3
<1>8. CASE EndPass
  <2>1. ConsoleOK'
    BY <1>0, <1>8 DEF EndPass, ConsoleOK
  <2> QED BY <1>0, <1>8, <2>1, <1>u, <1>t, <1>a, <1>s, <1>m DEF EndPass, MainOK
<1>9. CASE Receive
  <2>1. ConsoleOK' /\ TransferOK' /\ ApplyOK' /\ CascadeOK'
    BY <1>9, <1>c, <1>t, <1>a, <1>s DEF Receive
  <2>2. ASSUME NEW k \in Kinds, NEW v \in Values, Arrive(k, v) \/ ArriveHurt(k, v)
        PROVE  UartOK' /\ sent' \in 0..MaxLines /\ hurts' \in 0..MaxHurts
    <3>1. sent' \in 0..MaxLines /\ hurts' \in 0..MaxHurts
      BY <1>0, <2>2, LinesAssumption DEF Arrive, ArriveHurt, MainOK
    <3>2. gap' \in Damage /\ faulty' \in BOOLEAN
      BY <1>0, <2>2 DEF Arrive, ArriveHurt, UartOK, Damage, Worse, Now
    <3>3. ASSUME NEW h \in Damage, Len(rx) < RingLines,
                 rx' = Append(rx, [kind |-> k, value |-> v, hurt |-> h])
          PROVE  rx' \in Seq(Lines) /\ Len(rx') <= RingLines
      <4>1. [kind |-> k, value |-> v, hurt |-> h] \in Lines
        BY DEF Lines
      <4> QED BY <1>0, <3>3, <4>1, AppendLines, SizeAssumption DEF UartOK
    <3>4. gap \in Damage /\ Worse(gap, Now) \in Damage
      BY <1>0 DEF UartOK, Worse, Damage
    <3>5. rx' \in Seq(Lines) /\ Len(rx') <= RingLines
      BY <1>0, <2>2, <3>3, <3>4 DEF Arrive, ArriveHurt, UartOK
    <3> QED BY <3>1, <3>2, <3>5 DEF UartOK
  <2>3. UartOK' /\ sent' \in 0..MaxLines /\ hurts' \in 0..MaxHurts
    BY <1>9, <2>2, PlainIsValue DEF Receive, Kinds
  <2> QED BY <1>0, <1>9, <2>1, <2>3 DEF Receive, MainOK
<1>10. CASE AudioBlock
  <2>1. CascadeOK'
    BY <1>0, <1>10 DEF AudioBlock, CascadeOK
  <2> QED BY <1>0, <1>10, <2>1, <1>u, <1>c, <1>t, <1>a, <1>m DEF AudioBlock, MainOK
<1>11. CASE TwoSeconds
  <2>1. TransferOK'
    BY <1>0, <1>11 DEF TwoSeconds, TransferOK
  <2> QED BY <1>0, <1>11, <2>1, <1>u, <1>c, <1>a, <1>s, <1>m DEF TwoSeconds, MainOK
<1>12. CASE AckTime
  <2>1. ApplyOK'
    BY <1>0, <1>12 DEF AckTime, ApplyOK
  <2> QED BY <1>0, <1>12, <2>1, <1>u, <1>c, <1>t, <1>s, <1>m DEF AckTime, MainOK
<1>13. CASE Quiet2Time
  <2>1. ConsoleOK'
    BY <1>0, <1>13 DEF Quiet2Time, ConsoleOK
  <2> QED BY <1>0, <1>13, <2>1, <1>u, <1>t, <1>a, <1>s, <1>m DEF Quiet2Time, MainOK
<1>14. CASE UNCHANGED vars
  BY <1>0, <1>14, <1>u, <1>c, <1>t, <1>a, <1>s, <1>m DEF vars, MainOK
<1> QED BY <1>1, <1>2, <1>3, <1>4, <1>5, <1>6, <1>7, <1>8, <1>9, <1>10, <1>11,
           <1>12, <1>13, <1>14 DEF Next, Main

-----------------------------------------------------------------------------
(* One upload at a time.                                                   *)

\* What a line of an open transfer does to the hand-over.
LEMMA FeedLineHands ==
  ASSUME Handover, receiving, NEW l, FeedLine(l)
  PROVE  /\ receiving' => ~request' /\ ~draining'
         /\ request' => ~request /\ apply = "idle"
         /\ staging' # staging => ~request
<1>0. ~request /\ ~draining /\ apply = "idle"
  BY DEF Handover
<1>1. CASE Commit
  BY <1>0, <1>1 DEF Commit, Abort, Busy
<1>2. CASE UNCHANGED <<receiving, draining, request>>
  BY <1>0, <1>2
<1>3. ASSUME NEW b \in BOOLEAN, Abort(b), UNCHANGED request
      PROVE  ~receiving' /\ ~request'
  BY <1>0, <1>3 DEF Abort
<1> QED BY <1>0, <1>1, <1>2, <1>3 DEF FeedLine

LEMMA FeedCharHands ==
  ASSUME Handover, NEW l, FeedChar(l), pc' = pc, pc # "ack"
  PROVE  Handover' /\ (request /\ request' => staging' = staging)
<1>1. CASE receiving
  <2>1. FeedLine(l) /\ apply' = apply
    BY <1>1 DEF FeedChar
  <2>2. /\ receiving' => ~request' /\ ~draining'
        /\ staging' # staging => ~request
    BY <1>1, <2>1, FeedLineHands
  <2> QED BY <1>1, <2>1, <2>2 DEF Handover
<1>2. CASE ~receiving
  <2>1. UNCHANGED <<receiving, staging, request, apply>>
    BY <1>2 DEF FeedChar
  <2> QED BY <1>2, <2>1 DEF Handover
<1> QED BY <1>1, <1>2

LEMMA NormalLineHands ==
  ASSUME Handover, NEW p, NEW kind, NormalLine(p, kind),
         UNCHANGED <<request, apply, pc>>
  PROVE  Handover' /\ staging' = staging
<1>1. CASE StartFromHeader
  BY <1>1 DEF StartFromHeader, MayStart, Busy, Handover, transfer
<1>2. CASE UNCHANGED transfer
  BY <1>2 DEF Handover, transfer
<1> QED BY <1>1, <1>2 DEF NormalLine

\* Every step keeps the hand-over, and the staging rows that were handed over.
LEMMA HandoverStep ==
  ASSUME Handover, [Next]_vars
  PROVE  Handover' /\ (request /\ request' => staging' = staging)
<1>s. ASSUME UNCHANGED <<request, apply, receiving, draining, staging>>,
             pc' = "ack" => pc = "ack"
      PROVE  Handover' /\ (request /\ request' => staging' = staging)
  BY <1>s DEF Handover
<1>1. CASE SecondStore
  BY <1>1, <1>s DEF SecondStore, transfer, applying
<1>2. CASE ReadUart1
  <2>1. pc = "rx1" /\ pc' = pc
    BY <1>2 DEF ReadUart1, AtLines
  <2>2. CASE UNCHANGED <<transfer, applying>>
    BY <2>1, <2>2, <1>s DEF transfer, applying
  <2>3. CASE FeedChar(Head(rx))
    BY <2>1, <2>3, FeedCharHands
  <2>4. CASE NormalLine(1, Head(rx).kind) /\ UNCHANGED applying
    BY <2>1, <2>4, NormalLineHands DEF applying
  <2> QED BY <1>2, <2>2, <2>3, <2>4 DEF ReadUart1
<1>3. CASE LeaveUart1
  BY <1>3, <1>s DEF LeaveUart1, transfer, applying
<1>4. CASE ReadUart2
  <2>1. UNCHANGED <<request, apply, pc>>
    BY <1>4 DEF ReadUart2, applying
  <2>2. CASE UNCHANGED transfer
    BY <2>1, <2>2, <1>s DEF transfer
  <2>3. CASE \E kind \in Kinds : NormalLine(2, kind)
    BY <2>1, <2>3, NormalLineHands
  <2> QED BY <1>4, <2>2, <2>3 DEF ReadUart2
<1>5. CASE LeaveUart2
  BY <1>5, <1>s DEF LeaveUart2, transfer, applying
<1>6. CASE Watchdog
  <2>1. UNCHANGED <<request, apply, staging>> /\ pc' = "apply"
    BY <1>6 DEF Watchdog, applying
  <2>2. receiving' => UNCHANGED <<receiving, draining>>
    <3>1. CASE InTransfer
      BY <1>6, <3>1 DEF Watchdog, Abort
    <3>2. CASE ~InTransfer
      BY <1>6, <3>2 DEF Watchdog
    <3> QED BY <3>1, <3>2
  <2> QED BY <2>1, <2>2 DEF Handover
<1>7. CASE Apply
  <2>1. UNCHANGED <<receiving, draining, staging>>
    BY <1>7 DEF Apply, ApplyIdle, ApplyWait, ApplyUnacknowledged, ApplyCopy,
       Loaded, Restore, transfer
  <2>2. (apply' # "idle" => request') /\ (request' => request)
    <3>1. CASE ApplyIdle
      BY <3>1 DEF ApplyIdle, Handover, AtLines
    <3>2. CASE ApplyWait
      BY <3>2 DEF ApplyWait, Handover, AtLines
    <3>3. CASE ApplyUnacknowledged
      BY <3>3 DEF ApplyUnacknowledged, Handover, AtLines
    <3>4. CASE ApplyCopy \/ Loaded
      BY <3>4 DEF ApplyCopy, Loaded, Handover, applying
    <3>5. CASE Restore
      BY <3>5 DEF Restore
    <3> QED BY <1>7, <3>1, <3>2, <3>3, <3>4, <3>5 DEF Apply
  <2>3. pc' = "ack" => apply' = "wait"
    BY <1>7 DEF Apply, ApplyIdle, ApplyWait, ApplyUnacknowledged, ApplyCopy,
       Loaded, Restore, AtLines
  <2> QED BY <2>1, <2>2, <2>3 DEF Handover
<1>8. CASE EndPass
  BY <1>8, <1>s DEF EndPass, transfer, applying
<1>9. CASE Receive
  BY <1>9, <1>s DEF Receive, transfer, applying
<1>10. CASE AudioBlock
  BY <1>10, <1>s DEF AudioBlock, transfer, applying
<1>11. CASE TwoSeconds
  BY <1>11, <1>s DEF TwoSeconds, applying
<1>12. CASE AckTime
  BY <1>12, <1>s DEF AckTime, transfer
<1>13. CASE Quiet2Time
  BY <1>13, <1>s DEF Quiet2Time, transfer, applying
<1>14. CASE UNCHANGED vars
  BY <1>14, <1>s DEF vars, transfer, applying
<1> QED BY <1>1, <1>2, <1>3, <1>4, <1>5, <1>6, <1>7, <1>8, <1>9, <1>10, <1>11,
           <1>12, <1>13, <1>14 DEF Next, Main

-----------------------------------------------------------------------------
(* The two stores of the cascade, and on whose behalf it is bypassed.      *)

\* What may happen to the cascade between two of the main loop's own stores.
LEMMA SwitchedSame ==
  ASSUME Switched, UNCHANGED cascade, UNCHANGED <<receiving, request>>,
         pc' = "load" => pc = "load"
  PROVE  Switched'
<1>1. UNCHANGED <<proc, pstate, todo, user>>
  BY DEF cascade
<1> QED BY <1>1 DEF Switched, BypassIsOwned

LEMMA SwitchedNormal ==
  ASSUME Switched, RequestNormal, pc' # "load"
  PROVE  Switched'
BY DEF Switched, BypassIsOwned, RequestNormal

LEMMA SwitchedBypass ==
  ASSUME CascadeOK, Switched, todo = "none", pc' # "load",
         NEW b \in BOOLEAN, RequestBypass(b), b = TRUE \/ receiving' \/ request',
         receiving \/ request => receiving' \/ request'
  PROVE  Switched'
<1>1. CASE pstate = "normal"
  <2>1. /\ pstate' = "requested" /\ todo' = "bypass" /\ proc' = proc
        /\ proc = "active"
    BY <1>1 DEF RequestBypass, Switched, CascadeOK
  <2>2. user' = b
    BY <1>1 DEF RequestBypass
  <2> QED BY <2>1, <2>2 DEF Switched, BypassIsOwned
<1>2. CASE pstate # "normal"
  <2>1. UNCHANGED <<proc, pstate, todo, user>>
    BY <1>2 DEF RequestBypass
  <2> QED BY <2>1 DEF Switched, BypassIsOwned
<1> QED BY <1>1, <1>2

LEMMA FeedCharSwitched ==
  ASSUME CascadeOK, Switched, todo = "none", pc # "load", pc' = pc,
         NEW l, FeedChar(l)
  PROVE  Switched'
<1>1. CASE receiving
  <2>1. FeedLine(l)
    BY <1>1 DEF FeedChar
  <2>2. CASE Commit
    <3>1. CASE Busy
      BY <2>2, <3>1, SwitchedNormal DEF Commit, Abort
    <3>2. CASE ~Busy
      <4>1. request' = TRUE /\ UNCHANGED <<proc, pstate, todo, user>>
        BY <2>2, <3>2 DEF Commit, cascade
      <4> QED BY <4>1 DEF Switched, BypassIsOwned
    <3> QED BY <3>1, <3>2
  <2>3. CASE UNCHANGED <<receiving, request, cascade>>
    BY <2>3, SwitchedSame
  <2>4. CASE RequestNormal
    BY <2>4, SwitchedNormal
  <2> QED BY <2>1, <2>2, <2>3, <2>4 DEF FeedLine, Abort
<1>2. CASE ~receiving
  <2>1. UNCHANGED <<receiving, request, cascade>>
    BY <1>2 DEF FeedChar
  <2> QED BY <2>1, SwitchedSame
<1> QED BY <1>1, <1>2

LEMMA NormalLineSwitched ==
  ASSUME CascadeOK, Switched, todo = "none", pc # "load", pc' = pc,
         NEW p, NEW kind, NormalLine(p, kind), request' = request
  PROVE  Switched'
<1>1. CASE StartFromHeader
  <2>1. CASE MayStart
    <3>1. RequestBypass(FALSE) /\ receiving' = TRUE
      BY <1>1, <2>1 DEF StartFromHeader
    <3> QED BY <3>1, SwitchedBypass
  <2>2. CASE ~MayStart
    <3>1. receiving' = receiving /\ UNCHANGED cascade
      BY <1>1, <2>2 DEF StartFromHeader, transfer
    <3> QED BY <3>1, SwitchedSame
  <2> QED BY <2>1, <2>2
<1>2. CASE Command /\ UNCHANGED transfer
  <2>1. receiving' = receiving
    BY <1>2 DEF transfer
  <2>2. UNCHANGED cascade \/ RequestBypass(TRUE) \/ RequestNormal
    BY <1>2 DEF Command
  <2> QED BY <2>1, <2>2, SwitchedSame, SwitchedBypass, SwitchedNormal
<1>3. CASE UNCHANGED <<transfer, cascade>>
  <2>1. receiving' = receiving
    BY <1>3 DEF transfer
  <2> QED BY <1>3, <2>1, SwitchedSame
<1> QED BY <1>1, <1>2, <1>3 DEF NormalLine

\* Every step keeps the two stores in order and the bypass owned.
LEMMA SwitchedStep ==
  ASSUME CascadeOK, Handover, Switched, [Next]_vars
  PROVE  Switched'
<1>1. CASE SecondStore
  <2>1. UNCHANGED <<user, receiving, request, pc>> /\ todo # "none" /\ todo' = "none"
    BY <1>1 DEF SecondStore, transfer, applying
  <2>2. pc # "load"
    BY <2>1 DEF Switched
  <2>3. CASE todo = "normal"
    <3>1. pstate' = "normal" /\ proc' = "active"
      BY <1>1, <2>3 DEF SecondStore, Switched
    <3> QED BY <2>1, <2>2, <3>1 DEF Switched, BypassIsOwned
  <2>4. CASE todo = "bypass"
    <3>1. pstate' = "requested" /\ proc' = "bypass"
      BY <1>1, <2>4 DEF SecondStore, Switched
    <3> QED BY <2>1, <2>2, <2>4, <3>1 DEF Switched, BypassIsOwned
  <2> QED BY <2>1, <2>3, <2>4 DEF CascadeOK
<1>2. CASE ReadUart1
  <2>1. pc = "rx1" /\ todo = "none" /\ pc' = pc
    BY <1>2 DEF ReadUart1, AtLines
  <2>2. CASE UNCHANGED <<transfer, applying, cascade>>
    BY <2>1, <2>2, SwitchedSame DEF transfer, applying
  <2>3. CASE FeedChar(Head(rx))
    BY <2>1, <2>3, FeedCharSwitched
  <2>4. CASE NormalLine(1, Head(rx).kind) /\ UNCHANGED applying
    BY <2>1, <2>4, NormalLineSwitched DEF applying
  <2> QED BY <1>2, <2>2, <2>3, <2>4 DEF ReadUart1
<1>3. CASE LeaveUart1
  BY <1>3, SwitchedSame DEF LeaveUart1, transfer, applying
<1>4. CASE ReadUart2
  <2>1. pc = "rx2" /\ todo = "none" /\ UNCHANGED <<pc, request>>
    BY <1>4 DEF ReadUart2, AtLines, applying
  <2>2. CASE UNCHANGED <<transfer, cascade>>
    BY <2>1, <2>2, SwitchedSame DEF transfer
  <2>3. CASE \E kind \in Kinds : NormalLine(2, kind)
    BY <2>1, <2>3, NormalLineSwitched
  <2> QED BY <1>4, <2>2, <2>3 DEF ReadUart2
<1>5. CASE LeaveUart2
  BY <1>5, SwitchedSame DEF LeaveUart2, transfer, applying
<1>6. CASE Watchdog
  <2>1. todo = "none" /\ pc' = "apply" /\ request' = request
    BY <1>6 DEF Watchdog, AtLines, applying
  <2>2. RequestNormal \/ UNCHANGED <<receiving, cascade>>
    BY <1>6 DEF Watchdog, Abort
  <2> QED BY <2>1, <2>2, SwitchedSame, SwitchedNormal
<1>7. CASE Apply
  <2>1. todo = "none" /\ receiving' = receiving
    BY <1>7 DEF Apply, ApplyIdle, ApplyWait, ApplyUnacknowledged, ApplyCopy,
       Loaded, Restore, transfer, AtLines
  <2>2. CASE ApplyIdle
    <3>1. pc' = "end" /\ request' = request
      BY <2>2 DEF ApplyIdle
    <3>2. (request /\ RequestBypass(FALSE)) \/ UNCHANGED cascade
      BY <2>2 DEF ApplyIdle
    <3> QED BY <2>1, <3>1, <3>2, SwitchedSame, SwitchedBypass
  <2>3. CASE ApplyWait
    BY <2>1, <2>3, SwitchedSame DEF ApplyWait
  <2>4. CASE ApplyUnacknowledged
    <3>1. pc' = "end"
      BY <2>4 DEF ApplyUnacknowledged
    <3>2. CASE ConfirmBypassStopped /\ UNCHANGED <<request, proc, todo, user>>
      BY <2>1, <3>1, <3>2 DEF ConfirmBypassStopped, Switched, BypassIsOwned
    <3>3. CASE RequestNormal
      BY <2>1, <3>1, <3>3, SwitchedNormal
    <3>4. CASE UNCHANGED <<request, cascade>>
      BY <2>1, <3>1, <3>4, SwitchedSame
    <3> QED BY <2>4, <3>2, <3>3, <3>4 DEF ApplyUnacknowledged
  <2>5. CASE ApplyCopy
    <3>1. pc' = "load" => pstate = "active"
      BY <2>5 DEF ApplyCopy
    <3>2. UNCHANGED <<proc, pstate, todo, user, request>>
      BY <2>5 DEF ApplyCopy, cascade, applying
    <3> QED BY <2>1, <3>1, <3>2 DEF Switched, BypassIsOwned
  <2>6. CASE Loaded
    BY <2>1, <2>6, SwitchedSame DEF Loaded, applying
  <2>7. CASE Restore
    BY <2>1, <2>7, SwitchedNormal DEF Restore
  <2> QED BY <1>7, <2>2, <2>3, <2>4, <2>5, <2>6, <2>7 DEF Apply
<1>8. CASE EndPass
  BY <1>8, SwitchedSame DEF EndPass, transfer, applying
<1>9. CASE Receive
  BY <1>9, SwitchedSame DEF Receive, transfer, applying
<1>10. CASE AudioBlock
  <2>1. /\ proc = "bypass" /\ pstate' = "active"
        /\ UNCHANGED <<proc, todo, user, receiving, request, pc>>
    BY <1>10 DEF AudioBlock, transfer, applying
  <2>2. todo = "none"
    BY <2>1 DEF Switched, CascadeOK
  <2> QED BY <2>1, <2>2 DEF Switched, BypassIsOwned
<1>11. CASE TwoSeconds
  BY <1>11, SwitchedSame DEF TwoSeconds, applying
<1>12. CASE AckTime
  BY <1>12, SwitchedSame DEF AckTime, transfer
<1>13. CASE Quiet2Time
  BY <1>13, SwitchedSame DEF Quiet2Time, transfer, applying
<1>14. CASE UNCHANGED vars
  BY <1>14, SwitchedSame DEF vars, transfer, applying
<1> QED BY <1>1, <1>2, <1>3, <1>4, <1>5, <1>6, <1>7, <1>8, <1>9, <1>10, <1>11,
           <1>12, <1>13, <1>14 DEF Next, Main

-----------------------------------------------------------------------------
(* What the fault counter still stands for.                                *)

LEMMA WorseClean ==
  ASSUME NEW a, NEW b, a # "during", b # "during"
  PROVE  Worse(a, b) # "during"
BY DEF Worse

\* A line is taken out of the ring.
LEMMA CleanTail ==
  ASSUME UartOK, rx # <<>>, rx' \in {<<>>, Tail(rx)}, gap' = gap, CleanBehind
  PROVE  /\ CleanBehind'
         /\ \A k \in 1..Len(rx') : rx'[k].hurt # "during"
         /\ gap' # "during"
<1>1. gap # "during"
  BY DEF CleanBehind
<1>2. CASE rx' = <<>>
  <2>1. Len(rx') = 0
    BY <1>2
  <2> QED BY <1>1, <1>2, <2>1 DEF CleanBehind
<1>3. CASE rx' = Tail(rx)
  <2>1. \A k \in 1..Len(rx') : rx'[k].hurt # "during"
    <3>1. \A k \in 1..Len(Tail(rx)) : k + 1 \in 2..Len(rx) /\ Tail(rx)[k] = rx[k + 1]
      BY TailLines DEF UartOK
    <3>2. \A k \in 2..Len(rx) : rx[k].hurt # "during"
      BY DEF CleanBehind
    <3> QED BY <1>3, <3>1, <3>2
  <2>2. \A k \in 2..Len(rx') : k \in 1..Len(rx')
    OBVIOUS
  <2> QED BY <1>1, <2>1, <2>2 DEF CleanBehind
<1> QED BY <1>2, <1>3

LEMMA CleanHead ==
  ASSUME UartOK, rx # <<>>, CleanAll
  PROVE  Head(rx).hurt # "during" /\ CleanBehind
<1>1. Head(rx) = rx[1] /\ 1 \in 1..Len(rx) /\ \A k \in 2..Len(rx) : k \in 1..Len(rx)
  BY TailLines DEF UartOK
<1> QED BY <1>1 DEF CleanAll, CleanBehind

\* A line is put into the ring: it carries what was lost before it.
LEMMA CleanAppend ==
  ASSUME UartOK, NEW l \in Lines, rx' = Append(rx, l), gap' # "during"
  PROVE  /\ CleanBehind /\ (rx # <<>> => l.hurt # "during") => CleanBehind'
         /\ (\A k \in 1..Len(rx) : rx[k].hurt # "during") /\ l.hurt # "during"
               => \A k \in 1..Len(rx') : rx'[k].hurt # "during"
<1>1. /\ Len(rx') = Len(rx) + 1 /\ Len(rx) \in Nat
      /\ \A k \in 1..Len(rx) : rx'[k] = rx[k]
      /\ rx'[Len(rx) + 1] = l
  BY AppendLines DEF UartOK
<1>2. \A k \in 1..Len(rx') : k \in 1..Len(rx) \/ k = Len(rx) + 1
  BY <1>1
<1>3. ASSUME CleanBehind, rx # <<>> => l.hurt # "during"
      PROVE  CleanBehind'
  <2>1. ASSUME NEW k \in 2..Len(rx') PROVE rx'[k].hurt # "during"
    <3>1. k \in 2..Len(rx) \/ (k = Len(rx) + 1 /\ Len(rx) # 0)
      BY <1>1
    <3>2. CASE k \in 2..Len(rx)
      <4>1. k \in 1..Len(rx)
        BY <1>1, <3>2
      <4>2. rx'[k] = rx[k] /\ rx[k].hurt # "during"
        BY <1>1, <1>3, <3>2, <4>1 DEF CleanBehind
      <4> QED BY <4>2
    <3>3. CASE k = Len(rx) + 1 /\ Len(rx) # 0
      <4>1. rx # <<>>
        BY <3>3
      <4> QED BY <1>1, <1>3, <3>3, <4>1
    <3> QED BY <3>1, <3>2, <3>3
  <2> QED BY <2>1 DEF CleanBehind
<1>4. ASSUME \A k \in 1..Len(rx) : rx[k].hurt # "during", l.hurt # "during"
      PROVE  \A k \in 1..Len(rx') : rx'[k].hurt # "during"
  BY <1>1, <1>2, <1>4
<1> QED BY <1>3, <1>4

\* Nothing happens to the ring.
LEMMA CountedSame ==
  ASSUME Counted, UNCHANGED <<rx, gap>>, UNCHANGED <<faulty, spoiled>>,
         receiving' => receiving,
         pc' = "rx2" /\ ~receiving' => pc = "rx2" /\ ~receiving,
         pc' = "apply" /\ receiving' => pc = "apply"
  PROVE  Counted'
<1>1. CleanBehind => CleanBehind'
  BY DEF CleanBehind
<1>2. CleanAll => CleanAll'
  BY DEF CleanAll
<1> QED BY <1>1, <1>2 DEF Counted, HurtIsCaught

LEMMA ReceiveCounted ==
  ASSUME UartOK, Counted, Receive
  PROVE  Counted'
<1>0. UNCHANGED <<receiving, spoiled, pc>>
  BY DEF Receive, transfer
<1>1. ASSUME NEW k \in Kinds, NEW v \in Values, Arrive(k, v)
      PROVE  Counted'
  <2>. DEFINE l == [kind |-> k, value |-> v, hurt |-> gap]
  <2>1. l \in Lines /\ l.hurt = gap
    BY DEF Lines, UartOK
  <2>2. rx' = Append(rx, l) /\ gap' = "no" /\ faulty' = faulty
    BY <1>1 DEF Arrive
  <2>. HIDE DEF l
  <2>3. CleanBehind => CleanBehind'
    BY <2>1, <2>2, CleanAppend DEF CleanBehind
  <2>4. CleanAll => CleanAll'
    BY <1>0, <2>1, <2>2, CleanAppend DEF CleanAll
  <2> QED BY <1>0, <2>2, <2>3, <2>4 DEF Counted, HurtIsCaught
<1>2. ASSUME NEW k \in Kinds, NEW v \in Values, ArriveHurt(k, v)
      PROVE  Counted'
  <2>1. faulty' = TRUE
    BY <1>2 DEF ArriveHurt
  <2>2. ASSUME ~receiving, gap # "during" PROVE Worse(gap, Now) # "during"
    BY <2>2 DEF Worse, Now
  <2>3. ASSUME ~receiving, CleanBehind PROVE CleanBehind'
    <3>1. CASE gap' = Worse(gap, Now) /\ UNCHANGED rx
      BY <2>2, <2>3, <3>1 DEF CleanBehind
    <3>2. CASE /\ rx' = Append(rx, [kind |-> k, value |-> v, hurt |-> Worse(gap, Now)])
               /\ gap' = "no"
      <4>. DEFINE l == [kind |-> k, value |-> v, hurt |-> Worse(gap, Now)]
      <4>1. l \in Lines /\ l.hurt = Worse(gap, Now)
        BY DEF Lines, Worse, Damage
      <4>2. rx' = Append(rx, l)
        BY <3>2
      <4>3. rx # <<>> => gap # "during"
        BY <2>3 DEF CleanBehind
      <4>. HIDE DEF l
      <4> QED BY <2>2, <2>3, <3>2, <4>1, <4>2, <4>3, CleanAppend
    <3> QED BY <1>2, <3>1, <3>2 DEF ArriveHurt
  <2> QED BY <1>0, <2>1, <2>3 DEF Counted, HurtIsCaught
<1>3. Plain \in Values /\ "row" \in Kinds /\ "text" \in Kinds
      /\ Kinds \ {"row"} \subseteq Kinds
  BY PlainIsValue DEF Kinds
<1> QED BY <1>1, <1>2, <1>3 DEF Receive

LEMMA ReadUart1Counted ==
  ASSUME UartOK, Counted, ReadUart1
  PROVE  Counted'
<1>0. /\ rx # <<>> /\ UNCHANGED <<faulty, gap, pc>> /\ pc = "rx1"
  BY DEF ReadUart1, AtLines
<1>1. rx' \in {<<>>, Tail(rx)}
  <2>1. CASE FeedChar(Head(rx))
    BY <2>1 DEF FeedChar, FeedLine, Commit
  <2> QED BY <2>1 DEF ReadUart1, Flushes
<1>2. /\ ~faulty => CleanBehind'
      /\ ~faulty => \A k \in 1..Len(rx') : rx'[k].hurt # "during"
      /\ ~faulty => gap' # "during"
  BY <1>0, <1>1, CleanTail DEF Counted
<1>3. ASSUME ~faulty, receiving' PROVE spoiled' # "during"
  <2>1. receiving => spoiled # "during" /\ Head(rx).hurt # "during"
    BY <1>0, <1>3, CleanHead DEF Counted, CleanAll
  <2>2. CASE UNCHANGED transfer
    BY <1>3, <2>1, <2>2 DEF transfer
  <2>3. CASE FeedChar(Head(rx))
    <3>1. CASE receiving
      BY <2>1, <2>3, <3>1, WorseClean DEF FeedChar
    <3>2. CASE ~receiving
      BY <1>3, <2>3, <3>2 DEF FeedChar
    <3> QED BY <3>1, <3>2
  <2>4. CASE StartFromHeader
    BY <1>3, <2>2, <2>4 DEF StartFromHeader
  <2> QED BY <2>2, <2>3, <2>4 DEF ReadUart1, NormalLine
<1> QED BY <1>0, <1>2, <1>3 DEF Counted, CleanAll, HurtIsCaught

\* Every step keeps the counter's meaning.
LEMMA CountedStep ==
  ASSUME UartOK, TransferOK, Counted, [Next]_vars
  PROVE  Counted'
<1>1. CASE SecondStore
  BY <1>1, CountedSame DEF SecondStore, uart, transfer
<1>2. CASE ReadUart1
  BY <1>2, ReadUart1Counted
<1>3. CASE LeaveUart1
  <2>1. /\ rx' = <<>> /\ rx = <<>> /\ pc' = "rx2"
        /\ UNCHANGED <<faulty, gap, receiving, spoiled>>
    BY <1>3 DEF LeaveUart1, uart, transfer
  <2>2. Len(rx') = 0
    BY <2>1
  <2>3. CleanBehind'
    BY <2>1, <2>2 DEF CleanBehind
  <2>4. CleanAll => CleanAll'
    BY <2>1 DEF CleanAll
  <2> QED BY <2>1, <2>3, <2>4 DEF Counted, HurtIsCaught
<1>4. CASE ReadUart2
  <2>1. UNCHANGED <<gap, faulty, pc>> /\ pc = "rx2"
    BY <1>4 DEF ReadUart2, AtLines
  <2>2. UNCHANGED <<receiving, spoiled>>
    <3>1. CASE UNCHANGED transfer
      BY <3>1 DEF transfer
    <3>2. ASSUME NEW kind \in Kinds, NormalLine(2, kind)
          PROVE  UNCHANGED transfer
      BY <3>2 DEF NormalLine
    <3> QED BY <1>4, <3>1, <3>2 DEF ReadUart2
  <2>3. CASE UNCHANGED rx
    BY <2>1, <2>2, <2>3, CountedSame
  <2>4. CASE rx' = <<>>
    <3>1. Len(rx') = 0
      BY <2>4
    <3>2. CleanBehind' /\ (CleanAll => CleanAll')
      BY <2>1, <2>2, <2>4, <3>1 DEF CleanBehind, CleanAll
    <3> QED BY <2>1, <2>2, <3>2 DEF Counted, HurtIsCaught
  <2> QED BY <1>4, <2>3, <2>4 DEF ReadUart2, Flushes
<1>5. CASE LeaveUart2
  <2>1. /\ pc = "rx2" /\ pc' = "watch" /\ faulty' = (faulty /\ ~Idle)
        /\ UNCHANGED <<rx, gap, receiving, spoiled>>
    BY <1>5 DEF LeaveUart2, AtLines, transfer
  <2>2. ~faulty' => CleanBehind
    BY <2>1 DEF Counted, Idle, InTransfer
  <2>3. ~faulty' /\ receiving' => CleanAll
    BY <2>1 DEF Counted, Idle, InTransfer
  <2>4. (CleanBehind => CleanBehind') /\ (CleanAll => CleanAll')
    BY <2>1 DEF CleanBehind, CleanAll
  <2> QED BY <2>1, <2>2, <2>3, <2>4 DEF Counted, HurtIsCaught
<1>6. CASE Watchdog
  <2>1. UNCHANGED <<rx, gap, faulty, spoiled>> /\ pc' = "apply"
    BY <1>6 DEF Watchdog, uart
  <2>2. receiving' => receiving /\ ~faulty
    <3>1. CASE InTransfer
      BY <1>6, <3>1 DEF Watchdog, Abort
    <3>2. CASE ~InTransfer
      BY <1>6, <3>2 DEF Watchdog, InTransfer
    <3> QED BY <3>1, <3>2
  <2>3. (CleanBehind => CleanBehind') /\ (CleanAll => CleanAll')
    BY <2>1 DEF CleanBehind, CleanAll
  <2> QED BY <2>1, <2>2, <2>3 DEF Counted, HurtIsCaught, CleanAll
<1>7. CASE Apply
  <2>1. UNCHANGED <<rx, gap, faulty, spoiled, receiving>>
    BY <1>7 DEF Apply, ApplyIdle, ApplyWait, ApplyUnacknowledged, ApplyCopy,
       Loaded, Restore, transfer, uart
  <2>2. pc' \in {"end", "ack", "load", "restore"}
    BY <1>7 DEF Apply, ApplyIdle, ApplyWait, ApplyUnacknowledged, ApplyCopy,
       Loaded, Restore
  <2> QED BY <2>1, <2>2, CountedSame
<1>8. CASE EndPass
  BY <1>8, CountedSame DEF EndPass, uart, transfer
<1>9. CASE Receive
  BY <1>9, ReceiveCounted
<1>10. CASE AudioBlock
  BY <1>10, CountedSame DEF AudioBlock, uart, transfer
<1>11. CASE TwoSeconds
  BY <1>11, CountedSame DEF TwoSeconds, uart
<1>12. CASE AckTime
  BY <1>12, CountedSame DEF AckTime, uart, transfer
<1>13. CASE Quiet2Time
  BY <1>13, CountedSame DEF Quiet2Time, uart, transfer
<1>14. CASE UNCHANGED vars
  BY <1>14, CountedSame DEF vars, uart, transfer
<1> QED BY <1>1, <1>2, <1>3, <1>4, <1>5, <1>6, <1>7, <1>8, <1>9, <1>10, <1>11,
           <1>12, <1>13, <1>14 DEF Next, Main

-----------------------------------------------------------------------------
(* The theorems.                                                           *)

\* The strengthening is inductive: no step of the receive interrupt, the two
\* ports, the watchdog, the apply steps or the audio interrupt leaves it.
THEOREM UploadInvariant == Spec => []Inv
<1>1. Inv /\ [Next]_vars => Inv'
  <2>. SUFFICES ASSUME Inv, [Next]_vars PROVE Inv'
    OBVIOUS
  <2>1. UartOK /\ TransferOK /\ CascadeOK /\ TypeOK
    BY TypeParts DEF Inv
  <2>2. TypeOK' /\ Handover' /\ Switched' /\ Counted'
    BY <2>1, TypeStep, HandoverStep, SwitchedStep, CountedStep DEF Inv
  <2> QED BY <2>2 DEF Inv
<1> QED BY <1>1, InitInv, PTL DEF Spec

\* The variables keep their types and bounds.
THEOREM UploadTypes == Spec => []TypeOK
<1>1. Inv => TypeOK
  BY DEF Inv
<1> QED BY <1>1, UploadInvariant, PTL

\* The filters never run on a table that is being rewritten, whatever is typed,
\* stopped or acknowledged late between the request and the copy.
THEOREM UploadUnheard == Spec => []LoadUnheard
<1>1. Inv => LoadUnheard
  BY DEF Inv, Switched, LoadUnheard
<1> QED BY <1>1, UploadInvariant, PTL

\* No way an upload ends leaves the filters bypassed for nobody.
THEOREM UploadOwnsBypass == Spec => []BypassIsOwned
<1>1. Inv => BypassIsOwned
  BY DEF Inv, Switched
<1> QED BY <1>1, UploadInvariant, PTL

\* Behind the watchdog an open transfer has accepted nothing hurt since it
\* began, however arrivals, damage and the moving baseline interleave.
THEOREM UploadCatchesHurt == Spec => []HurtIsCaught
<1>1. Inv => HurtIsCaught
  BY DEF Inv, Counted
<1> QED BY <1>1, UploadInvariant, PTL

\* The staging rows that were handed over are not written until they were
\* applied or given up.
THEOREM UploadHoldsStaging == Spec => StagingIsHeld
<1>1. Inv /\ [Next]_vars => [request /\ request' => staging' = staging]_vars
  BY HandoverStep DEF Inv
<1> QED BY <1>1, UploadInvariant, PTL DEF Spec, StagingIsHeld

-----------------------------------------------------------------------------
(* The clock measurement: indices that run freely, and the slots they       *)
(* stand for.                                                              *)

\* A number is some turns and its remainder.
LEMMA Turns ==
  ASSUME NEW p \in Nat \ {0}, NEW a \in Nat
  PROVE  \E q \in Int, m \in 0..p - 1 : a % p = m /\ a = q * p + m
<1>. DEFINE q == a \div p
            m == a % p
<1>1. q \in Int /\ m \in 0..p - 1
  OBVIOUS
<1>2. a = p * q + m
  BY Z3
<1>. HIDE DEF q
<1>3. a = q * p + m
  BY <1>1, <1>2
<1>. QED BY <1>1, <1>3

\* Turns do not change a remainder.
LEMMA AfterTurns ==
  ASSUME NEW p \in Nat \ {0}, NEW c \in Int, NEW m \in 0..p - 1
  PROVE  (c * p + m) % p = m
<1>1. \A o \in Nat \ {0} : m \in 0..o - 1 => (c * o + m) % o = m
  OBVIOUS
<1>. QED BY <1>1

\* Numbers less than p apart have different remainders.
LEMMA Distinct ==
  ASSUME NEW p \in Nat \ {0}, NEW a \in Nat, NEW b \in Nat, a < b, b < a + p
  PROVE  a % p # b % p
<1>. SUFFICES ASSUME a % p = b % p PROVE FALSE
  OBVIOUS
<1>. PICK q \in Int, m \in 0..p - 1 : a % p = m /\ a = q * p + m
  BY Turns
<1>. PICK r \in Int, o \in 0..p - 1 : b % p = o /\ b = r * p + o
  BY Turns
<1>1. b - a = (r - q) * p
  OBVIOUS
<1>2. r - q < 1
  <2>1. r - q >= 1 => (r - q) * p >= p
    OBVIOUS
  <2>. QED BY <1>1, <2>1
<1>3. r - q > 0
  <2>1. r - q <= 0 => (r - q) * p <= 0
    OBVIOUS
  <2>. QED BY <1>1, <2>1
<1>. QED BY <1>2, <1>3

Indices == 0..Modulus - 1
Places == 0..Length - 1

LEMMA Sizes == Length \in Nat \ {0} /\ Modulus \in Nat \ {0} /\ Length < Modulus
BY QueueAssumption

\* The index behind index i.
LEMMA NextIndex ==
  ASSUME NEW i \in Indices
  PROVE  (i + 1) % Modulus = IF i + 1 = Modulus THEN 0 ELSE i + 1
<1>1. i + 1 # Modulus => (i + 1) % Modulus = i + 1
  BY Sizes, Z3 DEF Indices
<1>2. Modulus % Modulus = 0
  BY Sizes, Z3
<1>. QED BY <1>1, <1>2

\* How far index j is ahead of index i.
Apart(i, j) == (j + Modulus - i) % Modulus

LEMMA ApartIs ==
  ASSUME NEW i \in Indices, NEW j \in Indices
  PROVE  Apart(i, j) = IF i <= j THEN j - i ELSE j + Modulus - i
<1>1. CASE i <= j
  <2>1. j + Modulus - i = 1 * Modulus + (j - i) /\ j - i \in Indices
    BY <1>1, Sizes DEF Indices
  <2>. QED BY <1>1, <2>1, AfterTurns, Sizes DEF Apart, Indices
<1>2. CASE i > j
  <2>1. j + Modulus - i \in Indices
    BY <1>2, Sizes DEF Indices
  <2>2. \A x \in Indices : x % Modulus = x
    BY Sizes, Z3 DEF Indices
  <2>. QED BY <1>2, <2>1, <2>2 DEF Apart, Indices
<1>. QED BY <1>1, <1>2 DEF Indices

LEMMA ApartInRange ==
  ASSUME NEW i \in Indices, NEW j \in Indices
  PROVE  /\ Apart(i, j) \in Indices /\ Apart(i, j) \in Nat
         /\ Apart(i, j) = 0 <=> i = j
         /\ (i + 1) % Modulus \in Indices
BY ApartIs, NextIndex, Sizes, SMTT(30) DEF Indices

\* The writer moves away from the reader, the reader closes up.
LEMMA ApartAfterPut ==
  ASSUME NEW i \in Indices, NEW j \in Indices, Apart(i, j) < Length
  PROVE  Apart(i, (j + 1) % Modulus) = Apart(i, j) + 1
<1>. DEFINE o == (j + 1) % Modulus
<1>1. o \in Indices /\ o = IF j + 1 = Modulus THEN 0 ELSE j + 1
  BY NextIndex, Sizes DEF Indices
<1>. HIDE DEF o
<1>2. Apart(i, o) = IF i <= o THEN o - i ELSE o + Modulus - i
  BY <1>1, ApartIs
<1>3. Apart(i, j) = IF i <= j THEN j - i ELSE j + Modulus - i
  BY ApartIs
<1>4. Apart(i, o) = Apart(i, j) + 1
  BY <1>1, <1>2, <1>3, Sizes, Z3 DEF Indices
<1>. QED BY <1>4 DEF o

LEMMA ApartAfterGet ==
  ASSUME NEW i \in Indices, NEW j \in Indices, i # j
  PROVE  Apart((i + 1) % Modulus, j) = Apart(i, j) - 1
<1>. DEFINE o == (i + 1) % Modulus
<1>1. o \in Indices /\ o = IF i + 1 = Modulus THEN 0 ELSE i + 1
  BY NextIndex, Sizes DEF Indices
<1>. HIDE DEF o
<1>2. Apart(o, j) = IF o <= j THEN j - o ELSE j + Modulus - o
  BY <1>1, ApartIs
<1>3. Apart(i, j) = IF i <= j THEN j - i ELSE j + Modulus - i
  BY ApartIs
<1>4. Apart(o, j) = Apart(i, j) - 1
  BY <1>1, <1>2, <1>3, Sizes, Z3 DEF Indices
<1>. QED BY <1>4 DEF o

\* The queue's length divides the turn of the indices, so a turn of them comes
\* back to the same slot.
LEMMA SlotAfterTurn ==
  ASSUME NEW x \in Nat
  PROVE  (x + Modulus) % Length = x % Length
<1>1. PICK c \in Int : Modulus = c * Length
  <2>1. Modulus \in Nat /\ Modulus % Length = 0
    BY QueueAssumption
  <2>2. PICK q \in Int, m \in 0..Length - 1 : Modulus % Length = m /\ Modulus = q * Length + m
    BY <2>1, Sizes, Turns
  <2>3. Modulus = q * Length
    BY <2>1, <2>2, Sizes
  <2>. QED BY <2>3
<1>2. PICK q \in Int, m \in 0..Length - 1 : x % Length = m /\ x = q * Length + m
  BY Sizes, Turns
<1>3. x + Modulus = (q + c) * Length + m
  BY <1>1, <1>2, Sizes
<1>4. ((q + c) * Length + m) % Length = m
  BY Sizes, AfterTurns
<1>. QED BY <1>2, <1>3, <1>4

LEMMA SlotBehindNext ==
  ASSUME NEW i \in Indices, NEW k \in Nat
  PROVE  (((i + 1) % Modulus) + k) % Length = (i + 1 + k) % Length
<1>1. CASE i + 1 = Modulus
  <2>1. (k + Modulus) % Length = k % Length
    BY SlotAfterTurn
  <2>2. ((i + 1) % Modulus) + k = k /\ i + 1 + k = k + Modulus
    BY <1>1, NextIndex, Sizes DEF Indices
  <2>. QED BY <2>1, <2>2
<1>2. CASE i + 1 # Modulus
  BY <1>2, NextIndex
<1>. QED BY <1>1, <1>2

LEMMA SlotOfWriter ==
  ASSUME NEW i \in Indices, NEW j \in Indices
  PROVE  (i + Apart(i, j)) % Length = j % Length
<1>1. CASE i <= j
  <2>1. i + Apart(i, j) = j
    BY <1>1, ApartIs, Sizes DEF Indices
  <2>. QED BY <2>1
<1>2. CASE i > j
  <2>1. i + Apart(i, j) = j + Modulus
    BY <1>2, ApartIs, Sizes DEF Indices
  <2>2. j \in Nat
    BY Sizes DEF Indices
  <2>3. (j + Modulus) % Length = j % Length
    BY <2>2, SlotAfterTurn
  <2>. QED BY <2>1, <2>3
<1>. QED BY <1>1, <1>2, Sizes DEF Indices

-----------------------------------------------------------------------------
(* What a queue holds.                                                     *)

\* The items of the slots f between the indices i and j, oldest first.
Held(f, i, j) == [k \in 1..Apart(i, j) |-> f[(i + k - 1) % Length]]

LEMMA ContentsAreHeld ==
  \A d \in Detectors : /\ Used(d) = Apart(read[d], write[d])
                       /\ Contents(d) = Held(slots[d], read[d], write[d])
BY DEF Used, Contents, Held, Apart

LEMMA HeldType ==
  ASSUME NEW i \in Indices, NEW j \in Indices, NEW f \in [Places -> Periods]
  PROVE  /\ Held(f, i, j) \in Seq(Periods) /\ Len(Held(f, i, j)) = Apart(i, j)
         /\ \A k \in 1..Apart(i, j) :
              Held(f, i, j)[k] = f[(i + k - 1) % Length] /\ Held(f, i, j)[k] \in Periods
<1>1. Apart(i, j) \in Nat
  BY ApartInRange
<1>2. \A k \in 1..Apart(i, j) : (i + k - 1) % Length \in Places
  BY <1>1, Sizes DEF Places, Indices
<1>. QED BY <1>1, <1>2 DEF Held

LEMMA HeldNothing ==
  ASSUME NEW i \in Indices, NEW f
  PROVE  Held(f, i, i) = <<>>
<1>1. Apart(i, i) = 0
  BY ApartInRange
<1>. QED BY <1>1 DEF Held

\* The slot of index i, and the index behind it, as the provers are given them.
Slot(i) == i % Length
NextOf(i) == (i + 1) % Modulus

\* An item more; the slot it goes to holds none that waits.
LEMMA HeldAfterPut ==
  ASSUME NEW i \in Indices, NEW j \in Indices, Apart(i, j) < Length,
         NEW f \in [Places -> Periods], NEW x \in Periods, NEW g \in [Places -> Periods],
         g[Slot(j)] = x, \A p \in Places : p # Slot(j) => g[p] = f[p]
  PROVE  Held(g, i, NextOf(j)) = Append(Held(f, i, j), x)
<1>. DEFINE o == NextOf(j)
            s == Held(f, i, j)
            l == Apart(i, j)
<1>1. l \in Nat /\ Apart(i, o) = l + 1 /\ o \in Indices
  BY ApartInRange, ApartAfterPut DEF NextOf
<1>2. Slot(j) \in Places
  BY Sizes DEF Indices, Places, Slot
<1>3. s \in Seq(Periods) /\ Len(s) = l
  BY HeldType
<1>4. \A k \in 1..l : s[k] = f[(i + k - 1) % Length]
  BY DEF Held
<1>5. /\ Append(s, x) \in Seq(Periods) /\ Len(Append(s, x)) = l + 1
      /\ \A k \in 1..l : Append(s, x)[k] = s[k]
      /\ Append(s, x)[l + 1] = x
  BY <1>3, AppendProperties
<1>6. /\ Held(g, i, o) \in Seq(Periods) /\ Len(Held(g, i, o)) = l + 1
  <2>. HIDE DEF o, l
  <2>. QED BY <1>1, HeldType
<1>7. \A k \in 1..(l + 1) : Held(g, i, o)[k] = g[(i + k - 1) % Length]
  BY <1>1 DEF Held
<1>8. ASSUME NEW k \in 1..(l + 1)
      PROVE  g[(i + k - 1) % Length] = IF k = l + 1 THEN x ELSE s[k]
  <2>. DEFINE p == (i + k - 1) % Length
  <2>0. i \in Nat /\ i + k - 1 \in Nat
    BY <1>1, Sizes DEF Indices
  <2>1. p \in Places
    BY <2>0, Sizes DEF Places
  <2>2. (i + l) % Length = Slot(j)
    BY SlotOfWriter DEF Slot
  <2>3. CASE k = l + 1
    <3>1. p = Slot(j)
      BY <1>1, <2>0, <2>2, <2>3
    <3>. QED BY <1>2, <2>3, <3>1
  <2>4. CASE k # l + 1
    <3>1. k \in 1..l /\ i + k - 1 < i + l /\ i + l < i + k - 1 + Length
      BY <1>1, <2>0, <2>4, Sizes
    <3>2. p # (i + l) % Length
      <4>. HIDE DEF l
      <4>1. i + l \in Nat
        BY <1>1, <2>0
      <4>. QED BY <2>0, <3>1, <4>1, Sizes, Distinct
    <3>3. g[p] = f[p]
      BY <2>1, <2>2, <3>2
    <3>. QED BY <1>4, <2>4, <3>1, <3>3
  <2>. QED BY <2>3, <2>4
<1>. HIDE DEF o, s, l
<1>9. Held(g, i, o) = Append(s, x)
  <2>1. ASSUME NEW k \in 1..(l + 1) PROVE Held(g, i, o)[k] = Append(s, x)[k]
    <3>1. CASE k = l + 1
      BY <1>5, <1>7, <1>8, <3>1
    <3>2. CASE k # l + 1
      <4>1. k \in 1..l
        BY <1>1, <3>2
      <4>. QED BY <1>5, <1>7, <1>8, <3>2, <4>1
    <3>. QED BY <3>1, <3>2
  <2>. QED BY <1>5, <1>6, <2>1, SeqEqual
<1>. QED BY <1>9 DEF o, s

\* An item less.
LEMMA HeldAfterGet ==
  ASSUME NEW i \in Indices, NEW j \in Indices, i # j,
         NEW f \in [Places -> Periods]
  PROVE  /\ Held(f, i, j) # <<>> /\ Head(Held(f, i, j)) = f[i % Length]
         /\ Held(f, (i + 1) % Modulus, j) = Tail(Held(f, i, j))
<1>. DEFINE o == (i + 1) % Modulus
            s == Held(f, i, j)
            l == Apart(i, j)
<1>1. l \in Nat \ {0} /\ Apart(o, j) = l - 1 /\ o \in Indices
  BY ApartInRange, ApartAfterGet
<1>2. s \in Seq(Periods) /\ Len(s) = l
  BY HeldType
<1>3. \A k \in 1..l : s[k] = f[(i + k - 1) % Length]
  BY DEF Held
<1>4. s # <<>> /\ Head(s) = f[i % Length]
  <2>1. s # <<>> /\ Head(s) = s[1] /\ 1 \in 1..l
    BY <1>1, <1>2
  <2>2. i + 1 - 1 = i
    BY Sizes DEF Indices
  <2>. QED BY <1>3, <2>1, <2>2
<1>5. /\ Tail(s) \in Seq(Periods) /\ Len(Tail(s)) = l - 1
      /\ \A k \in 1..(l - 1) : Tail(s)[k] = s[k + 1]
  BY <1>2, <1>4, HeadTailProperties
<1>6. Held(f, o, j) \in Seq(Periods) /\ Len(Held(f, o, j)) = l - 1
  BY <1>1, HeldType
<1>7. \A k \in 1..(l - 1) : Held(f, o, j)[k] = f[(o + k - 1) % Length]
  BY <1>1 DEF Held
<1>8. ASSUME NEW k \in 1..(l - 1)
      PROVE  f[(o + k - 1) % Length] = s[k + 1]
  <2>1. k - 1 \in Nat /\ k + 1 \in 1..l /\ i \in Nat /\ o \in Nat
    BY <1>1, Sizes DEF Indices
  <2>2. (o + (k - 1)) % Length = (i + 1 + (k - 1)) % Length
    BY <2>1, SlotBehindNext
  <2>3. o + (k - 1) = o + k - 1 /\ i + 1 + (k - 1) = i + (k + 1) - 1
    BY <2>1
  <2>4. s[k + 1] = f[(i + (k + 1) - 1) % Length]
    BY <1>3, <2>1
  <2>. QED BY <2>2, <2>3, <2>4
<1>. HIDE DEF o, s, l
<1>9. Held(f, o, j) = Tail(s)
  <2>1. \A k \in 1..(l - 1) : Held(f, o, j)[k] = Tail(s)[k]
    BY <1>5, <1>7, <1>8
  <2>. QED BY <1>5, <1>6, <2>1, SeqEqual
<1>. QED BY <1>4, <1>9 DEF o, s

-----------------------------------------------------------------------------
(* The inductive invariant.                                                *)

DrainSteps == {"begin", "enable", "seed", "look", "take"}
HookSteps == {"begin", "look", "take"}
ResetSteps == {"prev", "have", "latest", "off", "flush"}

\* Who is where: an interrupt's print never meets a drain of the main loop.
Programs ==
    /\ at["irq"] \in HookSteps \cup {"out"}
    /\ main \in {"idle", "restart"} => at["main"] \in HookSteps \cup {"out"}
    /\ main = "tick" => at["main"] \in DrainSteps
    /\ main = "reset" => at["main"] \in ResetSteps
    /\ at["irq"] # "out" => at["main"] \notin DrainSteps
    /\ \A c \in Contexts : at[c] = "out" => det[c] = "A"

\* The flag is set exactly while a print drains, and then both queues are on.
FlagHeld ==
    /\ inDrain <=> \/ at["irq"] # "out"
                   \/ main \in {"idle", "restart"} /\ at["main"] # "out"
    /\ inDrain => enabled = Detectors

\* Which queues are on while the main loop works on one of them.
Switches ==
    /\ at["main"] \in {"enable", "flush"} => det["main"] \notin enabled
    /\ at["main"] \in {"seed", "look", "take"} => det["main"] \in enabled
    /\ main = "reset" /\ det["main"] = "B" => "A" \notin enabled

Control == Programs /\ FlagHeld /\ Switches

\* The types but for the bound on what a queue holds.
Flat ==
    /\ n \in [Detectors -> Stamps] /\ since \in [Detectors -> Nat]
    /\ prev \in [Detectors -> Stamps] /\ latest \in [Detectors -> Periods]
    /\ have \subseteq Detectors /\ enabled \subseteq Detectors /\ armed \subseteq Detectors
    /\ slots \in [Detectors -> [Places -> Periods]]
    /\ write \in [Detectors -> Indices] /\ read \in [Detectors -> Indices]
    /\ ema \in [Detectors -> Seq(Periods)]
    /\ got \in [Detectors -> Periods]
    /\ hooked \in BOOLEAN /\ inDrain \in BOOLEAN /\ streaming \in BOOLEAN
    /\ main \in {"idle", "tick", "restart", "reset"}
    /\ at \in [Contexts -> {"out"} \cup DrainSteps \cup ResetSteps]
    /\ det \in [Contexts -> Detectors]
    /\ rd \in [Contexts -> Indices] /\ wr \in [Contexts -> Indices]
    /\ val \in [Contexts -> Periods]
    /\ restarts \in 0..MaxRestarts

\* A batch lies within what waits, begins with the oldest, and the period in hand
\* is still in its slot.
Batches == \A c \in Contexts :
    /\ at[c] \in {"look", "take"} =>
         rd[c] = read[det[c]] /\ Apart(rd[c], wr[c]) <= Used(det[c])
    /\ at[c] = "take" => rd[c] # wr[c] /\ val[c] = slots[det[c]][rd[c] % Length]

Bounded == \A d \in Detectors : Used(d) <= Length

\* A queue that is off is empty, and so is its average, but for the moment between
\* the two stores of the reset.
Flushing(d) == at["main"] = "flush" /\ det["main"] = d
Emptied == \A d \in Detectors :
    /\ d \notin enabled /\ ~Flushing(d) => ema[d] = <<>> /\ read[d] = write[d]
    /\ at["main"] = "seed" /\ det["main"] = d => ema[d] = <<>>

\* What was averaged and what waits to be.
Feed(d) == ema[d] \o Contents(d)

\* The stamps are of captures.
Clock == \A d \in Detectors :
    /\ n[d] <= MaxCaptures[d] /\ prev[d] <= n[d] /\ since[d] <= n[d] + 1
    /\ latest[d][2] <= n[d]

LEMMA StampIs ==
  /\ \A d \in Detectors : \A t \in 0..MaxCaptures[d] : t \in Stamps
  /\ Stamps \subseteq Nat
  /\ 0 \in Stamps /\ NoPeriod \in Periods
  /\ \A s, t \in Stamps : s < t => <<s, t>> \in Periods
  /\ \A p \in Periods : p[1] \in Nat /\ p[2] \in Nat
<1>1. MaxCaptures \in [Detectors -> Nat] /\ "A" \in Detectors
  BY QueueAssumption DEF Detectors
<1>2. Stamps \subseteq Nat
  BY <1>1 DEF Stamps
<1>3. \A d \in Detectors : \A t \in 0..MaxCaptures[d] : t \in Stamps
  BY DEF Stamps
<1>4. 0 \in Stamps
  BY <1>1, <1>3
<1>. QED BY <1>2, <1>3, <1>4 DEF Periods, NoPeriod

LEMMA TypeIs == PQTypeOK <=> Flat /\ Bounded
BY DEF PQTypeOK, Flat, Bounded, Indices, Places, DrainSteps, ResetSteps

-----------------------------------------------------------------------------
(* Control.                                                                *)

LEMMA ContextIs == /\ Contexts = {"main", "irq"} /\ "main" \in Contexts /\ "irq" \in Contexts
                   /\ Detectors = {"A", "B"}
BY DEF Contexts, Detectors

\* The end of one detector's part of a drain.
LEMMA OnwardControl ==
  ASSUME Flat, Control, NEW c \in Contexts, Step(c, "seed") \/ Step(c, "look"),
         Onward(c), UNCHANGED enabled
  PROVE  Control'
<1>. USE ContextIs
<1>1. CASE c = "irq"
  <2>1. CASE det[c] = "A"
    BY <1>1, <2>1 DEF Flat, Control, Programs, FlagHeld, Switches, Onward, Goto,
       Step, Runs, DrainSteps, HookSteps, ResetSteps
  <2>2. CASE det[c] # "A"
    <3>1. /\ at' = [at EXCEPT !["irq"] = "out"] /\ det' = [det EXCEPT !["irq"] = "A"]
          /\ inDrain' = FALSE /\ main' = main
      BY <1>1, <2>2 DEF Onward, Goto, ByHook
    <3>2. at["irq"] # "out"
      BY <1>1 DEF Step
    <3>. QED BY <3>1, <3>2 DEF Flat, Control, Programs, FlagHeld, Switches, DrainSteps,
            HookSteps, ResetSteps
  <2>. QED BY <2>1, <2>2
<1>2. CASE c = "main"
  <2>0. at["irq"] = "out"
    BY <1>2 DEF Step, Runs
  <2>1. CASE det[c] = "A"
    BY <1>2, <2>0, <2>1 DEF Flat, Control, Programs, FlagHeld, Switches, Onward, Goto,
       Step, Runs, DrainSteps, HookSteps, ResetSteps
  <2>2. CASE det[c] # "A"
    <3>1. /\ at' = [at EXCEPT !["main"] = "out"] /\ det' = [det EXCEPT !["main"] = "A"]
          /\ inDrain' = (inDrain /\ main = "tick")
          /\ main' = IF main # "tick" THEN main ELSE "idle"
      BY <1>2, <2>2 DEF Onward, Goto, ByHook
    <3>2. at["main"] \in DrainSteps
      BY <1>2 DEF Step, DrainSteps
    <3>3. inDrain' = FALSE
      BY <2>0, <3>1 DEF Control, FlagHeld, Flat
    <3>. QED BY <2>0, <3>1, <3>2, <3>3 DEF Flat, Control, Programs, FlagHeld, Switches,
            DrainSteps, HookSteps, ResetSteps
  <2>. QED BY <2>1, <2>2
<1>. QED BY <1>1, <1>2

\* A step of a drain to another of its steps.
LEMMA DrainControl ==
  ASSUME Flat, Control, NEW c \in Contexts,
         BootDiscard(c) \/ BootEnable(c) \/ Begin(c) \/ Look(c) \/ Take(c)
  PROVE  Control'
<1>. USE ContextIs
<1>1. CASE c = "irq"
  <2>1. CASE BootDiscard(c)
    BY <1>1, <2>1 DEF Flat, Control, Programs, FlagHeld, Switches, BootDiscard, Goto,
       Step, Runs, DrainSteps, HookSteps, ResetSteps
  <2>2. CASE BootEnable(c)
    BY <1>1, <2>2 DEF Flat, Control, Programs, FlagHeld, Switches, BootEnable, Goto,
       Step, Runs, DrainSteps, HookSteps, ResetSteps
  <2>3. CASE Begin(c)
    BY <1>1, <2>3 DEF Flat, Control, Programs, FlagHeld, Switches, Begin, Goto,
       Step, Runs, DrainSteps, HookSteps, ResetSteps
  <2>4. CASE Look(c)
    BY <1>1, <2>4 DEF Flat, Control, Programs, FlagHeld, Switches, Look, Goto,
       Step, Runs, DrainSteps, HookSteps, ResetSteps
  <2>5. CASE Take(c)
    BY <1>1, <2>5 DEF Flat, Control, Programs, FlagHeld, Switches, Take, Goto,
       Step, Runs, DrainSteps, HookSteps, ResetSteps
  <2>. QED BY <2>1, <2>2, <2>3, <2>4, <2>5
<1>2. CASE c = "main"
  <2>0. at["irq"] = "out"
    BY <1>2 DEF BootDiscard, BootEnable, Begin, Look, Take, Step, Runs
  <2>1. CASE BootDiscard(c)
    BY <1>2, <2>0, <2>1 DEF Flat, Control, Programs, FlagHeld, Switches, BootDiscard,
       Goto, Step, Runs, DrainSteps, HookSteps, ResetSteps
  <2>2. CASE BootEnable(c)
    BY <1>2, <2>0, <2>2 DEF Flat, Control, Programs, FlagHeld, Switches, BootEnable,
       Goto, Step, Runs, DrainSteps, HookSteps, ResetSteps
  <2>3. CASE Begin(c)
    BY <1>2, <2>0, <2>3 DEF Flat, Control, Programs, FlagHeld, Switches, Begin, Goto,
       Step, Runs, DrainSteps, HookSteps, ResetSteps
  <2>4. CASE Look(c)
    BY <1>2, <2>0, <2>4 DEF Flat, Control, Programs, FlagHeld, Switches, Look, Goto,
       Step, Runs, DrainSteps, HookSteps, ResetSteps
  <2>5. CASE Take(c)
    BY <1>2, <2>0, <2>5 DEF Flat, Control, Programs, FlagHeld, Switches, Take, Goto,
       Step, Runs, DrainSteps, HookSteps, ResetSteps
  <2>. QED BY <2>1, <2>2, <2>3, <2>4, <2>5
<1>. QED BY <1>1, <1>2

\* Prints and the tick begin a drain.
LEMMA BeginControl ==
  ASSUME ~PrintsDuringTick, Flat, Control, Tick \/ ConsolePrint \/ IrqPrint
  PROVE  Control'
<1>. USE ContextIs
<1>1. CASE Tick
  BY <1>1 DEF Flat, Control, Programs, FlagHeld, Switches, Tick, Goto, Step, Runs,
     DrainSteps, HookSteps, ResetSteps
<1>2. CASE ConsolePrint
  BY <1>2 DEF Flat, Control, Programs, FlagHeld, Switches, ConsolePrint, Hook, MayDrain,
     Goto, Runs, DrainSteps, HookSteps, ResetSteps
<1>3. CASE IrqPrint
  BY <1>3 DEF Flat, Control, Programs, FlagHeld, Switches, IrqPrint, Hook, MayDrain,
     Goto, Runs, DrainSteps, HookSteps, ResetSteps
<1>. QED BY <1>1, <1>2, <1>3

LEMMA RestartControl ==
  ASSUME Flat, Control, Retime \/ GiveUp \/ InitReset \/ Reset
  PROVE  Control'
<1>. USE ContextIs
<1>1. CASE Retime
  BY <1>1 DEF Flat, Control, Programs, FlagHeld, Switches, Retime, Step, Runs, locals,
     DrainSteps, HookSteps, ResetSteps
<1>2. CASE GiveUp
  BY <1>2 DEF Flat, Control, Programs, FlagHeld, Switches, GiveUp, Step, Runs, locals,
     DrainSteps, HookSteps, ResetSteps
<1>3. CASE InitReset
  BY <1>3 DEF Flat, Control, Programs, FlagHeld, Switches, InitReset, Step, Runs, Goto,
     ResetUnderStream, DrainSteps, HookSteps, ResetSteps
<1>4. CASE ResetPrev \/ ResetHave \/ ResetLatest
  BY <1>4 DEF Flat, Control, Programs, FlagHeld, Switches, ResetPrev, ResetHave, ResetLatest,
     ResetStep, Step, Runs, Goto, DrainSteps, HookSteps, ResetSteps
<1>5. CASE ResetOff
  BY <1>5 DEF Flat, Control, Programs, FlagHeld, Switches, ResetOff, D,
     ResetStep, Step, Runs, Goto, DrainSteps, HookSteps, ResetSteps
<1>6. CASE ResetFlush
  BY <1>6 DEF Flat, Control, Programs, FlagHeld, Switches, ResetFlush, D,
     Step, Runs, Goto, DrainSteps, HookSteps, ResetSteps
<1>. QED BY <1>1, <1>2, <1>3, <1>4, <1>5, <1>6 DEF Reset

LEMMA ControlStep ==
  ASSUME ~PrintsDuringTick, Flat, Control, [PQNext]_pqVars
  PROVE  Control'
<1>1. ASSUME NEW d \in Detectors, Capture(d) PROVE Control'
  BY <1>1 DEF Control, Programs, FlagHeld, Switches, Capture, locals
<1>2. ASSUME NEW c \in Contexts, Drain(c) PROVE Control'
  <2>1. CASE BootSeed(c)
    BY <2>1, OnwardControl DEF BootSeed
  <2>2. CASE Finish(c)
    BY <2>2, OnwardControl DEF Finish
  <2>. QED BY <1>2, <2>1, <2>2, DrainControl DEF Drain
<1>3. CASE UNCHANGED pqVars
  BY <1>3 DEF Control, Programs, FlagHeld, Switches, pqVars, locals
<1>. QED BY <1>1, <1>2, <1>3, BeginControl, RestartControl DEF PQNext

-----------------------------------------------------------------------------
(* Types.                                                                  *)

LEMMA OnwardTypes ==
  ASSUME Flat, NEW c \in Contexts, Onward(c)
  PROVE  /\ rd' \in [Contexts -> Indices] /\ wr' \in [Contexts -> Indices]
         /\ val' \in [Contexts -> Periods] /\ inDrain' \in BOOLEAN
         /\ main' \in {"idle", "tick", "restart", "reset"}
         /\ at' \in [Contexts -> {"out"} \cup DrainSteps \cup ResetSteps]
         /\ det' \in [Contexts -> Detectors]
<1>1. 0 \in Indices /\ NoPeriod \in Periods
  BY Sizes, StampIs DEF Indices
<1>2. /\ rd' = [rd EXCEPT ![c] = 0] /\ wr' = [wr EXCEPT ![c] = 0]
      /\ val' = [val EXCEPT ![c] = NoPeriod]
  BY DEF Onward
<1>3. CASE det[c] = "A"
  BY <1>1, <1>2, <1>3, ContextIs DEF Flat, Onward, Goto, DrainSteps
<1>4. CASE det[c] # "A"
  BY <1>1, <1>2, <1>4, ContextIs DEF Flat, Onward, Goto
<1>. QED BY <1>3, <1>4

LEMMA NextIndexType ==
  ASSUME NEW i \in Indices PROVE (i + 1) % Modulus \in Indices
BY ApartInRange

\* The period a capture measures.
Captured(d) == <<prev[d], n[d] + 1>>

LEMMA CapturedType ==
  ASSUME Flat, Clock, NEW d \in Detectors, Capture(d)
  PROVE  n[d] + 1 \in Stamps /\ Captured(d) \in Periods
<1>. DEFINE t == n[d] + 1
<1>1. n[d] \in Nat /\ MaxCaptures[d] \in Nat /\ prev[d] \in Stamps
  BY StampIs, QueueAssumption, ContextIs DEF Flat
<1>2. t \in 0..MaxCaptures[d]
  BY <1>1 DEF Capture
<1>3. t \in Stamps
  BY <1>2, StampIs
<1>4. prev[d] < t
  <2>1. prev[d] \in Nat
    BY <1>1, StampIs
  <2>2. prev[d] <= n[d]
    BY DEF Clock
  <2>. QED BY <1>1, <2>1, <2>2
<1>. QED BY <1>1, <1>3, <1>4, StampIs DEF Captured

LEMMA CaptureTypes ==
  ASSUME Flat, Clock, NEW d \in Detectors, Capture(d)
  PROVE  Flat'
<1>. DEFINE t == n[d] + 1
            p == <<prev[d], t>>
<1>1. t \in Stamps /\ p \in Periods
  BY CapturedType DEF Captured
<1>. DEFINE i == write[d] % Length
            w == (write[d] + 1) % Modulus
<1>2. i \in Places /\ w \in Indices
  <2>1. write[d] \in Indices
    BY DEF Flat
  <2>2. i \in Places
    BY <2>1, Sizes DEF Indices, Places
  <2>. QED BY <2>1, <2>2, NextIndexType
<1>3. /\ n' = [n EXCEPT ![d] = t] /\ prev' = [prev EXCEPT ![d] = t]
      /\ have' = have \cup {d}
      /\ latest' = latest \/ latest' = [latest EXCEPT ![d] = p]
      /\ \/ slots' = slots /\ write' = write
         \/ slots' = [slots EXCEPT ![d][i] = p] /\ write' = [write EXCEPT ![d] = w]
      /\ UNCHANGED <<since, enabled, read, ema, got, armed, hooked, inDrain, main,
                     locals, stream>>
  BY DEF Capture
<1>. HIDE DEF t, p, i, w
<1>4. slots' \in [Detectors -> [Places -> Periods]]
  <2>1. slots[d] \in [Places -> Periods]
    BY DEF Flat
  <2>2. [slots[d] EXCEPT ![i] = p] \in [Places -> Periods]
    BY <1>1, <1>2, <2>1
  <2>3. slots' = slots \/ slots' = [slots EXCEPT ![d] = [slots[d] EXCEPT ![i] = p]]
    BY <1>3
  <2>. QED BY <2>2, <2>3 DEF Flat
<1>5. /\ n' \in [Detectors -> Stamps] /\ prev' \in [Detectors -> Stamps]
      /\ have' \subseteq Detectors
  BY <1>1, <1>3 DEF Flat
<1>6. latest' \in [Detectors -> Periods]
  BY <1>1, <1>3 DEF Flat
<1>7. write' \in [Detectors -> Indices]
  <2>1. write' = write \/ write' = [write EXCEPT ![d] = w]
    BY <1>3
  <2>. QED BY <1>2, <2>1 DEF Flat
<1>. QED BY <1>3, <1>4, <1>5, <1>6, <1>7 DEF Flat, locals, stream

LEMMA DrainTypes ==
  ASSUME Flat, NEW c \in Contexts, Drain(c)
  PROVE  Flat'
<1>. USE ContextIs
<1>0. det[c] \in Detectors
  BY DEF Flat
<1>1. CASE BootDiscard(c)
  BY <1>0, <1>1 DEF BootDiscard, Goto, Flat, producer, stream, DrainSteps
<1>2. CASE BootEnable(c)
  BY <1>0, <1>2 DEF BootEnable, Goto, Flat, producer, stream, DrainSteps
<1>3. CASE BootSeed(c)
  <2>1. <<val[c]>> \in Seq(Periods)
    BY DEF Flat
  <2>2. ema' \in [Detectors -> Seq(Periods)]
    BY <1>0, <1>3, <2>1 DEF BootSeed, Seed, Flat
  <2>. QED BY <1>3, <2>2, OnwardTypes DEF BootSeed, Flat, producer, stream
<1>4. CASE Begin(c)
  BY <1>0, <1>4 DEF Begin, Goto, Flat, producer, stream, DrainSteps
<1>5. CASE Look(c)
  <2>1. slots[det[c]][rd[c] % Length] \in Periods
    <3>1. rd[c] % Length \in Places
      <4>1. rd[c] \in Indices
        BY DEF Flat
      <4>. QED BY <4>1, Sizes DEF Indices, Places
    <3>. QED BY <1>0, <3>1 DEF Flat
  <2>2. val' = [val EXCEPT ![c] = slots[det[c]][rd[c] % Length]]
    BY <1>5 DEF Look
  <2>3. val' \in [Contexts -> Periods]
    BY <2>1, <2>2 DEF Flat
  <2>. QED BY <1>5, <2>3 DEF Look, Goto, Flat, producer, stream, DrainSteps
<1>6. CASE Take(c)
  <2>1. rd[c] \in Indices /\ (rd[c] + 1) % Modulus \in Indices
    BY NextIndexType DEF Flat
  <2>2. rd' \in [Contexts -> Indices] /\ read' \in [Detectors -> Indices]
    <3>1. rd' = [rd EXCEPT ![c] = (rd[c] + 1) % Modulus]
      BY <1>6 DEF Take, Flat
    <3>2. read' = [read EXCEPT ![det[c]] = (rd[c] + 1) % Modulus]
      BY <1>6 DEF Take
    <3>. QED BY <1>0, <2>1, <3>1, <3>2 DEF Flat
  <2>3. ema' \in [Detectors -> Seq(Periods)] /\ got' \in [Detectors -> Periods]
    <3>1. val[c] \in Periods /\ ema[det[c]] \in Seq(Periods)
      BY <1>0 DEF Flat
    <3>2. Append(ema[det[c]], val[c]) \in Seq(Periods)
      BY <3>1, AppendProperties
    <3>3. ema' = [ema EXCEPT ![det[c]] = Append(ema[det[c]], val[c])]
      BY <1>0, <1>6 DEF Take, Flat
    <3>4. got' = [got EXCEPT ![det[c]] = val[c]]
      BY <1>6 DEF Take
    <3>. QED BY <1>0, <3>1, <3>2, <3>3, <3>4 DEF Flat
  <2>4. /\ val' = [val EXCEPT ![c] = NoPeriod] /\ at' = [at EXCEPT ![c] = "look"]
        /\ UNCHANGED <<producer, since, enabled, armed, hooked, inDrain, main, det, wr, stream>>
    BY <1>6 DEF Take, Goto
  <2>. QED BY <2>2, <2>3, <2>4, StampIs DEF Flat, producer, stream, DrainSteps
<1>7. CASE Finish(c)
  BY <1>7, OnwardTypes DEF Finish, Flat, producer, stream
<1>. QED BY <1>1, <1>2, <1>3, <1>4, <1>5, <1>6, <1>7 DEF Drain

LEMMA ResetTypes ==
  ASSUME Flat, Reset
  PROVE  Flat'
<1>. USE ContextIs
<1>0. D \in Detectors
  BY DEF Flat, D
<1>1. CASE ResetPrev
  BY <1>0, <1>1, StampIs DEF ResetPrev, ResetStep, Goto, Flat, stream, ResetSteps
<1>2. CASE ResetHave
  BY <1>2 DEF ResetHave, ClearHave, ResetStep, Goto, Flat, stream, ResetSteps
<1>3. CASE ResetLatest
  BY <1>0, <1>3, StampIs DEF ResetLatest, ResetStep, Goto, Flat, stream, ResetSteps
<1>4. CASE ResetOff
  BY <1>4 DEF ResetOff, ResetStep, Goto, Flat, producer, stream, ResetSteps
<1>5. CASE ResetFlush
  <2>1. read' \in [Detectors -> Indices] /\ ema' \in [Detectors -> Seq(Periods)]
    BY <1>0, <1>5 DEF ResetFlush, Flat
  <2>2. /\ at' \in [Contexts -> {"out"} \cup DrainSteps \cup ResetSteps]
        /\ det' \in [Contexts -> Detectors]
        /\ main' \in {"idle", "tick", "restart", "reset"}
        /\ streaming' \in BOOLEAN
    BY <1>5 DEF ResetFlush, Goto, Flat, ResetSteps
  <2>. QED BY <1>5, <2>1, <2>2 DEF ResetFlush, Flat, producer
<1>. QED BY <1>1, <1>2, <1>3, <1>4, <1>5 DEF Reset

LEMMA PeriodTypeStep ==
  ASSUME Flat, Clock, [PQNext]_pqVars
  PROVE  Flat'
<1>. USE ContextIs
<1>1. CASE Tick
  BY <1>1 DEF Tick, Goto, Flat, producer, stream, DrainSteps
<1>2. CASE ConsolePrint
  BY <1>2 DEF ConsolePrint, Hook, Goto, Flat, producer, stream, DrainSteps
<1>3. CASE IrqPrint
  BY <1>3 DEF IrqPrint, Hook, Goto, Flat, producer, stream, DrainSteps
<1>4. CASE Retime
  <2>1. since' \in [Detectors -> Nat] /\ restarts' \in 0..MaxRestarts
    <3>1. since' = [d \in Detectors |-> n[d] + 1] /\ \A d \in Detectors : n[d] \in Nat
      BY <1>4, StampIs DEF Retime, Flat
    <3>2. restarts' = restarts + 1 /\ restarts < MaxRestarts
      BY <1>4 DEF Retime
    <3>3. restarts \in 0..MaxRestarts /\ MaxRestarts \in Nat
      BY QueueAssumption DEF Flat
    <3>4. since' \in [Detectors -> Nat]
      BY <3>1
    <3>. QED BY <3>2, <3>3, <3>4
  <2>. QED BY <1>4, <2>1 DEF Retime, Flat, producer, locals
<1>5. CASE GiveUp
  BY <1>5 DEF GiveUp, Flat, producer, locals, stream
<1>6. CASE InitReset
  <2>1. restarts' \in 0..MaxRestarts
    BY <1>6, QueueAssumption DEF InitReset, ResetUnderStream, Flat
  <2>. QED BY <1>6, <2>1 DEF InitReset, Goto, Flat, producer, ResetSteps
<1>7. CASE UNCHANGED pqVars
  BY <1>7 DEF Flat, pqVars, producer, locals, stream
<1>. QED BY <1>1, <1>2, <1>3, <1>4, <1>5, <1>6, <1>7, CaptureTypes, DrainTypes, ResetTypes
         DEF PQNext

-----------------------------------------------------------------------------
(* The queues and their consumer.                                          *)

Queues == Bounded /\ Batches /\ Emptied

\* One program drains at a time.
LEMMA OneConsumer ==
  ASSUME Control, NEW c \in Contexts, NEW e \in Contexts,
         at[c] \in DrainSteps, at[e] \in DrainSteps
  PROVE  c = e
BY ContextIs DEF Control, Programs, DrainSteps

LEMMA UsedIs ==
  /\ \A d \in Detectors : Used(d) = Apart(read[d], write[d])
  /\ \A d \in Detectors : Used(d)' = Apart(read'[d], write'[d])
BY DEF Used, Apart

LEMMA UsedType ==
  ASSUME Flat, NEW d \in Detectors
  PROVE  /\ Used(d) \in Nat /\ (Used(d) = 0 <=> read[d] = write[d])
         /\ read[d] \in Indices /\ write[d] \in Indices
         /\ slots[d] \in [Places -> Periods] /\ ema[d] \in Seq(Periods)
<1>1. /\ read[d] \in Indices /\ write[d] \in Indices
      /\ slots[d] \in [Places -> Periods] /\ ema[d] \in Seq(Periods)
  BY DEF Flat
<1>. QED BY <1>1, UsedIs, ApartInRange

\* What a capture does to the queue of its detector: nothing, or it puts a period.
LEMMA CapturePuts ==
  ASSUME Flat, Queues, NEW d \in Detectors, Capture(d)
  PROVE  \/ slots' = slots /\ write' = write
         \/ /\ Used(d) < Length /\ d \in have /\ d \in enabled
            /\ slots' = [slots EXCEPT ![d] =
                           [slots[d] EXCEPT ![write[d] % Length] = <<prev[d], n[d] + 1>>]]
            /\ write' = [write EXCEPT ![d] = (write[d] + 1) % Modulus]
<1>1. CASE d \in have /\ d \in enabled /\ Room(d)
  BY <1>1 DEF Capture, Flat, Room
<1>2. CASE ~(d \in have /\ d \in enabled /\ Room(d))
  BY <1>2 DEF Capture
<1>. QED BY <1>1, <1>2

\* The slot the producer fills is not the one the consumer reads.
LEMMA OtherSlot ==
  ASSUME Flat, NEW d \in Detectors, Used(d) < Length, read[d] # write[d]
  PROVE  read[d] % Length # write[d] % Length
<1>1. read[d] \in Indices /\ write[d] \in Indices /\ Used(d) \in Nat \ {0}
  BY UsedType
<1>2. (read[d] + Used(d)) % Length = write[d] % Length
  BY <1>1, UsedIs, SlotOfWriter
<1>3. read[d] \in Nat /\ Length \in Nat \ {0}
  BY <1>1, Sizes DEF Indices
<1>4. /\ read[d] + Used(d) \in Nat /\ read[d] < read[d] + Used(d)
      /\ read[d] + Used(d) < read[d] + Length
  BY <1>1, <1>3
<1>. QED BY <1>2, <1>3, <1>4, Distinct

LEMMA CaptureQueues ==
  ASSUME Flat, Queues, NEW d \in Detectors, Capture(d)
  PROVE  Queues'
<1>0. UNCHANGED <<enabled, read, ema, at, det, rd, wr, val>>
  BY DEF Capture, locals
<1>1. CASE slots' = slots /\ write' = write
  <2>1. UNCHANGED <<Bounded, Batches, Emptied>>
    BY <1>0, <1>1 DEF Bounded, Batches, Emptied, Flushing, Used
  <2>. QED BY <2>1 DEF Queues
<1>2. CASE /\ Used(d) < Length /\ d \in have /\ d \in enabled
           /\ slots' = [slots EXCEPT ![d] =
                          [slots[d] EXCEPT ![write[d] % Length] = <<prev[d], n[d] + 1>>]]
           /\ write' = [write EXCEPT ![d] = (write[d] + 1) % Modulus]
  <2>1. /\ read[d] \in Indices /\ write[d] \in Indices /\ Used(d) \in Nat
        /\ write' = [write EXCEPT ![d] = (write[d] + 1) % Modulus]
        /\ DOMAIN write = Detectors
    BY <1>2, UsedType DEF Flat
  <2>2. Used(d)' = Used(d) + 1
    <3>1. write'[d] = (write[d] + 1) % Modulus
      BY <2>1
    <3>. QED BY <1>0, <1>2, <2>1, <3>1, UsedIs, ApartAfterPut
  <2>3. \A e \in Detectors : e # d =>
          write'[e] = write[e] /\ slots'[e] = slots[e] /\ Used(e)' = Used(e)
    BY <1>0, <1>2, <2>1 DEF Used, Flat
  <2>4. Bounded'
    <3>1. Used(d)' <= Length
      BY <1>2, <2>1, <2>2, Sizes
    <3>. QED BY <2>3, <3>1 DEF Bounded, Queues
  <2>5. Emptied'
    BY <1>0, <1>2, <2>3 DEF Emptied, Flushing, Queues
  <2>6. ASSUME NEW c \in Contexts
        PROVE  /\ at[c] \in {"look", "take"} =>
                    rd[c] = read[det[c]] /\ Apart(rd[c], wr[c]) <= Used(det[c])'
               /\ at[c] = "take" =>
                    rd[c] # wr[c] /\ val[c] = slots'[det[c]][rd[c] % Length]
    <3>1. /\ at[c] \in {"look", "take"} =>
               rd[c] = read[det[c]] /\ Apart(rd[c], wr[c]) <= Used(det[c])
          /\ at[c] = "take" => rd[c] # wr[c] /\ val[c] = slots[det[c]][rd[c] % Length]
      BY DEF Queues, Batches
    <3>2. CASE det[c] # d
      <4>1. det[c] \in Detectors
        BY DEF Flat
      <4>. QED BY <1>0, <2>3, <3>1, <3>2, <4>1
    <3>3. CASE det[c] = d
      <4>0. rd[c] \in Indices /\ wr[c] \in Indices
        BY DEF Flat
      <4>1. Apart(rd[c], wr[c]) \in Nat /\ (Apart(rd[c], wr[c]) = 0 <=> rd[c] = wr[c])
        BY <4>0, ApartInRange
      <4>2. at[c] \in {"look", "take"} => Apart(rd[c], wr[c]) <= Used(det[c])'
        BY <1>0, <2>1, <2>2, <3>1, <3>3, <4>1
      <4>3. ASSUME at[c] = "take"
            PROVE  slots'[d][rd[c] % Length] = slots[d][rd[c] % Length]
        <5>1. rd[c] = read[d] /\ Used(d) # 0
          BY <2>1, <3>1, <3>3, <4>1, <4>3
        <5>2. read[d] # write[d]
          BY <5>1, UsedType
        <5>3. read[d] % Length # write[d] % Length
          BY <1>2, <5>2, OtherSlot
        <5>4. slots'[d] = [slots[d] EXCEPT ![write[d] % Length] = <<prev[d], n[d] + 1>>]
          BY <1>2 DEF Flat
        <5>5. read[d] % Length \in Places /\ slots[d] \in [Places -> Periods]
          BY <2>1, UsedType, Sizes DEF Indices, Places
        <5>. QED BY <5>1, <5>3, <5>4, <5>5
      <4>. QED BY <3>1, <3>3, <4>2, <4>3
    <3>. QED BY <3>2, <3>3
  <2>7. Batches'
    BY <1>0, <2>6 DEF Batches
  <2>. QED BY <2>4, <2>5, <2>7 DEF Queues
<1>. QED BY <1>1, <1>2, CapturePuts

\* A step of a drain that moves no index and fills no slot.
LEMMA QueuesSame ==
  ASSUME Flat, Control, Queues, NEW c \in Contexts, at[c] \in DrainSteps,
         UNCHANGED <<slots, write, read>>,
         \A e \in Contexts : e # c => at'[e] = at[e],
         at'[c] \notin {"look", "take"}, Emptied'
  PROVE  Queues'
<1>1. Bounded'
  BY DEF Queues, Bounded, Used
<1>2. \A e \in Contexts : at'[e] \notin {"look", "take"}
  BY OneConsumer DEF DrainSteps
<1>3. Batches'
  BY <1>2 DEF Batches
<1>. QED BY <1>1, <1>3 DEF Queues

LEMMA OnwardAt ==
  ASSUME Flat, NEW c \in Contexts, Onward(c)
  PROVE  /\ at'[c] \in {"begin", "out"}
         /\ \A e \in Contexts : e # c => at'[e] = at[e]
<1>1. CASE det[c] = "A"
  BY <1>1 DEF Onward, Goto, Flat
<1>2. CASE det[c] # "A"
  BY <1>2 DEF Onward, Goto, Flat
<1>. QED BY <1>1, <1>2

\* A context that drains is not flushing, and neither is the other.
LEMMA NotFlushing ==
  ASSUME Flat, Control, NEW c \in Contexts, at[c] \in DrainSteps, Runs(c)
  PROVE  /\ c = "main" => \A d \in Detectors : ~Flushing(d)
         /\ c = "irq" => inDrain /\ enabled = Detectors
BY ContextIs DEF Control, Programs, FlagHeld, Flushing, DrainSteps, Flat

LEMMA BootQueues ==
  ASSUME Flat, Control, Queues, NEW c \in Contexts,
         BootDiscard(c) \/ BootEnable(c) \/ BootSeed(c)
  PROVE  Queues'
<1>. USE ContextIs
<1>0. det[c] \in Detectors /\ at[c] \in DrainSteps
  BY DEF Flat, BootDiscard, BootEnable, BootSeed, Step, DrainSteps
<1>1. c = "main" /\ at["irq"] = "out"
  <2>1. CASE BootDiscard(c)
    BY <1>0, <2>1, NotFlushing DEF BootDiscard, Step, Runs
  <2>2. CASE BootEnable(c) \/ BootSeed(c)
    BY <2>2 DEF BootEnable, BootSeed, Step, Runs, Control, Programs, HookSteps
  <2>. QED BY <2>1, <2>2
<1>2. \A d \in Detectors : ~Flushing(d)
  BY <1>0, <1>1, NotFlushing DEF Runs
<1>3. CASE BootDiscard(c)
  <2>1. /\ read' = [read EXCEPT ![det[c]] = write[det[c]]]
        /\ at' = [at EXCEPT ![c] = "enable"] /\ det[c] \notin enabled
        /\ UNCHANGED <<slots, write, ema, enabled, det>>
    BY <1>3 DEF BootDiscard, Goto, producer
  <2>2. read[det[c]] = write[det[c]]
    BY <1>0, <1>2, <2>1 DEF Queues, Emptied
  <2>3. read' = read
    BY <1>0, <2>1, <2>2 DEF Flat
  <2>4. at'["main"] = "enable"
    BY <1>1, <2>1 DEF Flat
  <2>5. Emptied'
    BY <1>2, <2>1, <2>3, <2>4 DEF Queues, Emptied, Flushing
  <2>. QED BY <1>0, <1>1, <2>1, <2>3, <2>4, <2>5, QueuesSame DEF Flat
<1>4. CASE BootEnable(c)
  <2>1. /\ at["main"] = "enable" /\ at' = [at EXCEPT ![c] = "seed"]
        /\ enabled' = enabled \cup {det[c]}
        /\ UNCHANGED <<slots, write, read, ema, det>>
    BY <1>1, <1>4 DEF BootEnable, Step, Goto, producer
  <2>2. at'["main"] = "seed"
    BY <1>1, <2>1 DEF Flat
  <2>3. det["main"] \notin enabled
    BY <2>1 DEF Control, Switches
  <2>4. Emptied'
    BY <1>1, <1>2, <2>1, <2>2, <2>3 DEF Queues, Emptied, Flushing
  <2>. QED BY <1>0, <1>1, <2>1, <2>2, <2>4, QueuesSame DEF Flat
<1>5. CASE BootSeed(c)
  <2>1. /\ UNCHANGED <<slots, write, read, enabled>> /\ Onward(c)
        /\ ema' = ema \/ ema' = [ema EXCEPT ![det[c]] = <<Seed(c)>>]
        /\ at["main"] = "seed"
    BY <1>1, <1>5 DEF BootSeed, producer, Step
  <2>2. at'["main"] \in {"begin", "out"} /\ \A e \in Contexts : e # c => at'[e] = at[e]
    BY <1>1, <2>1, OnwardAt
  <2>3. det[c] \in enabled
    BY <1>1, <2>1 DEF Control, Switches
  <2>4. Emptied'
    <3>1. \A d \in Detectors : d \notin enabled => ema'[d] = ema[d]
      BY <1>0, <2>1, <2>3 DEF Flat
    <3>. QED BY <1>2, <2>1, <2>2, <3>1 DEF Queues, Emptied, Flushing
  <2>. QED BY <1>0, <1>1, <2>1, <2>2, <2>4, QueuesSame
<1>. QED BY <1>3, <1>4, <1>5

LEMMA WalkQueues ==
  ASSUME Flat, Control, Queues, NEW c \in Contexts,
         Begin(c) \/ Look(c) \/ Finish(c)
  PROVE  Queues'
<1>. USE ContextIs
<1>0. /\ det[c] \in Detectors /\ at[c] \in DrainSteps
      /\ UNCHANGED <<slots, write, read, enabled, ema>>
  BY DEF Flat, Begin, Look, Finish, Step, DrainSteps, producer
<1>1. /\ at'[c] \notin {"enable", "seed", "flush"}
      /\ \A e \in Contexts : e # c => at'[e] = at[e]
      /\ at[c] \notin {"enable", "seed", "flush"}
  BY OnwardAt DEF Begin, Look, Finish, Goto, Flat, Step
<1>2. \A e \in Contexts : e # c => det'[e] = det[e]
  BY DEF Begin, Look, Finish, Onward, Flat
<1>3. Bounded'
  BY <1>0 DEF Queues, Bounded, Used
<1>4. Emptied'
  <2>1. \A d \in Detectors : (Flushing(d)' <=> Flushing(d))
    BY <1>1, <1>2 DEF Flushing
  <2>2. \A d \in Detectors : (at'["main"] = "seed" /\ det'["main"] = d
                                => at["main"] = "seed" /\ det["main"] = d)
    BY <1>1, <1>2
  <2>. QED BY <1>0, <2>1, <2>2 DEF Queues, Emptied
<1>5. ASSUME at'[c] \in {"look", "take"} =>
               rd'[c] = read[det'[c]] /\ Apart(rd'[c], wr'[c]) <= Used(det[c]),
             at'[c] = "take" =>
               rd'[c] # wr'[c] /\ val'[c] = slots[det'[c]][rd'[c] % Length],
             at'[c] \in {"look", "take"} => det'[c] = det[c]
      PROVE  Queues'
  <2>1. \A e \in Contexts : at'[e] \in {"look", "take"} => e = c
    BY <1>0, <1>1, OneConsumer DEF DrainSteps
  <2>2. \A d \in Detectors : Used(d)' = Used(d)
    BY <1>0 DEF Used
  <2>3. at'[c] \in {"look", "take"} => Used(det[c])' = Used(det[c])
    BY <1>0, <1>5, <2>2
  <2>4. Batches'
    BY <1>0, <1>5, <2>1, <2>3 DEF Batches
  <2>. QED BY <1>3, <1>4, <2>4 DEF Queues
<1>6. CASE Begin(c)
  <2>1. /\ rd'[c] = read[det[c]] /\ wr'[c] = write[det[c]] /\ at'[c] = "look"
        /\ det' = det
    BY <1>6 DEF Begin, Goto, Flat
  <2>2. Apart(rd'[c], wr'[c]) = Used(det[c]) /\ Used(det[c]) \in Nat
    BY <1>0, <2>1, UsedIs, UsedType
  <2>. QED BY <1>5, <2>1, <2>2
<1>7. CASE Look(c)
  <2>1. /\ val'[c] = slots[det[c]][rd[c] % Length] /\ rd[c] # wr[c] /\ at'[c] = "take"
        /\ UNCHANGED <<det, rd, wr>> /\ at[c] = "look"
    BY <1>7 DEF Look, Goto, Flat, Step
  <2>2. rd[c] = read[det[c]] /\ Apart(rd[c], wr[c]) <= Used(det[c])
    BY <2>1 DEF Queues, Batches
  <2>. QED BY <1>5, <2>1, <2>2
<1>8. CASE Finish(c)
  <2>1. at'[c] \in {"begin", "out"}
    BY <1>8, OnwardAt DEF Finish
  <2>. QED BY <1>5, <2>1
<1>. QED BY <1>6, <1>7, <1>8

\* The consumer gives a slot back: the batch and the queue lose the same period.
LEMMA TakeGets ==
  ASSUME Flat, Queues, NEW c \in Contexts, Take(c)
  PROVE  /\ det[c] \in Detectors /\ rd[c] = read[det[c]] /\ read[det[c]] # write[det[c]]
         /\ read' = [read EXCEPT ![det[c]] = (read[det[c]] + 1) % Modulus]
         /\ rd' = [rd EXCEPT ![c] = (read[det[c]] + 1) % Modulus]
         /\ val[c] = slots[det[c]][read[det[c]] % Length]
         /\ Used(det[c])' = Used(det[c]) - 1
         /\ Apart(rd'[c], wr[c]) = Apart(rd[c], wr[c]) - 1
         /\ Apart(rd[c], wr[c]) \in Nat
<1>. DEFINE d == det[c]
<1>0. d \in Detectors
  BY DEF Flat
<1>1. /\ at[c] = "take" /\ rd[c] = read[d] /\ Apart(rd[c], wr[c]) <= Used(d)
      /\ rd[c] # wr[c] /\ val[c] = slots[d][rd[c] % Length]
  BY DEF Take, Step, Queues, Batches
<1>2. rd[c] \in Indices /\ wr[c] \in Indices
  BY DEF Flat
<1>3. Apart(rd[c], wr[c]) \in Nat /\ Apart(rd[c], wr[c]) # 0
  BY <1>1, <1>2, ApartInRange
<1>4. Used(d) \in Nat /\ (Used(d) = 0 <=> read[d] = write[d]) /\ write[d] \in Indices
  BY <1>0, UsedType
<1>5. read[d] # write[d]
  BY <1>1, <1>3, <1>4
<1>6. /\ read' = [read EXCEPT ![d] = (rd[c] + 1) % Modulus]
      /\ rd' = [rd EXCEPT ![c] = (rd[c] + 1) % Modulus] /\ write' = write /\ det' = det
  BY DEF Take, Flat, producer
<1>7. read'[d] = (rd[c] + 1) % Modulus /\ rd'[c] = (rd[c] + 1) % Modulus
  BY <1>0, <1>6 DEF Flat
<1>8. Used(d)' = Used(d) - 1
  <2>1. Apart((rd[c] + 1) % Modulus, write[d]) = Apart(rd[c], write[d]) - 1
    BY <1>1, <1>2, <1>4, <1>5, ApartAfterGet
  <2>2. Used(d)' = Apart(read'[d], write[d]) /\ Used(d) = Apart(read[d], write[d])
    BY <1>0, <1>6, UsedIs
  <2>. QED BY <1>1, <1>7, <2>1, <2>2
<1>9. Apart(rd'[c], wr[c]) = Apart(rd[c], wr[c]) - 1
  BY <1>1, <1>2, <1>7, ApartAfterGet
<1>. QED BY <1>0, <1>1, <1>3, <1>5, <1>6, <1>8, <1>9

LEMMA TakeQueues ==
  ASSUME Flat, Control, Queues, NEW c \in Contexts, Take(c)
  PROVE  Queues'
<1>. USE ContextIs
<1>. DEFINE d == det[c]
<1>1. /\ d \in Detectors /\ rd[c] = read[d]
      /\ read' = [read EXCEPT ![d] = (read[d] + 1) % Modulus]
      /\ rd' = [rd EXCEPT ![c] = (read[d] + 1) % Modulus]
      /\ Used(d)' = Used(d) - 1
      /\ Apart(rd'[c], wr[c]) = Apart(rd[c], wr[c]) - 1
      /\ Apart(rd[c], wr[c]) \in Nat
  BY TakeGets
<1>2. /\ UNCHANGED <<slots, write, enabled, det, wr>> /\ at[c] = "take"
      /\ at' = [at EXCEPT ![c] = "look"]
      /\ ema' = [ema EXCEPT ![d] = Append(@, val[c])]
  BY DEF Take, Step, Goto, producer
<1>3. Used(d) \in Nat /\ Apart(rd[c], wr[c]) <= Used(d)
  BY <1>1, <1>2, UsedType DEF Queues, Batches
<1>4. at'[c] = "look" /\ \A e \in Contexts : e # c => at'[e] = at[e]
  BY <1>2 DEF Flat
<1>5. Bounded'
  <2>1. \A e \in Detectors : e # d => Used(e)' = Used(e)
    BY <1>1, <1>2 DEF Used, Flat
  <2>. PICK o \in Detectors : o = d
    BY <1>1
  <2>2. Used(o)' = Used(o) - 1 /\ Used(o) \in Nat /\ Used(o) <= Length
    BY <1>1, <1>2, <1>3 DEF Queues, Bounded
  <2>3. Used(o)' <= Length
    BY <2>2, Sizes
  <2>. QED BY <2>1, <2>3 DEF Queues, Bounded
<1>6. Batches'
  <2>1. \A e \in Contexts : at'[e] \in {"look", "take"} => e = c
    BY <1>2, <1>4, OneConsumer DEF DrainSteps
  <2>2. rd'[c] = read'[d] /\ det'[c] = d
    BY <1>1, <1>2 DEF Flat
  <2>3. Apart(rd'[c], wr'[c]) <= Used(d)'
    BY <1>1, <1>2, <1>3
  <2>. QED BY <1>2, <1>4, <2>1, <2>2, <2>3 DEF Batches
<1>7. Emptied'
  <2>1. d \in enabled
    <3>1. c = "main" => d \in enabled
      BY <1>2 DEF Control, Switches
    <3>2. c = "irq" => enabled = Detectors
      BY <1>2 DEF Control, FlagHeld
    <3>. QED BY <1>1, <3>1, <3>2
  <2>2. \A e \in Detectors : e \notin enabled => ema'[e] = ema[e] /\ read'[e] = read[e]
    BY <1>1, <1>2, <2>1 DEF Flat
  <2>3. \A e \in Detectors : (Flushing(e)' <=> Flushing(e))
    BY <1>2, <1>4 DEF Flushing
  <2>4. at'["main"] # "seed"
    <3>1. at'["main"] = "seed" => at["main"] = "seed" /\ c # "main"
      BY <1>4
    <3>. QED BY <1>2, <3>1, OneConsumer DEF DrainSteps
  <2>. QED BY <1>2, <2>2, <2>3, <2>4 DEF Queues, Emptied
<1>. QED BY <1>5, <1>6, <1>7 DEF Queues

LEMMA ResetQueues ==
  ASSUME Flat, Control, Queues, Reset
  PROVE  Queues'
<1>. USE ContextIs
<1>0. D \in Detectors /\ at["irq"] = "out" /\ D = det["main"]
  BY DEF Flat, D, Reset, ResetPrev, ResetHave, ResetLatest, ResetOff, ResetFlush,
         ResetStep, Step, Runs
<1>1. /\ at["main"] \in ResetSteps /\ at'["main"] \in ResetSteps \cup {"out"}
      /\ at'["irq"] = at["irq"] /\ UNCHANGED <<slots, write>>
  BY DEF Flat, Reset, ResetPrev, ResetHave, ResetLatest, ResetOff, ResetFlush,
         ResetStep, Step, Goto, ResetSteps, producer
<1>2. Batches'
  BY <1>0, <1>1 DEF Batches, ResetSteps
<1>3. CASE ResetPrev \/ ResetHave \/ ResetLatest
  <2>1. /\ UNCHANGED <<read, ema, enabled, det>> /\ at["main"] # "flush"
        /\ at'["main"] \notin {"flush", "seed"}
    BY <1>3 DEF ResetPrev, ResetHave, ResetLatest, ResetStep, Step, Goto, Flat
  <2>. QED BY <1>1, <1>2, <2>1 DEF Queues, Bounded, Emptied, Flushing, Used
<1>4. CASE ResetOff
  <2>1. /\ UNCHANGED <<read, ema, det>> /\ at["main"] = "off"
        /\ at'["main"] = "flush" /\ enabled' = enabled \ {D}
    BY <1>4 DEF ResetOff, ResetStep, Step, Goto, Flat
  <2>. QED BY <1>0, <1>1, <1>2, <2>1 DEF Queues, Bounded, Emptied, Flushing, Used
<1>5. CASE ResetFlush
  <2>1. /\ read' = [read EXCEPT ![D] = write[D]] /\ ema' = [ema EXCEPT ![D] = <<>>]
        /\ enabled' = enabled /\ at["main"] = "flush" /\ at'["main"] \in {"prev", "out"}
    BY <1>5 DEF ResetFlush, Step, Goto, Flat
  <2>. PICK o \in Detectors : o = D
    BY <1>0
  <2>2. Used(o)' = 0
    <3>1. read'[o] = write[o] /\ write[o] \in Indices
      BY <2>1 DEF Flat
    <3>2. Apart(write[o], write[o]) = 0
      BY <3>1, ApartInRange
    <3>. QED BY <1>1, <3>1, <3>2, UsedIs
  <2>3. \A d \in Detectors : d # o => Used(d)' = Used(d)
    BY <1>0, <1>1, <2>1 DEF Used, Flat
  <2>4. Bounded'
    BY <2>2, <2>3, Sizes DEF Queues, Bounded
  <2>5. Emptied'
    BY <1>0, <1>1, <2>1 DEF Queues, Emptied, Flushing, Flat
  <2>. QED BY <1>2, <2>4, <2>5 DEF Queues
<1>. QED BY <1>3, <1>4, <1>5 DEF Reset

LEMMA QueuesStep ==
  ASSUME Flat, Control, Queues, [PQNext]_pqVars
  PROVE  Queues'
<1>. USE ContextIs
<1>1. ASSUME UNCHANGED <<slots, write, read, ema, enabled, det, rd, wr, val>>,
             NEW c \in Contexts, at[c] = "out", at'[c] \in {"begin", "prev"},
             \A e \in Contexts : e # c => at'[e] = at[e]
      PROVE  Queues'
  <2>1. Batches'
    BY <1>1 DEF Queues, Batches, Used
  <2>2. Emptied'
    BY <1>1 DEF Queues, Emptied, Flushing
  <2>. QED BY <1>1, <2>1, <2>2 DEF Queues, Bounded, Used
<1>2. CASE Tick \/ ConsolePrint \/ IrqPrint
  BY <1>1, <1>2 DEF Tick, ConsolePrint, IrqPrint, Hook, Step, Goto, Flat, producer
<1>3. CASE InitReset
  BY <1>1, <1>3 DEF InitReset, Step, Goto, Flat, producer
<1>4. ASSUME UNCHANGED <<slots, write, read, ema, enabled, det, rd, wr, val, at>>
      PROVE  Queues'
  BY <1>4 DEF Queues, Bounded, Batches, Emptied, Flushing, Used
<1>5. CASE Retime \/ GiveUp \/ UNCHANGED pqVars
  BY <1>4, <1>5 DEF Retime, GiveUp, pqVars, producer, locals
<1>. QED BY <1>2, <1>3, <1>5, CaptureQueues, BootQueues, WalkQueues, TakeQueues, ResetQueues
         DEF PQNext, Drain

-----------------------------------------------------------------------------
(* What each step does to the periods of a detector.                       *)

\* They rise; none is later than t; each is later than t; each is the distance of
\* two neighbouring captures from capture f on.
Rising(s) == \A i, j \in 1..Len(s) : i < j => s[i][2] < s[j][2]
UpTo(s, t) == \A i \in 1..Len(s) : s[i][2] <= t
Later(s, t) == \A i \in 1..Len(s) : t < s[i][2]
Neighbours(p, f) == p[1] = p[2] - 1 /\ p[1] >= f
Measured(s, f) == \A i \in 1..Len(s) : Neighbours(s[i], f)

Puts(d) ==
    /\ Capture(d) /\ d \in have /\ d \in enabled /\ Used(d) < Length
    /\ Contents(d)' = Append(Contents(d), Captured(d))
    /\ ema'[d] = ema[d] /\ got'[d] = got[d]

Gets(d) ==
    /\ \E c \in Contexts : Take(c) /\ det[c] = d
    /\ Contents(d) # <<>> /\ Contents(d)' = Tail(Contents(d))
    /\ ema'[d] = Append(ema[d], Head(Contents(d))) /\ got'[d] = Head(Contents(d))

Seeds(d) ==
    /\ BootSeed("main") /\ at["main"] = "seed" /\ det["main"] = d
    /\ Contents(d)' = Contents(d)
    /\ ema[d] = <<>> /\ val["main"] # NoPeriod
    /\ ema'[d] = <<val["main"]>> /\ got'[d] = got[d]

Drops(d) ==
    /\ ResetFlush /\ det["main"] = d
    /\ Contents(d)' = <<>> /\ ema'[d] = <<>> /\ got'[d] = got[d]

Rests(d) == Contents(d)' = Contents(d) /\ ema'[d] = ema[d] /\ got'[d] = got[d]

LEMMA ContentsType ==
  ASSUME Flat, NEW d \in Detectors
  PROVE  /\ Contents(d) \in Seq(Periods) /\ Len(Contents(d)) = Used(d)
         /\ Contents(d) = Held(slots[d], read[d], write[d])
         /\ ema[d] \in Seq(Periods) /\ Feed(d) \in Seq(Periods)
<1>1. /\ read[d] \in Indices /\ write[d] \in Indices /\ slots[d] \in [Places -> Periods]
      /\ ema[d] \in Seq(Periods)
  BY UsedType
<1>2. Contents(d) = Held(slots[d], read[d], write[d]) /\ Used(d) = Apart(read[d], write[d])
  BY ContentsAreHeld
<1>3. Contents(d) \in Seq(Periods) /\ Len(Contents(d)) = Used(d)
  BY <1>1, <1>2, HeldType
<1>. QED BY <1>1, <1>2, <1>3, ConcatProperties DEF Feed

LEMMA ContentsNext ==
  \A d \in Detectors : Contents(d)' = Held(slots'[d], read'[d], write'[d])
BY DEF Contents, Used, Held, Apart

\* A detector that a step does not touch.
LEMMA RestsIf ==
  ASSUME NEW d \in Detectors,
         slots'[d] = slots[d], write'[d] = write[d], read'[d] = read[d],
         ema'[d] = ema[d], got'[d] = got[d]
  PROVE  Rests(d)
BY ContentsAreHeld, ContentsNext DEF Rests

LEMMA CaptureEffect ==
  ASSUME Flat, Clock, Queues, NEW e \in Detectors, Capture(e), NEW d \in Detectors
  PROVE  Puts(d) \/ Rests(d)
<1>0. UNCHANGED <<read, ema, got>>
  BY DEF Capture
<1>1. CASE slots' = slots /\ write' = write
  BY <1>0, <1>1, RestsIf
<1>2. CASE /\ Used(e) < Length /\ e \in have /\ e \in enabled
           /\ slots' = [slots EXCEPT ![e] =
                          [slots[e] EXCEPT ![write[e] % Length] = <<prev[e], n[e] + 1>>]]
           /\ write' = [write EXCEPT ![e] = (write[e] + 1) % Modulus]
  <2>1. CASE d # e
    BY <1>0, <1>2, <2>1, RestsIf DEF Flat
  <2>2. CASE d = e
    <3>1. /\ slots'[d] = [slots[d] EXCEPT ![write[d] % Length] = Captured(d)]
          /\ write'[d] = (write[d] + 1) % Modulus /\ read'[d] = read[d]
      BY <1>0, <1>2, <2>2 DEF Flat, Captured
    <3>2. Captured(d) \in Periods
      BY <2>2, CapturedType
    <3>3. /\ read[d] \in Indices /\ write[d] \in Indices
          /\ slots[d] \in [Places -> Periods] /\ Apart(read[d], write[d]) < Length
      BY <1>2, <2>2, UsedType, UsedIs
    <3>4. /\ slots'[d] \in [Places -> Periods] /\ slots'[d][Slot(write[d])] = Captured(d)
          /\ \A p \in Places : p # Slot(write[d]) => slots'[d][p] = slots[d][p]
      <4>1. Slot(write[d]) \in Places
        BY <3>3, Sizes DEF Slot, Indices, Places
      <4>2. slots'[d] = [slots[d] EXCEPT ![Slot(write[d])] = Captured(d)]
        BY <3>1 DEF Slot
      <4>. QED BY <3>2, <3>3, <4>1, <4>2
    <3>6. Held(slots'[d], read[d], NextOf(write[d]))
            = Append(Held(slots[d], read[d], write[d]), Captured(d))
      BY <3>2, <3>3, <3>4, HeldAfterPut
    <3>5. Contents(d)' = Append(Contents(d), Captured(d))
      BY <3>1, <3>6, ContentsNext, ContentsAreHeld DEF NextOf
    <3>. QED BY <1>0, <1>2, <2>2, <3>5 DEF Puts
  <2>. QED BY <2>1, <2>2
<1>. QED BY <1>1, <1>2, CapturePuts

LEMMA TakeEffect ==
  ASSUME Flat, Control, Queues, NEW c \in Contexts, Take(c), NEW d \in Detectors
  PROVE  Gets(d) \/ Rests(d)
<1>0. /\ read' = [read EXCEPT ![det[c]] = (read[det[c]] + 1) % Modulus]
      /\ val[c] = slots[det[c]][read[det[c]] % Length]
      /\ read[det[c]] # write[det[c]]
  BY TakeGets
<1>1. /\ UNCHANGED <<slots, write>>
      /\ got' = [got EXCEPT ![det[c]] = val[c]]
      /\ ema' = [ema EXCEPT ![det[c]] = Append(@, val[c])]
  BY DEF Take, producer
<1>2. CASE d # det[c]
  BY <1>0, <1>1, <1>2, RestsIf DEF Flat
<1>3. CASE d = det[c]
  <2>1. /\ read[d] \in Indices /\ write[d] \in Indices /\ slots[d] \in [Places -> Periods]
        /\ read[d] # write[d]
    BY <1>0, <1>3, UsedType
  <2>2. /\ Held(slots[d], read[d], write[d]) # <<>>
        /\ Head(Held(slots[d], read[d], write[d])) = slots[d][read[d] % Length]
        /\ Held(slots[d], (read[d] + 1) % Modulus, write[d])
             = Tail(Held(slots[d], read[d], write[d]))
    BY <2>1, HeldAfterGet, Zenon
  <2>3. read'[d] = (read[d] + 1) % Modulus /\ slots'[d] = slots[d] /\ write'[d] = write[d]
    BY <1>0, <1>1, <1>3 DEF Flat
  <2>4. Contents(d) # <<>> /\ Contents(d)' = Tail(Contents(d)) /\ Head(Contents(d)) = val[c]
    BY <1>0, <1>3, <2>2, <2>3, ContentsNext, ContentsAreHeld
  <2>5. ema'[d] = Append(ema[d], val[c]) /\ got'[d] = val[c]
    BY <1>1, <1>3 DEF Flat
  <2>. QED BY <1>3, <2>4, <2>5 DEF Gets
<1>. QED BY <1>2, <1>3

LEMMA BootEffect ==
  ASSUME Flat, Control, Queues, NEW c \in Contexts,
         BootDiscard(c) \/ BootSeed(c), NEW d \in Detectors
  PROVE  Seeds(d) \/ Rests(d)
<1>. USE ContextIs
<1>0. det[c] \in Detectors /\ at[c] \in DrainSteps /\ Runs(c)
  BY DEF Flat, BootDiscard, BootSeed, Step, DrainSteps
<1>1. CASE BootDiscard(c)
  <2>1. /\ read' = [read EXCEPT ![det[c]] = write[det[c]]] /\ det[c] \notin enabled
        /\ UNCHANGED <<slots, write, ema, got>>
    BY <1>1 DEF BootDiscard, producer
  <2>2. c = "main" /\ ~Flushing(det[c])
    BY <1>0, <2>1, NotFlushing
  <2>3. read[det[c]] = write[det[c]]
    BY <1>0, <2>1, <2>2 DEF Queues, Emptied
  <2>4. read'[d] = read[d]
    BY <1>0, <2>1, <2>3 DEF Flat
  <2>. QED BY <2>1, <2>4, RestsIf
<1>2. CASE BootSeed(c)
  <2>1. /\ UNCHANGED <<slots, write, read, got>> /\ at[c] = "seed"
    BY <1>2 DEF BootSeed, producer, Step
  <2>2. c = "main"
    BY <2>1 DEF Control, Programs, HookSteps
  <2>3. CASE d = det[c] /\ val[c] # NoPeriod
    <3>1. ema'[d] = <<val["main"]>>
      BY <1>2, <2>2, <2>3 DEF BootSeed, Seed, Flat
    <3>2. ema[d] = <<>>
      BY <2>1, <2>2, <2>3 DEF Queues, Emptied
    <3>3. Contents(d)' = Contents(d)
      BY <2>1, ContentsNext, ContentsAreHeld
    <3>. QED BY <1>2, <2>1, <2>2, <2>3, <3>1, <3>2, <3>3 DEF Seeds
  <2>4. CASE d # det[c] \/ val[c] = NoPeriod
    <3>1. ema'[d] = ema[d]
      BY <1>2, <2>4 DEF BootSeed, Seed, Flat
    <3>. QED BY <2>1, <3>1, RestsIf
  <2>. QED BY <2>3, <2>4
<1>. QED BY <1>1, <1>2

LEMMA FlushEffect ==
  ASSUME Flat, ResetFlush, NEW d \in Detectors
  PROVE  Drops(d) \/ Rests(d)
<1>1. /\ read' = [read EXCEPT ![D] = write[D]] /\ ema' = [ema EXCEPT ![D] = <<>>]
      /\ UNCHANGED <<slots, write, got>>
  BY DEF ResetFlush, producer
<1>2. CASE d # D
  BY <1>1, <1>2, RestsIf DEF Flat
<1>3. CASE d = D
  <2>1. read'[d] = write'[d] /\ write'[d] \in Indices /\ ema'[d] = <<>>
    BY <1>1, <1>3 DEF Flat
  <2>2. Contents(d)' = <<>>
    BY <2>1, ContentsNext, HeldNothing
  <2>. QED BY <1>1, <1>3, <2>1, <2>2 DEF Drops, D
<1>. QED BY <1>2, <1>3

LEMMA Effects ==
  ASSUME Flat, Clock, Control, Queues, [PQNext]_pqVars, NEW d \in Detectors
  PROVE  Puts(d) \/ Gets(d) \/ Seeds(d) \/ Drops(d) \/ Rests(d)
<1>1. ASSUME UNCHANGED <<slots, write, read, ema, got>> PROVE Rests(d)
  BY <1>1, RestsIf
<1>2. ASSUME NEW c \in Contexts, BootEnable(c) \/ Begin(c) \/ Look(c) \/ Finish(c)
      PROVE  Rests(d)
  BY <1>1, <1>2 DEF BootEnable, Begin, Look, Finish, producer
<1>3. CASE Tick \/ ConsolePrint \/ IrqPrint
  BY <1>1, <1>3 DEF Tick, ConsolePrint, IrqPrint, Hook, producer
<1>4. CASE Retime \/ GiveUp \/ InitReset
  BY <1>1, <1>4 DEF Retime, GiveUp, InitReset, producer
<1>5. CASE ResetPrev \/ ResetHave \/ ResetLatest \/ ResetOff
  BY <1>1, <1>5 DEF ResetPrev, ResetHave, ResetLatest, ResetOff, producer
<1>6. CASE UNCHANGED pqVars
  BY <1>1, <1>6 DEF pqVars, producer
<1>. QED BY <1>2, <1>3, <1>4, <1>5, <1>6, CaptureEffect, TakeEffect, BootEffect, FlushEffect
         DEF PQNext, Drain, Reset

\* A step of a detector's queue is a step of BoundedQueue, or none it sees.
LEMMA QueueMoves ==
  ASSUME Flat, Clock, Control, Queues, [PQNext]_pqVars, NEW d \in Detectors
  PROVE  \/ /\ \E x \in Periods : Contents(d)' = Append(Contents(d), x)
            /\ Len(Contents(d)) < Length /\ got'[d] = got[d]
         \/ /\ Contents(d) # <<>> /\ got'[d] = Head(Contents(d))
            /\ Contents(d)' = Tail(Contents(d))
         \/ Contents(d)' = <<>> /\ got'[d] = got[d]
         \/ Contents(d)' = Contents(d) /\ got'[d] = got[d]
<1>1. CASE Puts(d)
  <2>1. Captured(d) \in Periods
    BY <1>1, CapturedType DEF Puts
  <2>2. Len(Contents(d)) < Length
    BY <1>1, ContentsType DEF Puts
  <2>. QED BY <1>1, <2>1, <2>2 DEF Puts
<1>. QED BY <1>1, Effects DEF Gets, Seeds, Drops, Rests

-----------------------------------------------------------------------------
(* The order of what is averaged.                                          *)

\* The average of d is about to start from a period that is in hand.
Seeding(d) == at["main"] \in {"enable", "seed"} /\ det["main"] = d

Chronicle == \A d \in Detectors :
    /\ Rising(Feed(d)) /\ UpTo(Feed(d), n[d])
    /\ Seeding(d) => val["main"][2] <= n[d] /\ Later(Contents(d), val["main"][2])

LEMMA PeriodIs == \A p \in Periods : p[1] \in Nat /\ p[2] \in Nat
BY StampIs

LEMMA RisingAppend ==
  ASSUME NEW s \in Seq(Periods), NEW p \in Periods, NEW t \in Nat,
         Rising(s), UpTo(s, t), t < p[2]
  PROVE  Rising(Append(s, p)) /\ UpTo(Append(s, p), p[2])
<1>. DEFINE r == Append(s, p)
<1>1. /\ r \in Seq(Periods) /\ Len(r) = Len(s) + 1 /\ Len(s) \in Nat
      /\ \A i \in 1..Len(s) : r[i] = s[i] /\ s[i] \in Periods
      /\ r[Len(s) + 1] = p
  BY AppendProperties, ElementOfSeq
<1>. HIDE DEF r
<1>2. \A i \in 1..Len(s) : s[i][2] <= t /\ s[i][2] \in Nat
  BY <1>1, PeriodIs DEF UpTo
<1>3. p[2] \in Nat
  BY PeriodIs
<1>4. ASSUME NEW i \in 1..Len(r), NEW j \in 1..Len(r), i < j PROVE r[i][2] < r[j][2]
  <2>1. i \in 1..Len(s)
    BY <1>1, <1>4
  <2>2. CASE j = Len(s) + 1
    BY <1>1, <1>2, <1>3, <2>1, <2>2
  <2>3. CASE j # Len(s) + 1
    <3>1. j \in 1..Len(s)
      BY <1>1, <2>3
    <3>. QED BY <1>1, <1>4, <2>1, <3>1 DEF Rising
  <2>. QED BY <2>2, <2>3
<1>5. ASSUME NEW i \in 1..Len(r) PROVE r[i][2] <= p[2]
  <2>1. CASE i = Len(s) + 1
    BY <1>1, <1>3, <2>1
  <2>2. CASE i # Len(s) + 1
    <3>1. i \in 1..Len(s)
      BY <1>1, <2>2
    <3>. QED BY <1>1, <1>2, <1>3, <3>1
  <2>. QED BY <2>1, <2>2
<1>6. Rising(r) /\ UpTo(r, p[2])
  BY <1>4, <1>5 DEF Rising, UpTo
<1>. QED BY <1>6 DEF r

\* A period in front of later ones.
LEMMA RisingFrom ==
  ASSUME NEW s \in Seq(Periods), NEW p \in Periods, NEW t \in Nat,
         Rising(s), UpTo(s, t), Later(s, p[2]), p[2] <= t
  PROVE  Rising(<<p>> \o s) /\ UpTo(<<p>> \o s, t)
<1>. DEFINE r == <<p>> \o s
<1>1. <<p>> \in Seq(Periods) /\ Len(<<p>>) = 1 /\ <<p>>[1] = p /\ Len(s) \in Nat
  OBVIOUS
<1>2. /\ r \in Seq(Periods) /\ Len(r) = 1 + Len(s)
      /\ \A i \in 1..1 + Len(s) : r[i] = IF i <= 1 THEN <<p>>[i] ELSE s[i - 1]
  BY <1>1, ConcatProperties
<1>. HIDE DEF r
<1>3. r[1] = p /\ \A i \in 1..Len(r) : i # 1 => i - 1 \in 1..Len(s) /\ r[i] = s[i - 1]
  BY <1>1, <1>2
<1>4. \A i \in 1..Len(s) : s[i][2] \in Nat /\ s[i][2] <= t /\ p[2] < s[i][2]
  BY ElementOfSeq, PeriodIs DEF UpTo, Later
<1>5. ASSUME NEW i \in 1..Len(r), NEW j \in 1..Len(r), i < j PROVE r[i][2] < r[j][2]
  <2>1. j # 1 /\ j - 1 \in 1..Len(s) /\ r[j] = s[j - 1]
    BY <1>2, <1>3, <1>5
  <2>2. CASE i = 1
    BY <1>3, <1>4, <2>1, <2>2
  <2>3. CASE i # 1
    <3>1. i - 1 \in 1..Len(s) /\ r[i] = s[i - 1] /\ i - 1 < j - 1
      BY <1>2, <1>3, <1>5, <2>3
    <3>. QED BY <2>1, <3>1 DEF Rising
  <2>. QED BY <2>2, <2>3
<1>6. ASSUME NEW i \in 1..Len(r) PROVE r[i][2] <= t
  BY <1>3, <1>4, <1>6
<1>7. Rising(r) /\ UpTo(r, t)
  BY <1>5, <1>6 DEF Rising, UpTo
<1>. QED BY <1>7 DEF r

LEMMA NothingRises ==
  /\ Rising(<<>>) /\ \A t : UpTo(<<>>, t) /\ Later(<<>>, t) /\ Measured(<<>>, t)
BY DEF Rising, UpTo, Later, Measured

\* Taking the oldest of s to the end of a leaves both together as they are.
LEMMA HandedOver ==
  ASSUME NEW a \in Seq(Periods), NEW s \in Seq(Periods), s # <<>>
  PROVE  Append(a, Head(s)) \o Tail(s) = a \o s
<1>1. /\ Head(s) \in Periods /\ Tail(s) \in Seq(Periods) /\ Len(Tail(s)) = Len(s) - 1
      /\ \A i \in 1..Len(Tail(s)) : Tail(s)[i] = s[i + 1]
  BY HeadTailProperties
<1>2. Head(s) = s[1] /\ Len(s) \in Nat \ {0} /\ Len(a) \in Nat
  OBVIOUS
<1>. DEFINE b == Append(a, Head(s))
<1>3. /\ b \in Seq(Periods) /\ Len(b) = Len(a) + 1
      /\ \A i \in 1..Len(a) : b[i] = a[i]
      /\ b[Len(a) + 1] = Head(s)
  BY <1>1, AppendProperties
<1>. HIDE DEF b
<1>4. /\ b \o Tail(s) \in Seq(Periods) /\ Len(b \o Tail(s)) = Len(a) + Len(s)
      /\ \A i \in 1..Len(a) + Len(s) : (b \o Tail(s))[i] =
           IF i <= Len(b) THEN b[i] ELSE Tail(s)[i - Len(b)]
  <2>1. /\ b \o Tail(s) \in Seq(Periods) /\ Len(b \o Tail(s)) = Len(b) + Len(Tail(s))
        /\ \A i \in 1..Len(b) + Len(Tail(s)) : (b \o Tail(s))[i] =
             IF i <= Len(b) THEN b[i] ELSE Tail(s)[i - Len(b)]
    BY <1>1, <1>3, ConcatProperties
  <2>2. Len(b) + Len(Tail(s)) = Len(a) + Len(s)
    BY <1>1, <1>2, <1>3
  <2>. QED BY <2>1, <2>2
<1>5. /\ a \o s \in Seq(Periods) /\ Len(a \o s) = Len(a) + Len(s)
      /\ \A i \in 1..Len(a) + Len(s) : (a \o s)[i] =
           IF i <= Len(a) THEN a[i] ELSE s[i - Len(a)]
  BY ConcatProperties
<1>6. ASSUME NEW i \in 1..Len(a) + Len(s) PROVE (b \o Tail(s))[i] = (a \o s)[i]
  <2>1. CASE i <= Len(a)
    BY <1>2, <1>3, <1>4, <1>5, <2>1
  <2>2. CASE i = Len(a) + 1
    BY <1>2, <1>3, <1>4, <1>5, <2>2
  <2>3. CASE i > Len(a) + 1
    <3>1. i - Len(b) \in 1..Len(Tail(s)) /\ i - Len(b) + 1 = i - Len(a)
      BY <1>1, <1>2, <1>3, <2>3
    <3>. QED BY <1>1, <1>2, <1>3, <1>4, <1>5, <2>3, <3>1
  <2>4. i <= Len(a) \/ i = Len(a) + 1 \/ i > Len(a) + 1
    BY <1>2, Z3
  <2>. QED BY <2>1, <2>2, <2>3, <2>4
<1>7. b \o Tail(s) = a \o s
  BY <1>4, <1>5, <1>6, SeqEqual
<1>. QED BY <1>7 DEF b

\* Nor does it matter on which side of the cut a period is appended.
LEMMA AppendedBehind ==
  ASSUME NEW a \in Seq(Periods), NEW s \in Seq(Periods), NEW p \in Periods
  PROVE  a \o Append(s, p) = Append(a \o s, p)
<1>1. /\ <<p>> \in Seq(Periods) /\ Append(s, p) = s \o <<p>>
  BY AppendIsConcat
<1>2. a \o s \in Seq(Periods)
  BY ConcatProperties
<1>3. Append(a \o s, p) = (a \o s) \o <<p>>
  BY <1>2, AppendIsConcat
<1>4. (a \o s) \o <<p>> = a \o (s \o <<p>>)
  BY <1>1, ConcatAssociative
<1>. QED BY <1>1, <1>3, <1>4

LEMMA FeedNext ==
  ASSUME Flat, Clock, NEW d \in Detectors
  PROVE  /\ Puts(d) => Feed(d)' = Append(Feed(d), Captured(d))
         /\ Gets(d) \/ Rests(d) => Feed(d)' = Feed(d)
         /\ Seeds(d) => /\ Feed(d) = Contents(d)
                        /\ Feed(d)' = <<val["main"]>> \o Contents(d)
         /\ Drops(d) => Feed(d)' = <<>>
<1>1. Contents(d) \in Seq(Periods) /\ ema[d] \in Seq(Periods)
  BY ContentsType
<1>2. Feed(d) = ema[d] \o Contents(d) /\ Feed(d)' = ema'[d] \o Contents(d)'
  BY DEF Feed
<1>3. ASSUME Puts(d) PROVE Feed(d)' = Append(Feed(d), Captured(d))
  <2>1. Captured(d) \in Periods
    BY <1>3, CapturedType DEF Puts
  <2>2. ema[d] \o Append(Contents(d), Captured(d)) = Append(Feed(d), Captured(d))
    BY <1>1, <1>2, <2>1, AppendedBehind
  <2>. QED BY <1>2, <1>3, <2>2 DEF Puts
<1>4. ASSUME Gets(d) PROVE Feed(d)' = Feed(d)
  <2>1. Append(ema[d], Head(Contents(d))) \o Tail(Contents(d)) = Feed(d)
    BY <1>1, <1>2, <1>4, HandedOver DEF Gets
  <2>. QED BY <1>2, <1>4, <2>1 DEF Gets
<1>5. ASSUME Rests(d) PROVE Feed(d)' = Feed(d)
  BY <1>2, <1>5 DEF Rests
<1>6. ASSUME Seeds(d)
      PROVE  Feed(d) = Contents(d) /\ Feed(d)' = <<val["main"]>> \o Contents(d)
  <2>1. <<>> \o Contents(d) = Contents(d)
    BY <1>1, ConcatEmptySeq
  <2>. QED BY <1>2, <1>6, <2>1 DEF Seeds
<1>7. ASSUME Drops(d) PROVE Feed(d)' = <<>>
  <2>1. <<>> \in Seq(Periods)
    OBVIOUS
  <2>2. <<>> \o <<>> = <<>>
    BY <2>1, ConcatEmptySeq
  <2>. QED BY <1>2, <1>7, <2>2 DEF Drops
<1>. QED BY <1>3, <1>4, <1>5, <1>6, <1>7

\* Captures are counted up, one at a time, and nothing is measured ahead of them.
LEMMA CountNext ==
  ASSUME Flat, [PQNext]_pqVars, NEW d \in Detectors
  PROVE  /\ n[d] \in Nat /\ n'[d] \in Nat /\ n[d] <= n'[d]
         /\ Capture(d) => n'[d] = n[d] + 1
         /\ Puts(d) => n'[d] = Captured(d)[2] /\ n'[d] = n[d] + 1
<1>0. n \in [Detectors -> Stamps] /\ n[d] \in Nat
  BY StampIs DEF Flat
<1>1. ASSUME NEW e \in Detectors, Capture(e)
      PROVE  n'[d] = n[d] \/ n'[d] = n[d] + 1
  BY <1>0, <1>1 DEF Capture
<1>2. ASSUME Capture(d) PROVE n'[d] = n[d] + 1
  BY <1>0, <1>2 DEF Capture
<1>3. n' = n \/ \E e \in Detectors : Capture(e)
  BY DEF PQNext, Drain, BootDiscard, BootEnable, BootSeed, Begin, Look, Take, Finish, Tick,
         ConsolePrint, IrqPrint, Hook, Retime, GiveUp, InitReset, Reset, ResetPrev, ResetHave,
         ResetLatest, ResetOff, ResetFlush, producer, pqVars
<1>4. n'[d] = n[d] \/ n'[d] = n[d] + 1
  BY <1>1, <1>3
<1>5. Puts(d) => n'[d] = Captured(d)[2] /\ n'[d] = n[d] + 1
  BY <1>2 DEF Puts, Captured
<1>. QED BY <1>0, <1>2, <1>4, <1>5

LEMMA ClockStep ==
  ASSUME Flat, Clock, [PQNext]_pqVars
  PROVE  Clock'
<1>. SUFFICES ASSUME NEW d \in Detectors
              PROVE  /\ n'[d] <= MaxCaptures[d] /\ prev'[d] <= n'[d] /\ since'[d] <= n'[d] + 1
                     /\ latest'[d][2] <= n'[d]
  BY DEF Clock
<1>. USE ContextIs
<1>1. /\ n[d] \in Nat /\ prev[d] \in Nat /\ since[d] \in Nat /\ latest[d] \in Periods
      /\ latest[d][2] \in Nat /\ MaxCaptures[d] \in Nat
  BY StampIs, QueueAssumption DEF Flat
<1>2. /\ n[d] <= MaxCaptures[d] /\ prev[d] <= n[d] /\ since[d] <= n[d] + 1
      /\ latest[d][2] <= n[d]
  BY DEF Clock
<1>3. ASSUME n'[d] = n[d], prev'[d] \in {prev[d], 0}, since'[d] \in {since[d], n[d] + 1},
             latest'[d] \in {latest[d], NoPeriod}
      PROVE  /\ n'[d] <= MaxCaptures[d] /\ prev'[d] <= n'[d] /\ since'[d] <= n'[d] + 1
             /\ latest'[d][2] <= n'[d]
  BY <1>1, <1>2, <1>3 DEF NoPeriod
<1>4. ASSUME NEW e \in Detectors, Capture(e)
      PROVE  /\ n'[d] <= MaxCaptures[d] /\ prev'[d] <= n'[d] /\ since'[d] <= n'[d] + 1
             /\ latest'[d][2] <= n'[d]
  <2>1. CASE e = d
    <3>1. /\ n[d] < MaxCaptures[d] /\ n'[d] = n[d] + 1 /\ prev'[d] = n[d] + 1
          /\ since'[d] = since[d]
          /\ latest'[d] = latest[d] \/ latest'[d] = <<prev[d], n[d] + 1>>
      BY <1>4, <2>1 DEF Capture, Flat
    <3>. QED BY <1>1, <1>2, <3>1
  <2>2. CASE e # d
    BY <1>3, <1>4, <2>2 DEF Capture, Flat
  <2>. QED BY <2>1, <2>2
<1>5. ASSUME UNCHANGED <<n, prev, since, latest>>
      PROVE  /\ n'[d] <= MaxCaptures[d] /\ prev'[d] <= n'[d] /\ since'[d] <= n'[d] + 1
             /\ latest'[d][2] <= n'[d]
  BY <1>3, <1>5
<1>6. CASE \E c \in Contexts : Drain(c)
  BY <1>5, <1>6 DEF Drain, BootDiscard, BootEnable, BootSeed, Begin, Look, Take, Finish,
     producer
<1>7. CASE Tick \/ ConsolePrint \/ IrqPrint
  BY <1>5, <1>7 DEF Tick, ConsolePrint, IrqPrint, Hook, producer
<1>8. CASE GiveUp \/ InitReset \/ ResetOff \/ ResetFlush \/ UNCHANGED pqVars
  BY <1>5, <1>8 DEF GiveUp, InitReset, ResetOff, ResetFlush, producer, pqVars
<1>9. CASE Retime
  BY <1>3, <1>9 DEF Retime, producer
<1>10. CASE ResetPrev
  BY <1>3, <1>10 DEF ResetPrev, Flat
<1>11. CASE ResetHave
  BY <1>5, <1>11 DEF ResetHave
<1>12. CASE ResetLatest
  BY <1>3, <1>12 DEF ResetLatest, Flat
<1>. QED BY <1>4, <1>6, <1>7, <1>8, <1>9, <1>10, <1>11, <1>12 DEF PQNext, Reset

\* A step of another program, and of the main loop elsewhere, leaves the main loop's
\* place in the drain alone.
LEMMA MainStays ==
  ASSUME Flat, Control, [PQNext]_pqVars, at'["main"] \in {"enable", "seed"}
  PROVE  \/ BootDiscard("main")
         \/ BootEnable("main")
         \/ at'["main"] = at["main"] /\ det'["main"] = det["main"] /\ val'["main"] = val["main"]
<1>. USE ContextIs
<1>. DEFINE Stays == /\ at'["main"] = at["main"] /\ det'["main"] = det["main"]
                     /\ val'["main"] = val["main"]
<1>1. ASSUME NEW c \in Contexts, Drain(c)
      PROVE  BootDiscard("main") \/ BootEnable("main") \/ Stays
  <2>1. CASE c = "irq"
    <3>1. CASE BootSeed(c) \/ Finish(c)
      <4>1. Onward(c) /\ at'["main"] = at["main"]
        BY <2>1, <3>1, OnwardAt DEF BootSeed, Finish
      <4>2. val'["main"] = val["main"] /\ det'["main"] = det["main"]
        BY <2>1, <4>1 DEF Onward, Flat
      <4>. QED BY <4>1, <4>2
    <3>2. CASE ~(BootSeed(c) \/ Finish(c))
      BY <1>1, <2>1, <3>2 DEF Drain, BootDiscard, BootEnable, Begin, Look, Take, Goto, Flat
    <3>. QED BY <3>1, <3>2
  <2>2. CASE c = "main"
    <3>1. CASE BootSeed(c) \/ Finish(c)
      BY <2>2, <3>1, OnwardAt DEF BootSeed, Finish
    <3>2. CASE ~(BootSeed(c) \/ Finish(c))
      BY <1>1, <2>2, <3>2 DEF Drain, Begin, Look, Take, Goto, Flat
    <3>. QED BY <3>1, <3>2
  <2>. QED BY <2>1, <2>2
<1>2. CASE Tick \/ ConsolePrint \/ InitReset
  BY <1>2 DEF Tick, ConsolePrint, InitReset, Hook, Goto, Flat
<1>3. CASE IrqPrint
  BY <1>3 DEF IrqPrint, Hook, Goto, Flat
<1>4. CASE Reset
  BY <1>4 DEF Reset, ResetPrev, ResetHave, ResetLatest, ResetOff, ResetFlush, ResetStep,
     Goto, Flat
<1>5. CASE Retime \/ GiveUp \/ UNCHANGED pqVars \/ \E d \in Detectors : Capture(d)
  BY <1>5 DEF Retime, GiveUp, pqVars, Capture, locals
<1>. QED BY <1>1, <1>2, <1>3, <1>4, <1>5 DEF PQNext

\* The period in hand is the last one measured, and until the average starts from it
\* captures are all that happens to the detector.
LEMMA SeedingNext ==
  ASSUME Flat, Clock, Control, Queues, [PQNext]_pqVars, NEW d \in Detectors, Seeding(d)'
  PROVE  \/ /\ BootDiscard("main") /\ det["main"] = d /\ at["irq"] = "out"
            /\ val'["main"] = latest[d] /\ Contents(d)' = <<>>
         \/ /\ Seeding(d) /\ val'["main"] = val["main"]
            /\ Puts(d) \/ Rests(d)
<1>. USE ContextIs
<1>1. at'["main"] \in {"enable", "seed"} /\ det'["main"] = d
  BY DEF Seeding
<1>2. CASE BootDiscard("main")
  <2>1. /\ det["main"] = d /\ val'["main"] = latest[d] /\ d \notin enabled
        /\ read'[d] = write[d] /\ write'[d] = write[d] /\ at["irq"] = "out"
    BY <1>1, <1>2 DEF BootDiscard, Flat, producer, Step, Runs
  <2>2. write[d] \in Indices
    BY DEF Flat
  <2>3. Contents(d)' = <<>>
    BY <2>1, <2>2, ContentsNext, HeldNothing
  <2>. QED BY <1>2, <2>1, <2>3
<1>3. CASE ~BootDiscard("main")
  <2>1. at["main"] \in {"enable", "seed"} /\ det["main"] = d /\ val'["main"] = val["main"]
    <3>1. CASE BootEnable("main")
      BY <1>1, <3>1 DEF BootEnable, Step
    <3>2. CASE ~BootEnable("main")
      BY <1>1, <1>3, <3>2, MainStays
    <3>. QED BY <3>1, <3>2
  <2>2. ~Gets(d)
    <3>1. SUFFICES ASSUME NEW c \in Contexts, Take(c) PROVE FALSE
      BY DEF Gets
    <3>2. at[c] = "take"
      BY <3>1 DEF Take, Step
    <3>. QED BY <2>1, <3>2, OneConsumer DEF DrainSteps
  <2>3. ~Seeds(d)
    BY <1>1, OnwardAt DEF Seeds, BootSeed
  <2>4. ~Drops(d)
    BY <2>1 DEF Drops, ResetFlush, Step
  <2>5. Puts(d) \/ Rests(d)
    BY <2>2, <2>3, <2>4, Effects
  <2>. QED BY <2>1, <2>5 DEF Seeding
<1>. QED BY <1>2, <1>3

LEMMA LaterAppend ==
  ASSUME NEW s \in Seq(Periods), NEW p \in Periods, NEW t \in Nat, Later(s, t), t < p[2]
  PROVE  Later(Append(s, p), t)
<1>. DEFINE r == Append(s, p)
<1>1. /\ Len(r) = Len(s) + 1 /\ Len(s) \in Nat
      /\ \A i \in 1..Len(s) : r[i] = s[i]
      /\ r[Len(s) + 1] = p
  BY AppendProperties
<1>. HIDE DEF r
<1>2. ASSUME NEW i \in 1..Len(r) PROVE t < r[i][2]
  <2>1. CASE i = Len(s) + 1
    BY <1>1, <2>1
  <2>2. CASE i # Len(s) + 1
    <3>1. i \in 1..Len(s)
      BY <1>1, <2>2
    <3>. QED BY <1>1, <3>1 DEF Later
  <2>. QED BY <2>1, <2>2
<1>3. Later(r, t)
  BY <1>2 DEF Later
<1>. QED BY <1>3 DEF r

LEMMA UpToMore ==
  ASSUME NEW s \in Seq(Periods), NEW t \in Nat, NEW u \in Nat, UpTo(s, t), t <= u
  PROVE  UpTo(s, u)
<1>1. \A i \in 1..Len(s) : s[i][2] \in Nat
  BY ElementOfSeq, PeriodIs
<1>. QED BY <1>1 DEF UpTo

LEMMA ChronicleStep ==
  ASSUME Flat, Clock, Control, Queues, Chronicle, [PQNext]_pqVars
  PROVE  Chronicle'
<1>. SUFFICES ASSUME NEW d \in Detectors
              PROVE  /\ Rising(Feed(d)') /\ UpTo(Feed(d)', n'[d])
                     /\ Seeding(d)' => /\ val'["main"][2] <= n'[d]
                                       /\ Later(Contents(d)', val'["main"][2])
  BY DEF Chronicle, Rising, UpTo, Later
<1>. USE ContextIs
<1>1. /\ n[d] \in Nat /\ n'[d] \in Nat /\ n[d] <= n'[d]
      /\ Puts(d) => n'[d] = Captured(d)[2] /\ n'[d] = n[d] + 1 /\ Captured(d) \in Periods
  BY CountNext, CapturedType DEF Puts
<1>2. /\ Contents(d) \in Seq(Periods) /\ Feed(d) \in Seq(Periods)
      /\ val["main"] \in Periods /\ val["main"][2] \in Nat
      /\ latest[d] \in Periods /\ latest[d][2] \in Nat
  BY ContentsType, PeriodIs DEF Flat
<1>3. /\ Rising(Feed(d)) /\ UpTo(Feed(d), n[d])
      /\ Seeding(d) => val["main"][2] <= n[d] /\ Later(Contents(d), val["main"][2])
  BY DEF Chronicle
<1>4. Rising(Feed(d)') /\ UpTo(Feed(d)', n'[d])
  <2>1. ASSUME Puts(d) PROVE Rising(Feed(d)') /\ UpTo(Feed(d)', n'[d])
    <3>1. Feed(d)' = Append(Feed(d), Captured(d))
      BY <2>1, FeedNext
    <3>2. n[d] < Captured(d)[2] /\ n'[d] = Captured(d)[2] /\ Captured(d) \in Periods
      BY <1>1, <2>1
    <3>3. Rising(Append(Feed(d), Captured(d))) /\ UpTo(Append(Feed(d), Captured(d)), Captured(d)[2])
      BY <1>1, <1>2, <1>3, <3>2, RisingAppend
    <3>. QED BY <3>1, <3>2, <3>3
  <2>2. ASSUME Gets(d) \/ Rests(d) PROVE Rising(Feed(d)') /\ UpTo(Feed(d)', n'[d])
    <3>1. Feed(d)' = Feed(d)
      BY <2>2, FeedNext
    <3>2. UpTo(Feed(d), n'[d])
      BY <1>1, <1>2, <1>3, UpToMore
    <3>. QED BY <1>3, <3>1, <3>2
  <2>3. ASSUME Seeds(d) PROVE Rising(Feed(d)') /\ UpTo(Feed(d)', n'[d])
    <3>1. Feed(d) = Contents(d) /\ Feed(d)' = <<val["main"]>> \o Contents(d)
      BY <2>3, FeedNext
    <3>2. Seeding(d)
      BY <2>3 DEF Seeds, Seeding
    <3>3. /\ Rising(<<val["main"]>> \o Contents(d))
          /\ UpTo(<<val["main"]>> \o Contents(d), n[d])
      BY <1>1, <1>2, <1>3, <3>1, <3>2, RisingFrom
    <3>4. <<val["main"]>> \o Contents(d) \in Seq(Periods)
      <4>1. <<val["main"]>> \in Seq(Periods)
        BY <1>2
      <4>. QED BY <1>2, <4>1, ConcatProperties
    <3>5. UpTo(<<val["main"]>> \o Contents(d), n'[d])
      BY <1>1, <3>3, <3>4, UpToMore
    <3>. QED BY <3>1, <3>3, <3>5
  <2>4. ASSUME Drops(d) PROVE Rising(Feed(d)') /\ UpTo(Feed(d)', n'[d])
    <3>1. Feed(d)' = <<>>
      BY <2>4, FeedNext
    <3>. QED BY <3>1, NothingRises
  <2>. QED BY <2>1, <2>2, <2>3, <2>4, Effects
<1>5. ASSUME Seeding(d)'
      PROVE  val'["main"][2] <= n'[d] /\ Later(Contents(d)', val'["main"][2])
  <2>1. CASE val'["main"] = latest[d] /\ Contents(d)' = <<>>
    <3>1. latest[d][2] <= n[d]
      BY DEF Clock
    <3>2. latest[d][2] <= n'[d]
      BY <1>1, <1>2, <3>1
    <3>. QED BY <2>1, <3>2, NothingRises
  <2>2. CASE Seeding(d) /\ val'["main"] = val["main"] /\ Rests(d)
    <3>1. val["main"][2] <= n[d] /\ Later(Contents(d), val["main"][2])
      BY <1>3, <2>2
    <3>2. val["main"][2] <= n'[d]
      BY <1>1, <1>2, <3>1
    <3>. QED BY <2>2, <3>1, <3>2 DEF Rests
  <2>3. CASE Seeding(d) /\ val'["main"] = val["main"] /\ Puts(d)
    <3>1. val["main"][2] <= n[d] /\ Later(Contents(d), val["main"][2])
      BY <1>3, <2>3
    <3>2. /\ Contents(d)' = Append(Contents(d), Captured(d)) /\ Captured(d) \in Periods
          /\ Captured(d)[2] = n[d] + 1 /\ n'[d] = n[d] + 1
      BY <1>1, <2>3 DEF Puts
    <3>3. val["main"][2] < Captured(d)[2] /\ val["main"][2] <= n'[d]
      <4>1. n[d] \in Nat /\ val["main"][2] \in Nat
        BY <1>1, <1>2
      <4>. QED BY <3>1, <3>2, <4>1
    <3>4. Later(Append(Contents(d), Captured(d)), val["main"][2])
      BY <1>2, <3>1, <3>2, <3>3, LaterAppend
    <3>. QED BY <2>3, <3>2, <3>3, <3>4
  <2>. QED BY <1>5, <2>1, <2>2, <2>3, SeedingNext
<1>. QED BY <1>4, <1>5

-----------------------------------------------------------------------------
(* The reset, store by store.                                              *)

\* The reset has come past these places of detector d, or it is done with d.
Behind(d, S) == main = "reset" /\ \/ det["main"] = d /\ at["main"] \in S
                                  \/ det["main"] = "B" /\ d = "A"

\* A start was carried through, and no reset has touched d since.
Undisturbed(d) == streaming /\ (main = "reset" /\ det["main"] = d => at["main"] = "prev")

\* From here on the stamp, the last period, and what was averaged or waits, are of
\* the time base in force: the three things the reset clears, in its order.
StampSafe(d) == Behind(d, {"latest", "off", "flush"}) \/ Undisturbed(d)
LatestSafe(d) == Behind(d, {"off", "flush"}) \/ Undisturbed(d)
FeedSafe(d) == Behind(d, {}) \/ Undisturbed(d)

StampIsLast(d) == d \in have => prev[d] = n[d] /\ prev[d] >= since[d]
LatestIsMeasured(d) == latest[d] = NoPeriod \/ Neighbours(latest[d], since[d])
AllMeasured(d) ==
    /\ Measured(Feed(d), since[d])
    /\ Seeding(d) => val["main"] = NoPeriod \/ Neighbours(val["main"], since[d])

\* While a restart is under way no stream counts as started.
Halted == main = "restart" => ~streaming

Restamped == Halted /\ \A d \in Detectors : /\ StampSafe(d) => StampIsLast(d)
                                            /\ LatestSafe(d) => LatestIsMeasured(d)
                                            /\ FeedSafe(d) => AllMeasured(d)

LEMMA SafeInOrder ==
  \A d \in Detectors : /\ FeedSafe(d) => LatestSafe(d)
                       /\ LatestSafe(d) => StampSafe(d)
BY DEF FeedSafe, LatestSafe, StampSafe, Behind

\* Only the reset makes them safe, each with its own store; and it makes them unsafe
\* before it touches anything.
LEMMA SafeNext ==
  ASSUME Flat, Control, Halted, [PQNext]_pqVars, NEW d \in Detectors
  PROVE  /\ StampSafe(d)' => /\ StampSafe(d) \/ (ResetHave /\ det["main"] = d)
                             /\ ~(ResetPrev /\ det["main"] = d)
                             /\ since'[d] = since[d]
         /\ LatestSafe(d)' => LatestSafe(d) \/ (ResetLatest /\ det["main"] = d)
         /\ FeedSafe(d)' => FeedSafe(d) \/ (ResetFlush /\ det["main"] = d)
<1>. USE ContextIs
<1>. DEFINE Goal == /\ StampSafe(d)' => /\ StampSafe(d) \/ (ResetHave /\ det["main"] = d)
                                        /\ ~(ResetPrev /\ det["main"] = d)
                                        /\ since'[d] = since[d]
                    /\ LatestSafe(d)' => LatestSafe(d) \/ (ResetLatest /\ det["main"] = d)
                    /\ FeedSafe(d)' => FeedSafe(d) \/ (ResetFlush /\ det["main"] = d)
<1>1. ASSUME streaming' = streaming, since' = since, ~ResetPrev,
             at'["main"] = at["main"], det'["main"] = det["main"], main' = main
      PROVE  Goal
  BY <1>1 DEF StampSafe, LatestSafe, FeedSafe, Behind, Undisturbed
<1>2. ASSUME streaming' = streaming, since' = since, ~ResetPrev, main # "reset", main' # "reset"
      PROVE  Goal
  BY <1>2 DEF StampSafe, LatestSafe, FeedSafe, Behind, Undisturbed
<1>3. ASSUME NEW c \in Contexts, Drain(c) PROVE Goal
  <2>1. streaming' = streaming /\ since' = since
    BY <1>3 DEF Drain, BootDiscard, BootEnable, BootSeed, Begin, Look, Take, Finish, stream
  <2>2. at[c] \in DrainSteps /\ Runs(c)
    BY <1>3 DEF Drain, BootDiscard, BootEnable, BootSeed, Begin, Look, Take, Finish, Step,
       DrainSteps
  <2>3. CASE c = "main"
    <3>1. main # "reset" /\ at["main"] \notin ResetSteps
      BY <2>2, <2>3 DEF Control, Programs, DrainSteps, ResetSteps
    <3>2. main' # "reset"
      BY <1>3, <2>3, <3>1 DEF Drain, BootDiscard, BootEnable, BootSeed, Begin, Look, Take,
         Finish, Onward
    <3>3. ~ResetPrev
      BY <3>1 DEF ResetPrev, ResetStep, Step, ResetSteps
    <3>. QED BY <1>2, <2>1, <3>1, <3>2, <3>3
  <2>4. CASE c = "irq"
    <3>1. ~ResetPrev
      BY <2>2, <2>4 DEF ResetPrev, ResetStep, Step, Runs, DrainSteps
    <3>2. main' = main /\ det'["main"] = det["main"] /\ at'["main"] = at["main"]
      <4>1. CASE BootSeed(c) \/ Finish(c)
        <5>1. Onward(c) /\ at'["main"] = at["main"]
          BY <2>4, <4>1, OnwardAt DEF BootSeed, Finish
        <5>. QED BY <2>4, <5>1 DEF Onward, ByHook, Flat
      <4>2. CASE ~(BootSeed(c) \/ Finish(c))
        BY <1>3, <2>4, <4>2 DEF Drain, BootDiscard, BootEnable, Begin, Look, Take, Goto, Flat
      <4>. QED BY <4>1, <4>2
    <3>. QED BY <1>1, <2>1, <3>1, <3>2
  <2>. QED BY <2>3, <2>4
<1>4. CASE Tick \/ ConsolePrint
  <2>1. ~ResetPrev
    BY <1>4 DEF Tick, ConsolePrint, Hook, Step, ResetPrev, ResetStep
  <2>. QED BY <1>2, <1>4, <2>1 DEF Tick, ConsolePrint, Hook, stream
<1>5. CASE IrqPrint
  <2>1. ~ResetPrev
    BY <1>5 DEF IrqPrint, Hook, Goto, ResetPrev, ResetStep, Flat
  <2>. QED BY <1>1, <1>5, <2>1 DEF IrqPrint, Hook, Goto, stream, Flat
<1>6. CASE Retime
  BY <1>6 DEF Retime, StampSafe, LatestSafe, FeedSafe, Behind, Undisturbed
<1>7. CASE GiveUp
  <2>1. ~ResetPrev
    BY <1>7 DEF GiveUp, Step, ResetPrev, ResetStep
  <2>. QED BY <1>2, <1>7, <2>1 DEF GiveUp, stream
<1>8. CASE InitReset
  <2>1. /\ main' = "reset" /\ at'["main"] = "prev" /\ det' = det /\ since' = since
        /\ streaming' = streaming /\ at["main"] = "out" /\ main # "reset"
    BY <1>8 DEF InitReset, Goto, Step, ResetUnderStream, Flat
  <2>2. det["main"] = "A"
    BY <2>1 DEF Control, Programs
  <2>3. ~ResetPrev
    BY <2>1 DEF ResetPrev, ResetStep, Step
  <2>. QED BY <2>1, <2>2, <2>3 DEF StampSafe, LatestSafe, FeedSafe, Behind, Undisturbed
<1>9. CASE ResetPrev
  <2>1. /\ at["main"] = "prev" /\ at'["main"] = "have" /\ UNCHANGED <<det, since, main, streaming>>
    BY <1>9 DEF ResetPrev, ResetStep, Step, Goto, Flat, stream
  <2>2. main = "reset"
    BY <2>1 DEF Control, Programs, Flat, DrainSteps, HookSteps
  <2>. QED BY <2>1, <2>2 DEF StampSafe, LatestSafe, FeedSafe, Behind, Undisturbed
<1>10. CASE ResetHave \/ ResetLatest \/ ResetOff
  <2>1. /\ \/ at["main"] = "have" /\ at'["main"] = "latest" /\ ResetHave
           \/ at["main"] = "latest" /\ at'["main"] = "off" /\ ResetLatest
           \/ at["main"] = "off" /\ at'["main"] = "flush"
        /\ UNCHANGED <<det, since, main, streaming>>
    BY <1>10 DEF ResetHave, ResetLatest, ResetOff, ResetStep, Step, Goto, Flat, stream
  <2>2. ~ResetPrev
    BY <2>1 DEF ResetPrev, ResetStep, Step
  <2>. QED BY <2>1, <2>2 DEF StampSafe, LatestSafe, FeedSafe, Behind, Undisturbed
<1>11. CASE ResetFlush
  <2>1. /\ at["main"] = "flush" /\ since' = since /\ det["main"] \in Detectors
        /\ \/ /\ det["main"] = "A" /\ det'["main"] = "B" /\ main' = "reset"
              /\ at'["main"] = "prev" /\ streaming' = streaming
           \/ det["main"] = "B" /\ main' = "idle"
    BY <1>11 DEF ResetFlush, D, Step, Goto, Flat
  <2>2. main = "reset"
    BY <2>1 DEF Control, Programs, Flat, DrainSteps, HookSteps
  <2>3. ~ResetPrev
    BY <2>1 DEF ResetPrev, ResetStep, Step
  <2>4. CASE det["main"] = "A"
    BY <1>11, <2>1, <2>2, <2>3, <2>4 DEF StampSafe, LatestSafe, FeedSafe, Behind, Undisturbed
  <2>5. CASE det["main"] = "B"
    BY <1>11, <2>1, <2>2, <2>3, <2>5 DEF StampSafe, LatestSafe, FeedSafe, Behind, Undisturbed
  <2>. QED BY <2>1, <2>4, <2>5
<1>12. CASE UNCHANGED pqVars \/ \E e \in Detectors : Capture(e)
  <2>1. UNCHANGED <<streaming, since, at, det, main>>
    BY <1>12 DEF pqVars, Capture, locals, stream
  <2>2. ~ResetPrev
    BY <2>1 DEF ResetPrev, ResetStep, Step, Goto, Flat
  <2>. QED BY <1>1, <2>1, <2>2
<1>. QED BY <1>3, <1>4, <1>5, <1>6, <1>7, <1>8, <1>9, <1>10, <1>11, <1>12 DEF PQNext, Reset

\* Apart from its captures a detector's stamps only change when they are cleared.
LEMMA StampsNext ==
  ASSUME Flat, [PQNext]_pqVars, NEW d \in Detectors
  PROVE  \/ Capture(d)
         \/ /\ n'[d] = n[d] /\ (d \in have' => d \in have)
            /\ prev'[d] = prev[d] \/ (ResetPrev /\ det["main"] = d)
            /\ latest'[d] = latest[d] \/ latest'[d] = NoPeriod
<1>. USE ContextIs
<1>. DEFINE Goal == /\ n'[d] = n[d] /\ (d \in have' => d \in have)
                    /\ prev'[d] = prev[d] \/ (ResetPrev /\ det["main"] = d)
                    /\ latest'[d] = latest[d] \/ latest'[d] = NoPeriod
<1>1. ASSUME NEW e \in Detectors, Capture(e), e # d PROVE Goal
  BY <1>1 DEF Capture, Flat
<1>2. ASSUME UNCHANGED <<n, prev, have, latest>> PROVE Goal
  BY <1>2
<1>3. CASE \E c \in Contexts : Drain(c)
  BY <1>2, <1>3 DEF Drain, BootDiscard, BootEnable, BootSeed, Begin, Look, Take, Finish,
     producer
<1>4. CASE Tick \/ ConsolePrint \/ IrqPrint
  BY <1>2, <1>4 DEF Tick, ConsolePrint, IrqPrint, Hook, producer
<1>5. CASE Retime \/ GiveUp \/ InitReset \/ ResetOff \/ ResetFlush \/ UNCHANGED pqVars
  BY <1>2, <1>5 DEF Retime, GiveUp, InitReset, ResetOff, ResetFlush, producer, pqVars
<1>6. CASE ResetPrev
  BY <1>6 DEF ResetPrev, D, Flat
<1>7. CASE ResetHave
  BY <1>7 DEF ResetHave, ClearHave, D, Flat
<1>8. CASE ResetLatest
  BY <1>8 DEF ResetLatest, D, Flat
<1>. QED BY <1>1, <1>3, <1>4, <1>5, <1>6, <1>7, <1>8 DEF PQNext, Reset

LEMMA MeasuredAppend ==
  ASSUME NEW s \in Seq(Periods), NEW p \in Periods, NEW f, Measured(s, f), Neighbours(p, f)
  PROVE  Measured(Append(s, p), f)
<1>. DEFINE r == Append(s, p)
<1>1. /\ Len(r) = Len(s) + 1 /\ Len(s) \in Nat
      /\ \A i \in 1..Len(s) : r[i] = s[i]
      /\ r[Len(s) + 1] = p
  BY AppendProperties
<1>. HIDE DEF r
<1>2. ASSUME NEW i \in 1..Len(r) PROVE Neighbours(r[i], f)
  <2>1. CASE i = Len(s) + 1
    BY <1>1, <2>1
  <2>2. CASE i # Len(s) + 1
    <3>1. i \in 1..Len(s)
      BY <1>1, <2>2
    <3>. QED BY <1>1, <3>1 DEF Measured
  <2>. QED BY <2>1, <2>2
<1>3. Measured(r, f)
  BY <1>2 DEF Measured
<1>. QED BY <1>3 DEF r

LEMMA MeasuredFrom ==
  ASSUME NEW s \in Seq(Periods), NEW p \in Periods, NEW f, Measured(s, f), Neighbours(p, f)
  PROVE  Measured(<<p>> \o s, f)
<1>. DEFINE r == <<p>> \o s
<1>1. <<p>> \in Seq(Periods) /\ Len(<<p>>) = 1 /\ <<p>>[1] = p /\ Len(s) \in Nat
  OBVIOUS
<1>2. /\ r \in Seq(Periods) /\ Len(r) = 1 + Len(s)
      /\ \A i \in 1..1 + Len(s) : r[i] = IF i <= 1 THEN <<p>>[i] ELSE s[i - 1]
  BY <1>1, ConcatProperties
<1>. HIDE DEF r
<1>3. r[1] = p /\ \A i \in 1..Len(r) : i # 1 => i - 1 \in 1..Len(s) /\ r[i] = s[i - 1]
  BY <1>1, <1>2
<1>4. \A i \in 1..Len(s) : Neighbours(s[i], f)
  BY DEF Measured
<1>5. Measured(r, f)
  BY <1>3, <1>4 DEF Measured
<1>. QED BY <1>5 DEF r

\* A capture behind a safe stamp measures the distance to its neighbour.
LEMMA CaptureMeasures ==
  ASSUME Flat, NEW d \in Detectors, d \in have, StampIsLast(d)
  PROVE  Neighbours(Captured(d), since[d])
<1>1. prev[d] = n[d] /\ prev[d] >= since[d] /\ n[d] \in Nat
  BY StampIs DEF StampIsLast, Flat
<1>2. Captured(d)[1] = prev[d] /\ Captured(d)[2] = n[d] + 1
  BY DEF Captured
<1>. QED BY <1>1, <1>2 DEF Neighbours

LEMMA StampStep ==
  ASSUME Flat, Clock, Control, Restamped, [PQNext]_pqVars, NEW d \in Detectors, StampSafe(d)'
  PROVE  d \in have' => prev'[d] = n'[d] /\ prev'[d] >= since[d]
<1>1. /\ StampSafe(d) \/ (ResetHave /\ det["main"] = d)
      /\ ~(ResetPrev /\ det["main"] = d)
  BY SafeNext DEF Restamped
<1>2. /\ n[d] \in Nat /\ since[d] \in Nat /\ since[d] <= n[d] + 1
  BY StampIs DEF Flat, Clock
<1>3. CASE Capture(d)
  <2>1. prev'[d] = n[d] + 1 /\ n'[d] = n[d] + 1
    BY <1>3 DEF Capture, Flat
  <2>. QED BY <1>2, <2>1
<1>4. CASE ResetHave /\ det["main"] = d
  BY <1>4 DEF ResetHave, ClearHave, D
<1>5. CASE StampSafe(d) /\ ~Capture(d)
  <2>1. d \in have => prev[d] = n[d] /\ prev[d] >= since[d]
    BY <1>5 DEF Restamped, StampIsLast
  <2>. QED BY <1>1, <1>5, <2>1, StampsNext
<1>. QED BY <1>1, <1>3, <1>4, <1>5

LEMMA LatestStep ==
  ASSUME Flat, Clock, Control, Restamped, [PQNext]_pqVars, NEW d \in Detectors, LatestSafe(d)'
  PROVE  latest'[d] = NoPeriod \/ Neighbours(latest'[d], since[d])
<1>. USE ContextIs
<1>1. LatestSafe(d) \/ (ResetLatest /\ det["main"] = d)
  BY SafeNext DEF Restamped
<1>2. CASE ResetLatest /\ det["main"] = d
  BY <1>2 DEF ResetLatest, D, Flat
<1>3. CASE LatestSafe(d)
  <2>1. StampIsLast(d) /\ LatestIsMeasured(d)
    BY <1>3, SafeInOrder DEF Restamped
  <2>2. CASE Capture(d)
    <3>1. latest'[d] = IF d \in have THEN Captured(d) ELSE latest[d]
      BY <2>2 DEF Capture, Captured, Flat
    <3>. QED BY <2>1, <3>1, CaptureMeasures DEF LatestIsMeasured
  <2>3. CASE ~Capture(d)
    BY <2>1, <2>3, StampsNext DEF LatestIsMeasured
  <2>. QED BY <2>2, <2>3
<1>. QED BY <1>1, <1>2, <1>3

LEMMA FeedStep ==
  ASSUME Flat, Clock, Control, Queues, Restamped, [PQNext]_pqVars,
         NEW d \in Detectors, FeedSafe(d)'
  PROVE  /\ Measured(Feed(d)', since[d])
         /\ Seeding(d)' => val'["main"] = NoPeriod \/ Neighbours(val'["main"], since[d])
<1>. USE ContextIs
<1>1. FeedSafe(d) \/ (ResetFlush /\ det["main"] = d)
  BY SafeNext DEF Restamped
<1>2. /\ Contents(d) \in Seq(Periods) /\ Feed(d) \in Seq(Periods) /\ val["main"] \in Periods
  BY ContentsType DEF Flat
<1>3. CASE FeedSafe(d)
  <2>1. StampIsLast(d) /\ LatestIsMeasured(d) /\ AllMeasured(d)
    BY <1>3, SafeInOrder DEF Restamped
  <2>2. Measured(Feed(d), since[d])
    BY <2>1 DEF AllMeasured
  <2>3. Measured(Feed(d)', since[d])
    <3>1. ASSUME Puts(d) PROVE Measured(Feed(d)', since[d])
      <4>1. Captured(d) \in Periods /\ Neighbours(Captured(d), since[d])
        BY <2>1, <3>1, CapturedType, CaptureMeasures DEF Puts
      <4>2. Measured(Append(Feed(d), Captured(d)), since[d])
        BY <1>2, <2>2, <4>1, MeasuredAppend
      <4>. QED BY <3>1, <4>2, FeedNext
    <3>2. ASSUME Gets(d) \/ Rests(d) PROVE Measured(Feed(d)', since[d])
      BY <2>2, <3>2, FeedNext
    <3>3. ASSUME Seeds(d) PROVE Measured(Feed(d)', since[d])
      <4>1. Neighbours(val["main"], since[d])
        BY <2>1, <3>3 DEF AllMeasured, Seeds, Seeding
      <4>2. Feed(d) = Contents(d) /\ Feed(d)' = <<val["main"]>> \o Contents(d)
        BY <3>3, FeedNext
      <4>3. Measured(<<val["main"]>> \o Contents(d), since[d])
        BY <1>2, <2>2, <4>1, <4>2, MeasuredFrom
      <4>. QED BY <4>2, <4>3
    <3>4. ASSUME Drops(d) PROVE Measured(Feed(d)', since[d])
      BY <3>4, FeedNext, NothingRises
    <3>. QED BY <3>1, <3>2, <3>3, <3>4, Effects
  <2>4. ASSUME Seeding(d)'
        PROVE  val'["main"] = NoPeriod \/ Neighbours(val'["main"], since[d])
    BY <2>1, <2>4, SeedingNext DEF AllMeasured, LatestIsMeasured
  <2>. QED BY <2>3, <2>4
<1>4. CASE ResetFlush /\ det["main"] = d
  <2>1. Contents(d)' = <<>> /\ ema'[d] = <<>>
    <3>1. /\ read' = [read EXCEPT ![d] = write[d]] /\ ema' = [ema EXCEPT ![d] = <<>>]
          /\ write' = write
      BY <1>4 DEF ResetFlush, D, producer
    <3>2. read'[d] = write'[d] /\ write'[d] \in Indices /\ ema'[d] = <<>>
      BY <3>1 DEF Flat
    <3>. QED BY <3>2, ContentsNext, HeldNothing
  <2>2. Feed(d)' = <<>>
    <3>1. <<>> \in Seq(Periods)
      OBVIOUS
    <3>2. <<>> \o <<>> = <<>>
      BY <3>1, ConcatEmptySeq
    <3>. QED BY <2>1, <3>2 DEF Feed
  <2>3. ~Seeding(d)'
    BY <1>4 DEF ResetFlush, Goto, Seeding, Flat
  <2>. QED BY <2>2, <2>3, NothingRises
<1>. QED BY <1>1, <1>3, <1>4

LEMMA HaltedNext ==
  ASSUME Flat, Control, Halted, [PQNext]_pqVars
  PROVE  Halted'
<1>. USE ContextIs
<1>1. CASE Retime
  BY <1>1 DEF Retime, Halted
<1>2. CASE InitReset
  BY <1>2 DEF InitReset, Halted
<1>3. CASE GiveUp
  BY <1>3 DEF GiveUp, Halted
<1>4. CASE ResetFlush
  BY <1>4 DEF ResetFlush, Halted
<1>5. ASSUME NEW c \in Contexts, Drain(c) PROVE main' \in {main, "idle"} /\ streaming' = streaming
  BY <1>5 DEF Drain, BootDiscard, BootEnable, BootSeed, Begin, Look, Take, Finish, Onward, stream
<1>6. CASE Tick \/ ConsolePrint \/ IrqPrint
  BY <1>6 DEF Tick, ConsolePrint, IrqPrint, Hook, Halted, stream
<1>7. CASE ResetPrev \/ ResetHave \/ ResetLatest \/ ResetOff
  BY <1>7 DEF ResetPrev, ResetHave, ResetLatest, ResetOff, Halted, stream
<1>8. CASE UNCHANGED pqVars \/ \E d \in Detectors : Capture(d)
  BY <1>8 DEF pqVars, Capture, Halted, stream
<1>9. CASE \E c \in Contexts : Drain(c)
  BY <1>5, <1>9 DEF Halted
<1>. QED BY <1>1, <1>2, <1>3, <1>4, <1>6, <1>7, <1>8, <1>9 DEF PQNext, Reset

LEMMA RestampedStep ==
  ASSUME Flat, Clock, Control, Queues, Restamped, [PQNext]_pqVars
  PROVE  Restamped'
<1>1. Halted'
  BY HaltedNext DEF Restamped
<1>2. ASSUME NEW d \in Detectors, StampSafe(d)'
      PROVE  StampIsLast(d)' /\ since'[d] = since[d]
  <2>1. since'[d] = since[d]
    BY <1>2, SafeNext DEF Restamped
  <2>2. d \in have' => prev'[d] = n'[d] /\ prev'[d] >= since[d]
    BY <1>2, StampStep
  <2>. QED BY <2>1, <2>2 DEF StampIsLast
<1>3. ASSUME NEW d \in Detectors, LatestSafe(d)'
      PROVE  LatestIsMeasured(d)'
  <2>1. StampSafe(d)'
    BY <1>3 DEF LatestSafe, StampSafe, Behind
  <2>2. since'[d] = since[d]
    BY <1>2, <2>1
  <2>3. latest'[d] = NoPeriod \/ Neighbours(latest'[d], since[d])
    BY <1>3, LatestStep
  <2>. QED BY <2>2, <2>3 DEF LatestIsMeasured, Neighbours
<1>4. ASSUME NEW d \in Detectors, FeedSafe(d)'
      PROVE  AllMeasured(d)'
  <2>1. StampSafe(d)'
    BY <1>4 DEF FeedSafe, StampSafe, Behind
  <2>2. since'[d] = since[d]
    BY <1>2, <2>1
  <2>3. /\ Measured(Feed(d)', since[d])
        /\ Seeding(d)' => val'["main"] = NoPeriod \/ Neighbours(val'["main"], since[d])
    BY <1>4, FeedStep
  <2>. QED BY <2>2, <2>3 DEF AllMeasured, Measured, Neighbours
<1>. QED BY <1>1, <1>2, <1>3, <1>4 DEF Restamped

-----------------------------------------------------------------------------
(* The theorems. An interrupt that printed while the tick drains would be a *)
(* second consumer; the release build has no such print.                    *)

PeriodInv == Flat /\ Clock /\ Control /\ Queues /\ Chronicle /\ Restamped

LEMMA InitEmpty ==
  ASSUME PQInit, NEW d \in Detectors
  PROVE  Flat /\ Used(d) = 0 /\ Contents(d) = <<>> /\ ema[d] = <<>> /\ Feed(d) = <<>>
<1>. USE ContextIs
<1>1. 0 \in Indices /\ 0 \in Stamps /\ NoPeriod \in Periods
  BY Sizes, StampIs DEF Indices
<1>2. [i \in Places |-> NoPeriod] \in [Places -> Periods] /\ <<>> \in Seq(Periods)
  BY <1>1
<1>3. restarts \in 0..MaxRestarts
  BY QueueAssumption DEF PQInit
<1>4. Flat
  BY <1>1, <1>2, <1>3 DEF PQInit, Flat, Each, Both, Places
<1>5. read[d] = 0 /\ write[d] = 0 /\ ema[d] = <<>>
  BY DEF PQInit, Each
<1>6. Used(d) = 0 /\ Contents(d) = <<>>
  BY <1>1, <1>5, UsedIs, ApartInRange, ContentsAreHeld, HeldNothing
<1>7. <<>> \o <<>> = <<>>
  BY <1>2, ConcatEmptySeq
<1>. QED BY <1>4, <1>5, <1>6, <1>7 DEF Feed

LEMMA InitPeriodInv == PQInit => PeriodInv
<1>. SUFFICES ASSUME PQInit PROVE PeriodInv
  OBVIOUS
<1>. USE ContextIs
<1>1. /\ Flat /\ \A d \in Detectors : /\ Used(d) = 0 /\ Contents(d) = <<>>
                                      /\ ema[d] = <<>> /\ Feed(d) = <<>>
  BY InitEmpty
<1>2. /\ n = Each(0) /\ since = Each(1) /\ prev = Each(0) /\ latest = Each(NoPeriod)
      /\ have = {} /\ enabled = {} /\ at = Both("out") /\ det = Both("A")
      /\ main = "idle" /\ inDrain = FALSE /\ streaming = FALSE
      /\ write = Each(0) /\ read = Each(0)
  BY DEF PQInit
<1>3. Clock
  <2>1. \A d \in Detectors : MaxCaptures[d] \in Nat
    BY QueueAssumption
  <2>. QED BY <1>2, <2>1 DEF Clock, Each, NoPeriod
<1>4. Control
  BY <1>2 DEF Control, Programs, FlagHeld, Switches, Both, HookSteps, DrainSteps
<1>5. Queues
  BY <1>1, <1>2, Sizes DEF Queues, Bounded, Batches, Emptied, Flushing, Both, Each
<1>6. Chronicle
  BY <1>1, <1>2, NothingRises DEF Chronicle, Seeding, Both
<1>7. Restamped
  BY <1>2 DEF Restamped, Halted, StampSafe, LatestSafe, FeedSafe, Behind, Undisturbed
<1>. QED BY <1>1, <1>3, <1>4, <1>5, <1>6, <1>7 DEF PeriodInv

LEMMA PeriodInvStep ==
  ASSUME ~PrintsDuringTick, PeriodInv, [PQNext]_pqVars
  PROVE  PeriodInv'
BY PeriodTypeStep, ClockStep, ControlStep, QueuesStep, ChronicleStep, RestampedStep DEF PeriodInv

\* The inductive invariant of the measurement.
THEOREM PeriodInvariant ==
  ASSUME ~PrintsDuringTick
  PROVE  PQSpec => []PeriodInv
<1>1. PeriodInv /\ [PQNext]_pqVars => PeriodInv'
  BY PeriodInvStep
<1>. QED BY <1>1, InitPeriodInv, PTL DEF PQSpec

\* The variables keep their types, and no queue holds more than its length.
THEOREM PeriodTypes ==
  ASSUME ~PrintsDuringTick
  PROVE  PQSpec => []PQTypeOK
<1>1. PeriodInv => PQTypeOK
  BY TypeIs DEF PeriodInv, Queues
<1>. QED BY <1>1, PeriodInvariant, PTL

\* What a detector's average is fed comes in the order it was measured and no period
\* comes twice, whatever prints, starts and resets cut the drains.
THEOREM PeriodsInOrder ==
  ASSUME ~PrintsDuringTick
  PROVE  PQSpec => []FedInOrder
<1>1. PeriodInv => FedInOrder
  <2>. SUFFICES ASSUME PeriodInv, NEW d \in Detectors, NEW i \in 1..Len(Feed(d)) - 1
                PROVE  Feed(d)[i][2] < Feed(d)[i + 1][2]
    BY DEF FedInOrder, Feed
  <2>1. Rising(Feed(d)) /\ Feed(d) \in Seq(Periods)
    BY ContentsType DEF PeriodInv, Chronicle
  <2>2. Len(Feed(d)) \in Nat
    BY <2>1, LenProperties
  <2>3. i \in 1..Len(Feed(d)) /\ i + 1 \in 1..Len(Feed(d)) /\ i < i + 1
    BY <2>2
  <2>. QED BY <2>1, <2>3 DEF Rising
<1>. QED BY <1>1, PeriodInvariant, PTL

\* Once a start is carried through, everything that was averaged or waits is the
\* distance of two neighbouring captures on the time base in force.
THEOREM PeriodsMeasured ==
  ASSUME ~PrintsDuringTick
  PROVE  PQSpec => []FedIsMeasured
<1>1. PeriodInv => FedIsMeasured
  <2>. SUFFICES ASSUME PeriodInv, streaming, main \in {"idle", "tick"}, NEW d \in Detectors,
                       NEW i \in 1..Len(Feed(d))
                PROVE  Feed(d)[i][1] = Feed(d)[i][2] - 1 /\ Feed(d)[i][1] >= since[d]
    BY DEF FedIsMeasured, Feed
  <2>1. FeedSafe(d)
    BY DEF FeedSafe, Undisturbed
  <2>2. Measured(Feed(d), since[d])
    BY <2>1 DEF PeriodInv, Restamped, AllMeasured
  <2>. QED BY <2>2 DEF Measured, Neighbours
<1>. QED BY <1>1, PeriodInvariant, PTL

\* Each detector's ring, its free-running indices, its producer in the interrupt and
\* the drains of the tick and of the prints are one bounded queue with one consumer.
THEOREM PeriodsQueued ==
  ASSUME ~PrintsDuringTick
  PROVE  PQSpec => PeriodsAreQueues
<1>. USE ContextIs
<1>1. PQInit => QueueA!Init /\ QueueB!Init
  <2>. SUFFICES ASSUME PQInit PROVE QueueA!Init /\ QueueB!Init
    OBVIOUS
  <2>1. /\ Contents("A") = <<>> /\ Contents("B") = <<>>
        /\ got["A"] \in Periods /\ got["B"] \in Periods
    BY InitEmpty DEF Flat
  <2>. QED BY <2>1 DEF QueueA!Init, QueueB!Init
<1>2. PeriodInv /\ [PQNext]_pqVars => [QueueA!Next]_(QueueA!vars)
  <2>. SUFFICES ASSUME PeriodInv, [PQNext]_pqVars PROVE [QueueA!Next]_(QueueA!vars)
    OBVIOUS
  <2>1. \/ /\ \E x \in Periods : Contents("A")' = Append(Contents("A"), x)
           /\ Len(Contents("A")) < Length /\ got'["A"] = got["A"]
        \/ /\ Contents("A") # <<>> /\ got'["A"] = Head(Contents("A"))
           /\ Contents("A")' = Tail(Contents("A"))
        \/ Contents("A")' = <<>> /\ got'["A"] = got["A"]
        \/ Contents("A")' = Contents("A") /\ got'["A"] = got["A"]
    BY QueueMoves DEF PeriodInv
  <2>. QED BY <2>1 DEF QueueA!Next, QueueA!Put, QueueA!Get, QueueA!Clear, QueueA!vars
<1>3. PeriodInv /\ [PQNext]_pqVars => [QueueB!Next]_(QueueB!vars)
  <2>. SUFFICES ASSUME PeriodInv, [PQNext]_pqVars PROVE [QueueB!Next]_(QueueB!vars)
    OBVIOUS
  <2>1. \/ /\ \E x \in Periods : Contents("B")' = Append(Contents("B"), x)
           /\ Len(Contents("B")) < Length /\ got'["B"] = got["B"]
        \/ /\ Contents("B") # <<>> /\ got'["B"] = Head(Contents("B"))
           /\ Contents("B")' = Tail(Contents("B"))
        \/ Contents("B")' = <<>> /\ got'["B"] = got["B"]
        \/ Contents("B")' = Contents("B") /\ got'["B"] = got["B"]
    BY QueueMoves DEF PeriodInv
  <2>. QED BY <2>1 DEF QueueB!Next, QueueB!Put, QueueB!Get, QueueB!Clear, QueueB!vars
<1>. QED BY <1>1, <1>2, <1>3, PeriodInvariant, PTL
         DEF PQSpec, PeriodsAreQueues, QueueA!Spec, QueueB!Spec
=============================================================================
