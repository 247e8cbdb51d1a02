---------------------------- MODULE CoeffUpload ----------------------------
(***************************************************************************)
(* The upload of filter coefficients over the console: the receive         *)
(* interrupt and its ring (hal_uart), the two ports that share one command *)
(* parser (uart_app/app_debug.c), the transfer, its watchdog and the apply *)
(* steps (uart_app/app_biquad_coeff_csv.c), and the filter cascade that    *)
(* the audio interrupt runs (apps/classic/dsp/biquad_cascade_4ch.c).       *)
(*                                                                         *)
(* Lines are atoms: one token of the ring is a line, and a byte lost or    *)
(* damaged spoils its line or loses it.  The build is the shipping one,    *)
(* which parses on arrival (APP_CSV_DEFER_PARSE = 0).  Both interrupts may *)
(* come between any two steps of the main loop.                            *)
(***************************************************************************)
EXTENDS Naturals, Sequences

CONSTANTS Rows,        \* rows of a coefficient file
          RingLines,   \* lines that the receive ring holds
          Values,      \* what a row may hold
          NonFinite,   \* the values that the loader refuses (NaN, Inf)
          MaxLines,    \* bound: lines sent to port 1
          MaxLines2,   \* bound: lines sent to port 2
          MaxHurts     \* bound: lines lost or damaged

ASSUME SizeAssumption == Rows \in Nat \ {0} /\ RingLines \in Nat \ {0}
ASSUME ValuesAssumption == Values # {} /\ NonFinite \subseteq Values
ASSUME LinesAssumption == {MaxLines, MaxLines2, MaxHurts} \subseteq Nat

VARIABLES
    \* the receive side of port 1
    rx,          \* the lines in the ring
    faulty,      \* integrity faults were counted since the baseline
    \* the console
    mode,        \* "normal", "csv" or "reject" (port 2 tried an upload)
    src,         \* the port that owns the parser: 0 (none), 1 or 2
    typing,      \* a command line is in progress
    quiet2,      \* port 2 was silent for 500 ms
    \* the transfer
    receiving, draining, rows, staging,
    moved,       \* a byte was fed since the watchdog's last look
    due,         \* 2 s have passed since that look
    \* the apply steps
    request, apply,
    ackDue,      \* 200 ms have passed since the wait began
    \* the cascade
    proc,        \* what the audio interrupt calls: "active" or "bypass"
    pstate,      \* "normal", "requested" or "active" (the bypass is)
    todo,        \* the second store of a request that main still has to do
    running,     \* the audio transport runs
    pc,          \* where the main loop is
    sent, sent2, hurts,
    \* history
    gap,         \* a line was lost since the last that was stored
    spoiled,     \* damage that the open or the last transfer has accepted
    user         \* the bypass was asked for at the console

uart     == <<rx, faulty, gap>>
console  == <<mode, src, typing, quiet2>>
transfer == <<receiving, draining, rows, staging, moved, due, spoiled>>
applying == <<request, apply, ackDue>>
cascade  == <<proc, pstate, todo, user>>
bounds   == <<sent, sent2, hurts>>
vars     == <<uart, console, transfer, applying, cascade, running, pc, bounds>>

\* A line, and whether it, or one lost before it, was hurt on the way: before
\* the transfer that was open when it arrived ("early"), or during it.
Kinds  == {"begin", "row", "end", "esc", "text", "part"}
Damage == {"no", "early", "during"}
Lines  == [kind : Kinds, value : Values, hurt : Damage]

Plain == CHOOSE v \in Values : TRUE

InTransfer == receiving \/ draining
WaitEnd    == rows = Rows

TypeOK ==
    /\ rx \in Seq(Lines) /\ Len(rx) <= RingLines /\ faulty \in BOOLEAN
    /\ mode \in {"normal", "csv", "reject"} /\ src \in 0..2
    /\ typing \in BOOLEAN /\ quiet2 \in BOOLEAN
    /\ receiving \in BOOLEAN /\ draining \in BOOLEAN
    /\ rows \in 0..Rows /\ staging \in [1..Rows -> Values]
    /\ moved \in BOOLEAN /\ due \in BOOLEAN
    /\ request \in BOOLEAN /\ apply \in {"idle", "wait", "copy"}
    /\ ackDue \in BOOLEAN
    /\ proc \in {"active", "bypass"}
    /\ pstate \in {"normal", "requested", "active"}
    /\ todo \in {"none", "normal", "bypass"} /\ running \in BOOLEAN
    /\ pc \in {"rx1", "rx2", "watch", "apply", "ack", "load", "restore", "end"}
    /\ sent \in 0..MaxLines /\ sent2 \in 0..MaxLines2 /\ hurts \in 0..MaxHurts
    /\ gap \in Damage /\ spoiled \in Damage /\ user \in BOOLEAN

\* Rows that were never written hold zero, a value like another.
Init ==
    /\ rx = <<>> /\ faulty = FALSE
    /\ mode = "normal" /\ src = 0 /\ typing = FALSE /\ quiet2 = FALSE
    /\ receiving = FALSE /\ draining = FALSE /\ rows = 0
    /\ staging = [k \in 1..Rows |-> Plain]
    /\ moved = FALSE /\ due = FALSE
    /\ request = FALSE /\ apply = "idle" /\ ackDue = FALSE
    /\ proc = "active" /\ pstate = "normal" /\ todo = "none"
    /\ running \in BOOLEAN /\ pc = "rx1"
    /\ sent = 0 /\ sent2 = 0 /\ hurts = 0
    /\ gap = "no" /\ spoiled = "no" /\ user = FALSE

-----------------------------------------------------------------------------
(* The cascade: two stores each, in this order, and the audio interrupt     *)
(* may come between them.                                                   *)

RequestNormal ==
    /\ proc' = "active" /\ todo' = "normal" /\ user' = FALSE
    /\ UNCHANGED pstate

RequestBypass(byUser) ==
    IF pstate = "normal"
    THEN pstate' = "requested" /\ todo' = "bypass" /\ user' = byUser
         /\ UNCHANGED proc
    ELSE UNCHANGED <<proc, pstate, todo, user>>

\* Mutant: the promotion does not ask whether a bypass was requested.
ConfirmAlways == pstate' = "active"

ConfirmBypassStopped ==
    pstate' = IF pstate = "requested" THEN "active" ELSE pstate

SecondStore ==
    /\ todo # "none"
    /\ IF todo = "normal" THEN pstate' = "normal" /\ UNCHANGED proc
                          ELSE proc' = "bypass" /\ UNCHANGED pstate
    /\ todo' = "none"
    /\ UNCHANGED <<uart, console, transfer, applying, user, running, pc, bounds>>

\* One audio block: the bypass function acknowledges itself.
AudioBlock ==
    /\ running /\ proc = "bypass" /\ pstate # "active"
    /\ pstate' = "active"
    /\ UNCHANGED <<uart, console, transfer, applying, proc, todo, user, running,
                   pc, bounds>>

-----------------------------------------------------------------------------
(* Port 1's receive interrupt.                                              *)

Now == IF receiving THEN "during" ELSE "early"
Worse(a, b) == IF "during" \in {a, b} THEN "during"
               ELSE IF "early" \in {a, b} THEN "early" ELSE "no"

\* A line arrives: whole; damaged, which the error flags of the same pass
\* count; or lost, in the hardware or because the ring is full, and counted.
Arrive(k, v) ==
    /\ sent < MaxLines /\ sent' = sent + 1
    /\ Len(rx) < RingLines
    /\ rx' = Append(rx, [kind |-> k, value |-> v, hurt |-> gap])
    /\ gap' = "no"
    /\ UNCHANGED <<faulty, hurts>>

ArriveHurt(k, v) ==
    /\ sent < MaxLines /\ sent' = sent + 1
    /\ hurts < MaxHurts /\ hurts' = hurts + 1
    /\ faulty' = TRUE
    /\ \/ gap' = Worse(gap, Now) /\ UNCHANGED rx
       \/ /\ Len(rx) < RingLines
          /\ rx' = Append(rx, [kind |-> k, value |-> v, hurt |-> Worse(gap, Now)])
          /\ gap' = "no"

\* A damaged row still reads as a row, or is text; any other damaged line is
\* text.  Lines other than rows have no value.
Receive ==
    /\ \/ \E k \in Kinds \ {"row"} : Arrive(k, Plain)
       \/ \E v \in Values : Arrive("row", v)
       \/ \E v \in Values : ArriveHurt("row", v)
       \/ ArriveHurt("text", Plain)
    /\ UNCHANGED <<console, transfer, applying, cascade, running, pc, sent2>>

-----------------------------------------------------------------------------
(* The transfer.                                                            *)

\* Mutant: the filters stay bypassed.
AbortKeepsBypass(drain) ==
    /\ UNCHANGED <<proc, pstate, todo, user>>
    /\ receiving' = FALSE /\ draining' = drain /\ rows' = 0

\* local_biquad_csv_abort, and .._abort_and_drain when `drain' is TRUE.
Abort(drain) ==
    /\ RequestNormal
    /\ receiving' = FALSE /\ draining' = drain /\ rows' = 0

Busy == request \/ apply # "idle"

\* Mutant: an upload may begin while one is being applied.
MayStartAlways == TRUE

MayStart == ~Busy

\* A header with a shape that the parser accepts; a refused one is consumed.
StartFromHeader ==
    IF MayStart
    THEN /\ RequestBypass(FALSE)
         /\ receiving' = TRUE /\ draining' = FALSE /\ rows' = 0
         /\ due' = FALSE /\ spoiled' = "no"
         /\ mode' = "csv"
         /\ UNCHANGED <<staging, moved, typing, quiet2>>
    ELSE UNCHANGED <<transfer, cascade, mode, typing, quiet2>>

\* The end marker in its place: hand the staging rows over, flush the ring.
Commit ==
    IF Busy
    THEN /\ Abort(FALSE) /\ rx' = Tail(rx) /\ UNCHANGED <<request, staging>>
    ELSE /\ request' = TRUE /\ receiving' = FALSE /\ rows' = 0 /\ rx' = <<>>
         /\ UNCHANGED <<draining, staging, cascade>>

RoomForRow == ~WaitEnd

\* A line of an open transfer.  A comment among the rows is ignored, and so is
\* a second header.
FeedLine(l) ==
    \/ /\ l.kind = "end" /\ WaitEnd
       /\ Commit
    \/ /\ l.kind = "row" /\ RoomForRow
       /\ rows' = rows + 1
       /\ staging' = [staging EXCEPT ![rows + 1] = l.value]
       /\ rx' = Tail(rx)
       /\ UNCHANGED <<receiving, draining, request, cascade>>
    \/ /\ l.kind = "begin" /\ ~WaitEnd
       /\ rx' = Tail(rx)
       /\ UNCHANGED <<receiving, draining, rows, staging, request, cascade>>
    \/ /\ \/ l.kind = "esc"
          \/ l.kind = "end" /\ ~WaitEnd
       /\ Abort(FALSE) /\ rx' = Tail(rx) /\ UNCHANGED <<staging, request>>
    \/ /\ \/ l.kind \in {"text", "part"}
          \/ l.kind \in {"row", "begin"} /\ WaitEnd
       /\ Abort(TRUE) /\ rx' = Tail(rx) /\ UNCHANGED <<staging, request>>

\* app_biquad_coeff_csv_feed_char and the mode its result leaves: the drain
\* that a line starts returns FALSE like every other end of the transfer.
FeedChar(l) ==
    /\ moved' = TRUE
    /\ \/ /\ receiving
          /\ FeedLine(l)
          /\ spoiled' = Worse(spoiled, l.hurt)
          /\ mode' = IF receiving' THEN "csv" ELSE "normal"
       \/ /\ ~receiving
          /\ draining' = (draining /\ l.kind \notin {"esc", "end"})
          /\ mode' = IF draining' THEN "csv" ELSE "normal"
          /\ rx' = Tail(rx)
          /\ rows' = 0
          /\ UNCHANGED <<receiving, staging, request, spoiled, cascade>>
    /\ UNCHANGED <<due, apply, ackDue, running, typing, quiet2>>

-----------------------------------------------------------------------------
(* The console: app_debug.c.                                                *)

\* A command or a hot key, whole: it may switch the filters or the transport.
Command ==
    \/ UNCHANGED <<cascade, running>>
    \/ RequestBypass(TRUE) /\ UNCHANGED running
    \/ RequestNormal /\ UNCHANGED running
    \/ running' = ~running /\ UNCHANGED cascade

\* A line in normal mode, from either port.  Rows that come here are text.
NormalLine(p, kind) ==
    \/ /\ kind = "begin" /\ p = 1
       /\ StartFromHeader
       /\ UNCHANGED running
    \/ /\ kind = "begin" /\ p = 2
       /\ mode' = "reject" /\ quiet2' = FALSE
       /\ UNCHANGED <<transfer, cascade, typing, running>>
    \/ /\ kind = "text"
       /\ typing' = FALSE
       /\ Command
       /\ UNCHANGED <<transfer, mode, quiet2>>
    \/ /\ kind = "row"
       /\ typing' = FALSE
       /\ UNCHANGED <<transfer, cascade, running, mode, quiet2>>
    \/ /\ kind = "part"
       /\ typing' = TRUE
       /\ UNCHANGED <<transfer, cascade, running, mode, quiet2>>
    \/ /\ kind \in {"end", "esc"}
       /\ UNCHANGED <<transfer, cascade, running, mode, typing, quiet2>>

\* Some hot keys drop what is queued at both ports.
Flushes(kind) == kind = "text" /\ rx' = <<>>

\* Behind each line: the port keeps the parser while a line is in progress.
Relock(p) == src' = IF mode' = "normal" /\ ~typing' THEN 0 ELSE p

AtLines(where) == pc = where /\ todo = "none"

\* One line of port 1.  The other port's owner discards it.
ReadUart1 ==
    /\ AtLines("rx1") /\ rx # <<>>
    /\ \/ /\ src = 2
          /\ rx' = Tail(rx)
          /\ UNCHANGED <<console, transfer, applying, cascade, running>>
       \/ /\ src # 2 /\ mode = "csv"
          /\ FeedChar(Head(rx)) /\ Relock(1)
       \/ /\ src # 2 /\ mode # "csv"
          /\ NormalLine(1, Head(rx).kind) /\ Relock(1)
          /\ rx' = Tail(rx) \/ Flushes(Head(rx).kind)
          /\ UNCHANGED applying
    /\ UNCHANGED <<faulty, gap, pc, bounds>>

LeaveUart1 ==
    /\ AtLines("rx1") /\ rx = <<>>
    /\ pc' = "rx2"
    /\ UNCHANGED <<uart, console, transfer, applying, cascade, running, bounds>>

\* One line of port 2, which is polled.
ReadUart2 ==
    /\ AtLines("rx2")
    /\ sent2 < MaxLines2 /\ sent2' = sent2 + 1
    /\ \E kind \in Kinds :
          \/ /\ src = 1
             /\ UNCHANGED <<rx, console, transfer, cascade, running>>
          \/ /\ src # 1 /\ mode = "reject"
             /\ quiet2' = FALSE /\ src' = 2
             /\ UNCHANGED <<rx, mode, typing, transfer, cascade, running>>
          \/ /\ src # 1 /\ mode # "reject"
             /\ NormalLine(2, kind) /\ Relock(2)
             /\ UNCHANGED rx \/ Flushes(kind)
    /\ UNCHANGED <<faulty, gap, applying, pc, sent, hurts>>

\* Mutant: the baseline follows the counter during a reception too.
IdleUnlessDraining == ~draining

Idle == ~InTransfer

\* Behind the lines: the refused stream of port 2 ends in silence, and an idle
\* module takes the counter as its new baseline.
LeaveUart2 ==
    /\ AtLines("rx2")
    /\ IF mode = "reject" /\ quiet2
       THEN mode' = "normal" /\ src' = 0
       ELSE UNCHANGED <<mode, src>>
    /\ faulty' = (faulty /\ ~Idle)
    /\ pc' = "watch"
    /\ UNCHANGED <<rx, gap, typing, quiet2, transfer, applying, cascade, running,
                   bounds>>

\* local_biquad_csv_transport_watchdog
Silent == due /\ ~moved

Watchdog ==
    /\ AtLines("watch")
    /\ IF InTransfer
       THEN /\ moved' = FALSE /\ due' = Silent
            /\ \/ receiving /\ faulty /\ Abort(TRUE)
               \/ receiving /\ ~faulty /\ Silent /\ Abort(FALSE)
               \/ ~receiving /\ Silent /\ draining' = FALSE /\ rows' = 0
                  /\ UNCHANGED <<receiving, cascade>>
               \/ ~(receiving /\ faulty) /\ ~Silent
                  /\ UNCHANGED <<receiving, draining, rows, cascade>>
       ELSE UNCHANGED <<receiving, draining, rows, moved, due, cascade>>
    /\ pc' = "apply"
    /\ UNCHANGED <<uart, console, staging, spoiled, applying, running, bounds>>

-----------------------------------------------------------------------------
(* The apply steps.                                                         *)

ApplyIdle ==
    /\ AtLines("apply") /\ apply = "idle"
    /\ IF request
       THEN RequestBypass(FALSE) /\ ackDue' = FALSE /\ apply' = "wait"
       ELSE UNCHANGED <<cascade, ackDue, apply>>
    /\ pc' = "end"
    /\ UNCHANGED <<uart, console, transfer, request, running, bounds>>

\* The acknowledgement is looked at first; the interrupt may still bring it
\* while the other two conditions are being tested.
ApplyWait ==
    /\ AtLines("apply") /\ apply = "wait"
    /\ IF pstate = "active" THEN apply' = "copy" /\ pc' = "end"
                            ELSE pc' = "ack" /\ UNCHANGED apply
    /\ UNCHANGED <<uart, console, transfer, request, ackDue, cascade, running,
                   bounds>>

AckLate == ackDue

ApplyUnacknowledged ==
    /\ AtLines("ack")
    /\ \/ /\ ~running
          /\ ConfirmBypassStopped /\ apply' = "copy"
          /\ UNCHANGED <<request, proc, todo, user>>
       \/ /\ running /\ AckLate
          /\ request' = FALSE /\ RequestNormal /\ apply' = "idle"
       \/ /\ running /\ ~AckLate
          /\ UNCHANGED <<request, cascade, apply>>
    /\ pc' = "end"
    /\ UNCHANGED <<uart, console, transfer, ackDue, running, bounds>>

Finite == \A k \in 1..Rows : staging[k] \notin NonFinite

\* The loader refuses without an acknowledged bypass, and before it has
\* written anything when a value is not finite.
ApplyCopy ==
    /\ AtLines("apply") /\ apply = "copy"
    /\ pc' = IF pstate = "active" /\ Finite THEN "load" ELSE "restore"
    /\ UNCHANGED <<uart, console, transfer, applying, cascade, running, bounds>>

\* While pc = "load" the table is being rewritten.
Loaded ==
    /\ AtLines("load")
    /\ pc' = "restore"
    /\ UNCHANGED <<uart, console, transfer, applying, cascade, running, bounds>>

Restore ==
    /\ AtLines("restore")
    /\ request' = FALSE /\ RequestNormal /\ apply' = "idle"
    /\ pc' = "end"
    /\ UNCHANGED <<uart, console, transfer, ackDue, running, bounds>>

Apply == ApplyIdle \/ ApplyWait \/ ApplyUnacknowledged \/ ApplyCopy \/ Loaded
         \/ Restore

\* Mutant: only a byte can give the console back.
EndPassByByte ==
    /\ AtLines("end")
    /\ pc' = "rx1"
    /\ UNCHANGED <<uart, console, transfer, applying, cascade, running, bounds>>

\* A transfer that ended without a byte gives the console back here.
EndPass ==
    /\ AtLines("end")
    /\ IF mode = "csv" /\ ~InTransfer THEN mode' = "normal" /\ src' = 0
                                      ELSE UNCHANGED <<mode, src>>
    /\ pc' = "rx1"
    /\ UNCHANGED <<uart, typing, quiet2, transfer, applying, cascade, running,
                   bounds>>

-----------------------------------------------------------------------------
(* Time.                                                                    *)

TwoSeconds == /\ InTransfer /\ ~due /\ due' = TRUE
              /\ UNCHANGED <<uart, console, receiving, draining, rows, staging,
                             moved, spoiled, applying, cascade, running, pc, bounds>>
AckTime    == /\ apply = "wait" /\ ~ackDue /\ ackDue' = TRUE
              /\ UNCHANGED <<uart, console, transfer, request, apply, cascade,
                             running, pc, bounds>>
Quiet2Time == /\ mode = "reject" /\ ~quiet2 /\ quiet2' = TRUE
              /\ UNCHANGED <<uart, mode, src, typing, transfer, applying, cascade,
                             running, pc, bounds>>

Main == \/ SecondStore \/ ReadUart1 \/ LeaveUart1 \/ LeaveUart2 \/ Watchdog
        \/ Apply \/ EndPass

Next == \/ Main \/ ReadUart2
        \/ Receive \/ AudioBlock
        \/ TwoSeconds \/ AckTime \/ Quiet2Time

\* The main loop goes round, and silence lasts; nobody has to send anything and
\* the audio interrupt need not run the cascade.
Fairness == /\ WF_vars(Main)
            /\ WF_vars(TwoSeconds) /\ WF_vars(AckTime) /\ WF_vars(Quiet2Time)

Spec == Init /\ [][Next]_vars /\ Fairness

-----------------------------------------------------------------------------
(* Properties.                                                              *)

\* No audio block runs the filters on a table that is being rewritten,
\* wherever a hot key, a stopped or restarted transport, a late acknowledgement
\* or the deadline falls between the request and the copy
\* (biquad_cascade_4ch.c:1394, app_biquad_coeff_csv.c:451-480).
LoadUnheard == pc = "load" => proc = "bypass" \/ ~running

\* The filters are bypassed only on behalf of somebody: each way an upload or
\* an apply ends, also a refused, timed out or rejected one, switches them on
\* again (app_biquad_coeff_csv.c:500-505).
BypassIsOwned ==
    (proc = "bypass" \/ pstate # "normal") /\ todo # "normal"
        => user \/ receiving \/ request

\* Between the end marker and the copy the staging rows stay what was
\* received: they are handed over without a copy, and the request alone keeps
\* the next upload out (app_biquad_coeff_csv.c:1357-1363).
StagingIsHeld == [][request /\ request' => staging' = staging]_vars

\* Behind the watchdog an open transfer has accepted nothing that was hurt or
\* lost since it began (app_biquad_coeff_csv.c:953-986).
HurtIsCaught == pc = "apply" /\ receiving => spoiled # "during"

\* Every upload ends.  The console is given back: a transfer that is complete,
\* refused, drained or abandoned, and a refused stream on port 2, all end
\* (app_debug.c:192-204).  What was handed over is applied or given up, although
\* the audio interrupt may never acknowledge
\* (app_biquad_coeff_csv.c:108-121).
UploadEnds ==
    /\ mode # "normal" ~> mode = "normal" /\ (src = 0 \/ typing)
    /\ request ~> ~request /\ apply = "idle"

\* What the comments claim.  A damaged or lost byte "is fatal to the
\* transaction" (app_biquad_coeff_csv.c:955): what is handed over is intact.
CommittedIsIntact == request => spoiled = "no"

\* "The host is still streaming, and those bytes must not reach the console
\* command parser" (app_biquad_coeff_csv.c:980-981): while a refused
\* transfer is being drained, the lines of port 1 go to the drain.
DrainIsFed == pc = "rx1" /\ draining => mode = "csv"
=============================================================================
