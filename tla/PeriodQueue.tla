----------------------------- MODULE PeriodQueue -----------------------------
(***************************************************************************)
(* The ASRC's clock measurement: per leg a detector, whose capture          *)
(* interrupt measures the frame clock's periods and queues them, and a      *)
(* foreground that averages them.                                           *)
(*   capture    the interrupt of each detector, above everything else       *)
(*   main       the tick, the restart (time base, reset) and console prints,*)
(*              whose blocking write drains the queues through a hook       *)
(*   interrupt  a lower interrupt that prints, and so runs the same hook    *)
(* A time stamp is the ordinal of its capture and a period the pair of the  *)
(* stamps it is the difference of; the average is the sequence it has been  *)
(* fed. The ratio that is published from it, the acquisition guard, the     *)
(* overrun counter and the observation tallies are left out.                *)
(***************************************************************************)
EXTENDS Naturals, Sequences

CONSTANTS Length,           \* CCPDET_PERIOD_QUEUE_LENGTH
          Modulus,          \* the 16-bit indices wrap here
          PrintsDuringTick, \* an interrupt may print while the tick drains
          MaxCaptures,      \* bound: captures of each detector
          MaxRestarts       \* bound: restarts of the audio stream

ASSUME QueueAssumption == /\ Length \in Nat \ {0} /\ Modulus \in Nat
                          /\ Length < Modulus /\ Modulus % Length = 0
                          /\ PrintsDuringTick \in BOOLEAN
                          /\ MaxCaptures \in [{"A", "B"} -> Nat] /\ MaxRestarts \in Nat

Detectors == {"A", "B"}         \* s_det_a, s_det_b
Contexts == {"main", "irq"}
NoPeriod == <<0, 0>>
Stamps == UNION {0..MaxCaptures[d] : d \in Detectors}
Periods == {p \in Stamps \X Stamps : p[1] < p[2] \/ p = NoPeriod}

VARIABLES
    n,          \* captures so far: the detector's clock
    since,      \* history: the first capture on the time base in force
    prev,       \* detector->prev, 0 when reset
    have,       \* the detectors whose prev holds a capture
    latest,     \* detector->latest_period
    enabled,    \* the detectors whose queue is on
    slots, write, read,     \* the queue and its free-running indices
    ema,        \* detector->ema_period: what was averaged since inited was cleared
    got,        \* history: what the consumer took out last
    armed,      \* the detectors whose capture was started
    hooked,     \* the drain is registered as the yield hook
    inDrain,    \* s_in_drain
    streaming,  \* the last start of the stream was carried through
    main,       \* what the main loop does: "idle", "tick", "restart" or "reset"
    at,         \* per context: the next step of the drain (main: of the reset)
    det,        \* per context: the detector it is at
    rd, wr,     \* per context: the local copies of the two indices
    val,        \* per context: the period in hand
    restarts    \* bound

producer == <<n, prev, have, latest, slots, write>>
locals == <<at, det, rd, wr, val>>
stream == <<streaming, restarts>>
pqVars == <<producer, since, enabled, read, ema, got, armed, hooked, inDrain, main,
          locals, stream>>

Used(d) == (write[d] + Modulus - read[d]) % Modulus
Contents(d) == [k \in 1..Used(d) |-> slots[d][(read[d] + k - 1) % Length]]

PQTypeOK ==
    /\ n \in [Detectors -> Stamps] /\ since \in [Detectors -> Nat]
    /\ prev \in [Detectors -> Stamps] /\ latest \in [Detectors -> Periods]
    /\ have \subseteq Detectors /\ enabled \subseteq Detectors /\ armed \subseteq Detectors
    /\ slots \in [Detectors -> [0..Length - 1 -> Periods]]
    /\ write \in [Detectors -> 0..Modulus - 1] /\ read \in [Detectors -> 0..Modulus - 1]
    /\ \A d \in Detectors : Used(d) <= Length
    /\ ema \in [Detectors -> Seq(Periods)]
    /\ got \in [Detectors -> Periods]
    /\ hooked \in BOOLEAN /\ inDrain \in BOOLEAN /\ streaming \in BOOLEAN
    /\ main \in {"idle", "tick", "restart", "reset"}
    /\ at \in [Contexts -> {"out", "begin", "enable", "seed", "look", "take",
                            "prev", "have", "latest", "off", "flush"}]
    /\ det \in [Contexts -> Detectors]
    /\ rd \in [Contexts -> 0..Modulus - 1] /\ wr \in [Contexts -> 0..Modulus - 1]
    /\ val \in [Contexts -> Periods]
    /\ restarts \in 0..MaxRestarts

Each(x) == [d \in Detectors |-> x]
Both(x) == [c \in Contexts |-> x]

PQInit ==
    /\ n = Each(0) /\ since = Each(1) /\ prev = Each(0) /\ latest = Each(NoPeriod)
    /\ have = {} /\ enabled = {} /\ armed = {}
    /\ slots = Each([i \in 0..Length - 1 |-> NoPeriod])
    /\ write = Each(0) /\ read = Each(0)
    /\ ema = Each(<<>>) /\ got = Each(NoPeriod)
    /\ hooked = FALSE /\ inDrain = FALSE
    /\ main = "idle" /\ at = Both("out") /\ det = Both("A")
    /\ rd = Both(0) /\ wr = Both(0) /\ val = Both(NoPeriod)
    /\ streaming = FALSE /\ restarts = 0

-----------------------------------------------------------------------------
(* The producer. *)

Room(d) == Used(d) < Length

\* ccpdet_capture_isr: a period needs a predecessor, a slot an enabled queue
Capture(d) ==
    /\ d \in armed /\ n[d] < MaxCaptures[d]
    /\ LET t == n[d] + 1
           p == <<prev[d], t>>
           queued == d \in have /\ d \in enabled /\ Room(d)
       IN /\ n' = [n EXCEPT ![d] = t]
          /\ prev' = [prev EXCEPT ![d] = t]
          /\ have' = have \cup {d}
          /\ latest' = IF d \in have THEN [latest EXCEPT ![d] = p] ELSE latest
          /\ slots' = IF queued THEN [slots EXCEPT ![d][write[d] % Length] = p] ELSE slots
          /\ write' = IF queued THEN [write EXCEPT ![d] = (@ + 1) % Modulus] ELSE write
    /\ UNCHANGED <<since, enabled, read, ema, got, armed, hooked, inDrain, main,
                   locals, stream>>

-----------------------------------------------------------------------------
(* The consumer: ccpdet_drain_both, in the context that runs it. *)

\* The main loop stands still while an interrupt prints.
Runs(c) == c = "main" => at["irq"] = "out"
Step(c, from) == Runs(c) /\ at[c] = from

Goto(c, to) == at' = [at EXCEPT ![c] = to]

\* The tick drains without taking the flag.
ByHook(c) == c = "irq" \/ main # "tick"

\* Behind detector B the drain is over: the hook gives the flag back, the tick
\* returns to the loop.
Onward(c) ==
    /\ rd' = [rd EXCEPT ![c] = 0] /\ wr' = [wr EXCEPT ![c] = 0]
    /\ val' = [val EXCEPT ![c] = NoPeriod]
    /\ IF det[c] = "A"
       THEN /\ det' = [det EXCEPT ![c] = "B"] /\ Goto(c, "begin")
            /\ UNCHANGED <<inDrain, main>>
       ELSE /\ det' = [det EXCEPT ![c] = "A"] /\ Goto(c, "out")
            /\ inDrain' = (inDrain /\ ~ByHook(c))
            /\ main' = IF ByHook(c) THEN main ELSE "idle"

\* A queue that is off: whatever it holds is dropped and the average starts from
\* the last period measured. The producer adds nothing to a queue that is off.
BootDiscard(c) ==
    /\ Step(c, "begin") /\ det[c] \notin enabled
    /\ read' = [read EXCEPT ![det[c]] = write[det[c]]]
    /\ val' = [val EXCEPT ![c] = latest[det[c]]]
    /\ Goto(c, "enable")
    /\ UNCHANGED <<producer, since, enabled, ema, got, armed, hooked, inDrain, main,
                   det, rd, wr, stream>>

BootEnable(c) ==
    /\ Step(c, "enable")
    /\ enabled' = enabled \cup {det[c]}
    /\ Goto(c, "seed")
    /\ UNCHANGED <<producer, since, read, ema, got, armed, hooked, inDrain, main,
                   det, rd, wr, val, stream>>

\* Mutant: the last period is read again where it is used.
SeedFromLatest(c) == latest[det[c]]
Seed(c) == val[c]

BootSeed(c) ==
    /\ Step(c, "seed")
    /\ ema' = IF Seed(c) = NoPeriod THEN ema
              ELSE [ema EXCEPT ![det[c]] = <<Seed(c)>>]
    /\ Onward(c)
    /\ UNCHANGED <<producer, since, enabled, read, got, armed, hooked, stream>>

Begin(c) ==
    /\ Step(c, "begin") /\ det[c] \in enabled
    /\ rd' = [rd EXCEPT ![c] = read[det[c]]]
    /\ wr' = [wr EXCEPT ![c] = write[det[c]]]
    /\ Goto(c, "look")
    /\ UNCHANGED <<producer, since, enabled, read, ema, got, armed, hooked, inDrain, main,
                   det, val, stream>>

\* The batch is what waited at the beginning.
Look(c) ==
    /\ Step(c, "look") /\ rd[c] # wr[c]
    /\ val' = [val EXCEPT ![c] = slots[det[c]][rd[c] % Length]]
    /\ Goto(c, "take")
    /\ UNCHANGED <<producer, since, enabled, read, ema, got, armed, hooked, inDrain, main,
                   det, rd, wr, stream>>

\* The slot is given back behind the look at it, then the period is averaged.
Take(c) ==
    /\ Step(c, "take")
    /\ rd' = [rd EXCEPT ![c] = (@ + 1) % Modulus]
    /\ read' = [read EXCEPT ![det[c]] = (rd[c] + 1) % Modulus]
    /\ got' = [got EXCEPT ![det[c]] = val[c]]
    /\ ema' = [ema EXCEPT ![det[c]] = Append(@, val[c])]
    /\ val' = [val EXCEPT ![c] = NoPeriod]
    /\ Goto(c, "look")
    /\ UNCHANGED <<producer, since, enabled, armed, hooked, inDrain, main, det, wr, stream>>

Finish(c) ==
    /\ Step(c, "look") /\ rd[c] = wr[c]
    /\ Onward(c)
    /\ UNCHANGED <<producer, since, enabled, read, ema, got, armed, hooked, stream>>

-----------------------------------------------------------------------------
(* Who drains. *)

\* asrc_clock_control_tick
Tick ==
    /\ Step("main", "out") /\ main = "idle"
    /\ main' = "tick" /\ Goto("main", "begin")
    /\ UNCHANGED <<producer, since, enabled, read, ema, got, armed, hooked, inDrain,
                   det, rd, wr, val, stream>>

\* Mutant: the flag is not looked at.
MayDrainAgain == enabled = Detectors
MayDrain == ~inDrain /\ enabled = Detectors

\* asrc_clock_control_drain_yield, from a print of context c. Its tests and the
\* setting of the flag are one step: a print that comes between them drains and
\* returns before the flag is set.
Hook(c) ==
    /\ hooked /\ MayDrain /\ at[c] = "out"
    /\ inDrain' = TRUE
    /\ Goto(c, "begin")
    /\ UNCHANGED <<producer, since, enabled, read, ema, got, armed, hooked, main,
                   det, rd, wr, val, stream>>

ConsolePrint == main \in {"idle", "restart"} /\ Runs("main") /\ Hook("main")

IrqPrint == (main = "tick" => PrintsDuringTick) /\ Hook("irq")

-----------------------------------------------------------------------------
(* The restart of the stream. *)

\* audio_transport_start_route_impl moves the captures to another time base, under
\* a live capture
Retime ==
    /\ Step("main", "out") /\ main = "idle" /\ restarts < MaxRestarts
    /\ main' = "restart" /\ restarts' = restarts + 1
    /\ streaming' = FALSE
    /\ since' = [d \in Detectors |-> n[d] + 1]
    /\ UNCHANGED <<producer, enabled, read, ema, got, armed, hooked, inDrain, locals>>

\* The time base or the transport failed: the start gives up before the reset, and the
\* tick goes on.
GiveUp ==
    /\ Step("main", "out") /\ main = "restart"
    /\ main' = "idle"
    /\ UNCHANGED <<producer, since, enabled, read, ema, got, armed, hooked, inDrain,
                   locals, stream>>

\* A change of leg B's rate alone resets under the running stream.
ResetUnderStream == main = "idle" /\ streaming /\ restarts < MaxRestarts /\ restarts' = restarts + 1

\* asrc_clock_control_init_reset: both are armed, again where one failed, and the
\* hook is registered
InitReset ==
    /\ Step("main", "out") /\ ((main = "restart" /\ UNCHANGED restarts) \/ ResetUnderStream)
    /\ main' = "reset" /\ hooked' = TRUE
    /\ \E S \in SUBSET Detectors : armed' = armed \cup S
    /\ Goto("main", "prev")
    /\ UNCHANGED <<producer, since, enabled, read, ema, got, inDrain, det, rd, wr, val, streaming>>

ResetStep(from, to) == Step("main", from) /\ Goto("main", to)
\* the detector that is reset
D == det["main"]

ResetPrev ==
    /\ ResetStep("prev", "have") /\ prev' = [prev EXCEPT ![D] = 0]
    /\ UNCHANGED <<n, have, latest, slots, write, since, enabled, read, ema, got, armed,
                   hooked, inDrain, main, det, rd, wr, val, stream>>

\* Mutant: prev is cleared, the mark that it holds a capture is not.
KeepHave == UNCHANGED have
ClearHave == have' = have \ {D}

ResetHave ==
    /\ ResetStep("have", "latest") /\ ClearHave
    /\ UNCHANGED <<n, prev, latest, slots, write, since, enabled, read, ema, got, armed,
                   hooked, inDrain, main, det, rd, wr, val, stream>>

ResetLatest ==
    /\ ResetStep("latest", "off") /\ latest' = [latest EXCEPT ![D] = NoPeriod]
    /\ UNCHANGED <<n, prev, have, slots, write, since, enabled, read, ema, got, armed,
                   hooked, inDrain, main, det, rd, wr, val, stream>>

ResetOff ==
    /\ ResetStep("off", "flush") /\ enabled' = enabled \ {D}
    /\ UNCHANGED <<producer, since, read, ema, got, armed, hooked, inDrain, main,
                   det, rd, wr, val, stream>>

ResetFlush ==
    /\ Step("main", "flush")
    /\ read' = [read EXCEPT ![D] = write[D]]
    /\ ema' = [ema EXCEPT ![D] = <<>>]
    /\ Goto("main", IF D = "A" THEN "prev" ELSE "out")
    /\ det' = [det EXCEPT !["main"] = IF D = "A" THEN "B" ELSE "A"]
    /\ main' = IF D = "A" THEN "reset" ELSE "idle"
    /\ streaming' = (streaming \/ D = "B")
    /\ UNCHANGED <<producer, since, enabled, got, armed, hooked, inDrain, rd, wr, val, restarts>>

-----------------------------------------------------------------------------
Drain(c) == BootDiscard(c) \/ BootEnable(c) \/ BootSeed(c)
            \/ Begin(c) \/ Look(c) \/ Take(c) \/ Finish(c)

Reset == ResetPrev \/ ResetHave \/ ResetLatest \/ ResetOff \/ ResetFlush

PQNext ==
    \/ \E d \in Detectors : Capture(d)
    \/ \E c \in Contexts : Drain(c)
    \/ Tick \/ ConsolePrint \/ IrqPrint
    \/ Retime \/ GiveUp \/ InitReset \/ Reset

PQSpec == PQInit /\ [][PQNext]_pqVars

-----------------------------------------------------------------------------
(* Properties. *)

\* Every period the producer queues is taken once, in order and whole, or dropped
\* by a reset: the prints' drains and the tick's are one consumer to the producer
\* ("single-consumer invariant", s_in_drain).
QueueA == INSTANCE BoundedQueue WITH Items <- Periods, Capacity <- Length,
    queue <- Contents("A"), taken <- <<got["A"], got["A"]>>
QueueB == INSTANCE BoundedQueue WITH Items <- Periods, Capacity <- Length,
    queue <- Contents("B"), taken <- <<got["B"], got["B"]>>
PeriodsAreQueues == QueueA!Spec /\ QueueB!Spec

\* The average of a detector and what waits behind it are successive in time, with
\* no period twice: neither the start of the queue nor a print in between feeds an
\* older one again.
FedInOrder == \A d \in Detectors :
    LET s == ema[d] \o Contents(d)
    IN \A i \in 1..Len(s) - 1 : s[i][2] < s[i + 1][2]

\* Once a start is carried through everything that was averaged or waits is the
\* distance of two neighbouring captures on the time base in force: neither a
\* difference with a cleared stamp nor one across the switch survives the reset,
\* wherever between its stores the captures fall (audio_transport.c: "the only
\* captures the servo ever sees are post-switch ones").
FedIsMeasured == streaming /\ main \in {"idle", "tick"} =>
    \A d \in Detectors :
        LET s == ema[d] \o Contents(d)
        IN \A i \in 1..Len(s) : s[i][1] = s[i][2] - 1 /\ s[i][1] >= since[d]
=============================================================================
