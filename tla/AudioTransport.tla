---------------------------- MODULE AudioTransport ----------------------------
(***************************************************************************)
(* The lifecycle of the audio stream (src/app/audio_transport/             *)
(* audio_transport.c) in the two-codec ASRC build: leg A and leg B in sync *)
(* domains of their own, both codecs clock masters, the HAL-direct route,  *)
(* frame-error recovery built in.  The board is always clock-ready and     *)
(* reports no clock events there.  A console command interleaves with the  *)
(* manage step and the recovery tick in the order of main's loop; the      *)
(* block interrupts run at any point of any of them.                       *)
(***************************************************************************)
EXTENDS Integers

CONSTANTS Rates,        \* sample rates, in Hz
          Default,      \* the codec driver's rate at reset
          Nominal,      \* the build's rate of each leg
          Off,          \* a codec that produces neither clock nor output
          MAX_RESTART,  \* APP_TDM_FRMERR_MAX_RESTART (6)
          Commands,     \* the console commands the operator uses
          MaxCommands,  \* bound on commands
          MaxFaults     \* bound on failed operations and lost framing

Legs == {"A", "B"}
Lines == {"ok", "slipped", "stuck"}

ASSUME RatesAssumption ==
  Default \in Rates /\ Off \notin Rates /\ Nominal \in [Legs -> Rates]
ASSUME BoundsAssumption ==
  MAX_RESTART \in Nat \ {0} /\ MaxCommands \in Nat /\ MaxFaults \in Nat

VARIABLES
  pc, job,       \* where the main loop is, and on whose behalf it starts a stream
  leg, previous, \* of the rate change in progress
  TDM_activated, qualified, failed, latched, confirmed, b_missing,
  recovering, restarts, safe_mute, force_trip, in_cooldown,
  running, \* HAL: the legs whose DMA runs; the port is open iff TDM_activated
  frm,     \* the legs whose run of misframed blocks has reached the trigger
  line,    \* what the framer of a running leg does with its bus
  codec,   \* the rate a codec was last programmed to, or Off
  loud,    \* the codecs whose analog output is not muted
  rate,    \* the driver's rate for the next programming of a codec
  configured, seeded,
  commands, faults,
  tries,   \* recovery restarts since a stream qualified or a command was given
  dropped  \* an episode was forgotten while it held the mute

control  == <<pc, job>>
change   == <<leg, previous>>
latches  == <<latched, confirmed, b_missing>>
recovery == <<recovering, restarts, safe_mute, force_trip, in_cooldown>>
rates    == <<rate, configured, seeded>>
stream   == <<TDM_activated, qualified, loud, running>>
codecs   == <<codec, rates>>
framing  == <<frm, line>>
budget   == <<commands, faults>>
seen     == <<tries, dropped>>
vars == <<control, change, failed, latches, recovery, stream, codecs,
          framing, budget, seen>>

audible == {l \in loud : codec[l] # Off}

Init ==
  /\ pc = "codecA" /\ job = "initial"
  /\ leg = "A" /\ previous = Default
  /\ TDM_activated = FALSE /\ qualified = FALSE /\ failed = FALSE
  /\ latched = FALSE /\ confirmed = FALSE /\ b_missing = FALSE
  /\ recovering = FALSE /\ restarts = 0
  /\ safe_mute = FALSE /\ force_trip = FALSE /\ in_cooldown = FALSE
  /\ running = {} /\ frm = {} /\ line = [l \in Legs |-> "ok"]
  /\ codec = [l \in Legs |-> Off] /\ loud = {}
  /\ rate = [l \in Legs |-> Default] /\ configured = Nominal /\ seeded = FALSE
  /\ commands = 0 /\ faults = 0 /\ tries = 0 /\ dropped = FALSE

-------------------------------------------------------------------------------
(* Pieces of the handlers. *)

Fault == faults < MaxFaults /\ faults' = faults + 1

mark_qualified ==
  qualified' = TRUE /\ failed' = FALSE /\ tries' = 0 /\ dropped' = FALSE

mark_transition_failed == qualified' = FALSE /\ failed' = TRUE

StopUnmuted ==
  /\ TDM_activated' = FALSE /\ qualified' = FALSE /\ running' = {}
  /\ UNCHANGED loud

stop_route ==
  IF TDM_activated
  THEN /\ loud' = {} /\ running' = {}
       /\ TDM_activated' = FALSE /\ qualified' = FALSE
  ELSE UNCHANGED stream

MuteStillQualified ==
  loud' = {} /\ running' = {} /\ TDM_activated' = FALSE /\ UNCHANGED qualified

MuteAndStop ==
  /\ loud' = {}
  /\ running' = IF TDM_activated THEN {} ELSE running
  /\ TDM_activated' = FALSE
  /\ qualified' = (qualified /\ ~TDM_activated)

Start(j) == pc' = "codecA" /\ job' = j

\* Where the loop goes on when a start on behalf of j is over.
AfterStart(j) == CASE j = "initial" -> "manage"
                   [] j = "manage"  -> "console"
                   [] OTHER         -> "service"

\* An episode that has not unmuted yet is forgotten together with its mute.
frmerr_reset ==
  /\ frm' = {} /\ recovering' = FALSE /\ restarts' = 0
  /\ dropped' = (dropped \/ (recovering /\ ~qualified))
  /\ UNCHANGED <<safe_mute, force_trip, in_cooldown, tries>>

-------------------------------------------------------------------------------
(* start_route_impl.  A failed codec configuration leaves the codec as it    *)
(* was (it did not answer) or without clock and output.                      *)

ReseededRate == Nominal

\* Once per boot: a restart keeps the rate that was asked for.
SeededRate == IF seeded THEN rate ELSE Nominal

ApplyCodecA ==
  /\ pc = "codecA"
  /\ rate' = SeededRate /\ seeded' = TRUE
  /\ \/ /\ codec' = [codec EXCEPT !["A"] = rate'["A"]]
        /\ loud' = loud \ {"A"} /\ pc' = "transport"
        /\ UNCHANGED <<qualified, failed, faults>>
     \/ /\ Fault /\ mark_transition_failed
        /\ \/ codec' = codec /\ loud' = loud
           \/ codec' = [codec EXCEPT !["A"] = Off] /\ loud' = loud \ {"A"}
        /\ pc' = "failed"
  /\ UNCHANGED <<job, change, TDM_activated, latches, recovery, running,
                 configured, framing, commands, seen>>

StartTransport ==
  /\ pc = "transport"
  /\ \/ /\ TDM_activated' = TRUE /\ running' = {"A"}
        /\ frm' = frm \ {"A"} /\ line' = [line EXCEPT !["A"] = "ok"]
        /\ pc' = "codecB"
        /\ UNCHANGED <<qualified, failed, faults>>
     \/ /\ Fault /\ mark_transition_failed /\ pc' = "failed"
        /\ UNCHANGED <<TDM_activated, running, framing>>
  /\ UNCHANGED <<job, change, loud, latches, recovery, codecs, commands, seen>>

Teardown ==
  /\ Fault /\ mark_transition_failed /\ pc' = "failed"
  /\ loud' = {} /\ running' = {} /\ TDM_activated' = FALSE

ApplyCodecB ==
  /\ pc = "codecB"
  /\ \/ /\ codec' = [codec EXCEPT !["B"] = rate["B"]]
        /\ loud' = loud \ {"B"} /\ pc' = "domainB"
        /\ UNCHANGED <<TDM_activated, running, qualified, failed, b_missing, faults>>
     \/ /\ Teardown /\ b_missing' = TRUE
        /\ codec' \in {codec, [codec EXCEPT !["B"] = Off]}
  /\ UNCHANGED <<job, change, latched, confirmed, recovery, rates, framing,
                 commands, seen>>

StartLegB ==
  /\ pc = "domainB"
  /\ \/ /\ running' = running \union {"B"}
        /\ frm' = frm \ {"B"} /\ line' = [line EXCEPT !["B"] = "ok"]
        /\ pc' = "finish"
        /\ UNCHANGED <<TDM_activated, loud, qualified, failed, faults>>
     \/ Teardown /\ UNCHANGED framing
  /\ UNCHANGED <<job, change, latches, recovery, codecs, commands, seen>>

FinishStart ==
  /\ pc = "finish" /\ job # "recover"
  /\ frm' = {} /\ loud' = Legs
  /\ mark_qualified
  /\ latched' = FALSE /\ confirmed' = FALSE /\ b_missing' = FALSE
  /\ configured' = IF job = "rate" THEN [configured EXCEPT ![leg] = rate[leg]]
                                   ELSE configured
  /\ pc' = AfterStart(job)
  /\ UNCHANGED <<job, change, TDM_activated, recovery, running, line, codec,
                 rate, seeded, budget>>

FinishMuted ==
  /\ pc = "finish" /\ job = "recover"
  /\ frm' = {} /\ qualified' = FALSE /\ pc' = "qualify"
  /\ UNCHANGED <<job, change, failed, TDM_activated, latches, recovery, loud,
                 running, line, codecs, budget, seen>>

StartFailed ==
  /\ pc = "failed" /\ job \notin {"recover", "rate"}
  /\ pc' = AfterStart(job)
  /\ UNCHANGED <<job, change, failed, latches, recovery, stream, codecs, framing,
                 budget, seen>>

-------------------------------------------------------------------------------
(* The manage step: whatever is stopped and not latched is started.          *)

ManageIdle ==
  /\ pc = "manage" /\ (latched \/ b_missing \/ TDM_activated)
  /\ pc' = "console"
  /\ UNCHANGED <<job, change, failed, latches, recovery, stream, codecs, framing,
                 budget, seen>>

ManageStart ==
  /\ pc = "manage" /\ ~latched /\ ~b_missing /\ ~TDM_activated
  /\ Start("manage")
  /\ UNCHANGED <<change, failed, latches, recovery, stream, codecs, framing,
                 budget, seen>>

-------------------------------------------------------------------------------
(* The console: at most one command per pass of the loop.                    *)

Command(c) ==
  /\ pc = "console" /\ c \in Commands
  /\ commands < MaxCommands /\ commands' = commands + 1
  /\ UNCHANGED faults

NoCommand ==
  /\ pc = "console" /\ pc' = "service"
  /\ UNCHANGED <<job, change, failed, latches, recovery, stream, codecs, framing,
                 budget, seen>>

\* The read-back that verifies the mute may fail.
StopForFlash ==
  /\ Command("ts")
  /\ latched' = TRUE /\ confirmed' \in BOOLEAN
  /\ MuteAndStop
  /\ tries' = 0 /\ pc' = "service"
  /\ UNCHANGED <<job, change, failed, b_missing, recovery, codecs, framing, dropped>>

\* The instruction probe stops the transport and leaves no latch.
Stop ==
  /\ Command("xr")
  /\ stop_route
  /\ tries' = 0 /\ pc' = "service"
  /\ UNCHANGED <<job, change, failed, latches, recovery, codecs, framing, dropped>>

Restart ==
  /\ Command("tr")
  /\ MuteAndStop /\ Start("restart")
  /\ tries' = 0
  /\ UNCHANGED <<change, failed, latches, recovery, codecs, framing, dropped>>

ForceTrip ==
  /\ Command("tf")
  /\ force_trip' = TRUE
  /\ tries' = 0 /\ pc' = "service"
  /\ UNCHANGED <<job, change, failed, latches, recovering, restarts, safe_mute,
                 in_cooldown, stream, codecs, framing, dropped>>

ChangeRate(l, r) ==
  /\ Command("ar")
  /\ leg' = l /\ previous' = rate[l] /\ rate' = [rate EXCEPT ![l] = r]
  /\ IF l = "B" /\ TDM_activated
     THEN pc' = "b_down" /\ job' = "fast" /\ UNCHANGED stream
     ELSE MuteAndStop /\ Start("rate")
  /\ tries' = 0
  /\ UNCHANGED <<failed, latches, recovery, codec, configured, seeded, framing,
                 dropped>>

RateChangeFailed ==
  /\ pc = "failed" /\ job = "rate"
  /\ rate' = [rate EXCEPT ![leg] = previous]
  /\ MuteAndStop /\ Start("rollback")
  /\ UNCHANGED <<change, failed, latches, recovery, codec, configured, seeded,
                 framing, budget, seen>>

PopTest ==
  /\ Command("ap")
  /\ job' = "pop" /\ pc' \in {"b_down", "b_up"}
  /\ tries' = 0
  /\ UNCHANGED <<change, failed, latches, recovery, stream, codecs, framing, dropped>>

-------------------------------------------------------------------------------
(* The restart of leg B alone, under a live leg A.                           *)

declick_b_shutdown ==
  /\ pc = "b_down"
  /\ loud' = loud \ {"B"} /\ running' = running \ {"B"}
  /\ codec' = [codec EXCEPT !["B"] = Off]
  /\ pc' = "b_up"
  /\ UNCHANGED <<job, change, TDM_activated, qualified, failed, latches, recovery,
                 rates, framing, budget, seen>>

\* The codec is configured, its domain runs again and its output is released.
BStarts ==
  /\ TDM_activated
  /\ codec' = [codec EXCEPT !["B"] = rate["B"]]
  /\ running' = running \union {"B"} /\ loud' = loud \union {"B"}
  /\ line' = IF "B" \in running THEN line ELSE [line EXCEPT !["B"] = "ok"]
  /\ UNCHANGED faults

\* The codec is configured, which mutes it, but its domain does not start.
BStaysMuted ==
  /\ "B" \notin running
  /\ IF TDM_activated THEN Fault ELSE UNCHANGED faults
  /\ codec' = [codec EXCEPT !["B"] = rate["B"]]
  /\ loud' = loud \ {"B"}
  /\ UNCHANGED <<running, line>>

\* The codec is not configured; when it did not answer at all it is as it was.
BFails ==
  /\ Fault
  /\ \/ codec' = codec /\ loud' = loud
     \/ codec' = [codec EXCEPT !["B"] = Off] /\ loud' = loud \ {"B"}
  /\ UNCHANGED <<running, line>>

BRestarted ==
  /\ pc = "b_up" /\ BStarts /\ frmerr_reset
  /\ configured' = IF job = "fast" THEN [configured EXCEPT !["B"] = rate["B"]]
                                   ELSE configured
  /\ pc' = "service"
  /\ UNCHANGED <<job, change, TDM_activated, qualified, failed, latches, rate,
                 seeded, commands>>

BRestartFailed ==
  /\ pc = "b_up" /\ (BStaysMuted \/ BFails) /\ frmerr_reset
  /\ IF job = "fast"
     THEN /\ rate' = [rate EXCEPT !["B"] = previous]
          /\ job' = "fast_back" /\ pc' = "b_down"
     ELSE UNCHANGED <<rate, job>> /\ pc' = "service"
  /\ UNCHANGED <<change, TDM_activated, qualified, failed, latches, configured,
                 seeded, commands>>

-------------------------------------------------------------------------------
(* The recovery tick.                                                        *)

NoWatchdog == FALSE

\* A leg whose clock advances and whose blocks do not.
tdm_liveness_stalled ==
  TDM_activated /\ \E l \in running : line[l] = "stuck" /\ codec[l] # Off

Triggered == recovering \/ frm # {} \/ tdm_liveness_stalled

\* Before the check period or the cooldown is over, and after a safe mute.
TickEarly ==
  /\ pc = "service" /\ ~force_trip
  /\ pc' = "manage"
  /\ UNCHANGED <<job, change, failed, latches, recovery, stream, codecs, framing,
                 budget, seen>>

TickIdle ==
  /\ pc = "service" /\ ~force_trip /\ ~safe_mute /\ ~Triggered
  /\ in_cooldown' = FALSE
  /\ pc' = "manage"
  /\ UNCHANGED <<job, change, failed, latches, recovering, restarts, safe_mute,
                 force_trip, stream, codecs, framing, budget, seen>>

Due == force_trip \/ (~safe_mute /\ Triggered)

AlwaysFirst == 1

CountedRestarts == IF recovering /\ ~force_trip THEN restarts + 1 ELSE 1

TickRestart ==
  /\ pc = "service" /\ Due
  /\ restarts' = CountedRestarts
  /\ recovering' = TRUE /\ force_trip' = FALSE /\ in_cooldown' = FALSE
  /\ safe_mute' = (safe_mute /\ ~force_trip)
  /\ MuteAndStop /\ Start("recover")
  /\ tries' = tries + 1
  /\ UNCHANGED <<change, failed, latches, codecs, framing, budget, dropped>>

AttemptFails ==
  /\ IF restarts >= MAX_RESTART
     THEN safe_mute' = TRUE /\ recovering' = FALSE /\ UNCHANGED in_cooldown
     ELSE in_cooldown' = TRUE /\ UNCHANGED <<safe_mute, recovering>>
  /\ pc' = "manage"
  /\ UNCHANGED <<job, change, latches, restarts, force_trip, stream, failed,
                 codecs, framing, budget, seen>>

RestartFailed == pc = "failed" /\ job = "recover" /\ AttemptFails

QualifyTimeout ==
  /\ pc = "qualify" /\ \E l \in Legs : line[l] # "ok"
  /\ AttemptFails

\* A leg that went quiet inside the window keeps the clean run it had.
Qualify ==
  /\ pc = "qualify" /\ frm = {} /\ \A l \in Legs : line[l] # "slipped"
  /\ recovering' = FALSE /\ in_cooldown' = FALSE
  /\ mark_qualified
  /\ loud' = Legs
  /\ pc' = "manage"
  /\ UNCHANGED <<job, change, latches, restarts, safe_mute, force_trip,
                 TDM_activated, running, codecs, framing, budget>>

-------------------------------------------------------------------------------
(* The legs: a trigger-long run of blocks seen by the block interrupt, and   *)
(* the loss of framing on a bus.                                             *)

Block(l) ==
  /\ l \in running /\ codec[l] # Off
  /\ \/ line[l] = "ok" /\ frm' = frm \ {l}
     \/ line[l] = "slipped" /\ frm' = frm \union {l}
  /\ UNCHANGED <<control, change, failed, latches, recovery, stream, codecs,
                 line, budget, seen>>

LoseFraming(l) ==
  /\ l \in running /\ line[l] = "ok" /\ Fault
  /\ \E how \in Lines \ {"ok"} : line' = [line EXCEPT ![l] = how]
  /\ UNCHANGED <<control, change, failed, latches, recovery, stream, codecs,
                 frm, commands, seen>>

Route ==
  \/ ApplyCodecA \/ StartTransport \/ ApplyCodecB \/ StartLegB
  \/ FinishStart \/ FinishMuted \/ StartFailed \/ RateChangeFailed
  \/ ManageIdle \/ ManageStart
  \/ declick_b_shutdown \/ BRestarted \/ BRestartFailed

Console ==
  \/ NoCommand \/ StopForFlash \/ Stop \/ Restart \/ ForceTrip \/ PopTest
  \/ \E l \in Legs, r \in Rates : ChangeRate(l, r)

Recover ==
  \/ TickEarly \/ TickIdle \/ TickRestart
  \/ RestartFailed \/ QualifyTimeout \/ Qualify

MainLoop == Route \/ Console \/ Recover

Next == MainLoop \/ \E l \in Legs : Block(l) \/ LoseFraming(l)

Spec == Init /\ [][Next]_vars

\* main's loop never blocks for ever, the block interrupts of a clocked leg
\* arrive, and time passes between two ticks: the check period and the
\* cooldown end.
FairSpec ==
  /\ Spec
  /\ WF_vars(MainLoop) /\ SF_vars(TickRestart)
  /\ \A l \in Legs : WF_vars(Block(l))

-------------------------------------------------------------------------------
(* Properties.                                                               *)

PlacesOK ==
  /\ pc \in {"codecA", "transport", "codecB", "domainB", "finish", "failed",
             "qualify", "manage", "console", "service", "b_down", "b_up"}
  /\ job \in {"initial", "manage", "restart", "rate", "rollback", "recover",
              "pop", "fast", "fast_back"}
  /\ leg \in Legs /\ previous \in Rates
FlagsOK ==
  /\ TDM_activated \in BOOLEAN /\ qualified \in BOOLEAN /\ failed \in BOOLEAN
  /\ latched \in BOOLEAN /\ confirmed \in BOOLEAN /\ b_missing \in BOOLEAN
  /\ recovering \in BOOLEAN /\ safe_mute \in BOOLEAN
  /\ force_trip \in BOOLEAN /\ in_cooldown \in BOOLEAN
  /\ seeded \in BOOLEAN /\ dropped \in BOOLEAN
LegsOK ==
  /\ running \subseteq Legs /\ frm \subseteq Legs /\ loud \subseteq Legs
  /\ line \in [Legs -> Lines]
RatesOK ==
  /\ codec \in [Legs -> Rates \union {Off}]
  /\ rate \in [Legs -> Rates] /\ configured \in [Legs -> Rates]
CountsOK ==
  /\ restarts \in Nat /\ restarts <= MAX_RESTART
  /\ commands \in Nat /\ commands <= MaxCommands
  /\ faults \in Nat /\ faults <= MaxFaults
  /\ tries \in Nat

\* Every variable keeps its type; the count of an episode's restarts stays in
\* its budget.
TypeOK == PlacesOK /\ FlagsOK /\ LegsOK /\ RatesOK /\ CountsOK

\* A codec is heard only while the leg that feeds it runs, whatever start, stop,
\* restart of leg B alone or failure came before: an unfed output pops.
AudibleIsRunning == audible \subseteq running

\* What the telemetry calls a qualified stream is one that is heard on leg A,
\* and the other way round; a failed transition is never reported beside it.
QualifiedIsAudible ==
  /\ qualified <=> "A" \in audible
  /\ failed => ~qualified

\* A codec that is heard runs at the rate the application is told it has, across
\* rate changes, their rollbacks and every restart in between.
RatesAgree == \A l \in audible : codec[l] = configured[l]

\* Without a qualified stream or a command in between, recovery restarts the
\* transport at most MAX_RESTART times.
AttemptsBounded == tries <= MAX_RESTART

Healthy == qualified /\ \A l \in audible : line[l] = "ok"

\* Once failures and commands stop, the stream is healthy for good, unless it
\* was given up in one of the ways the code has for that.
Settles == <>[](Healthy \/ latched \/ b_missing \/ safe_mute \/ dropped)

\* A confirmed stop before flashing is silent and stopped (the comment on
\* s_preflash_stop_latched, audio_transport.c:68).
ConfirmedStopStays == confirmed => audible = {} /\ ~TDM_activated
===============================================================================
