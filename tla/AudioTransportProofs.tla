------------------------- MODULE AudioTransportProofs -------------------------
(***************************************************************************)
(* Safety of the audio stream's lifecycle, for every set of rates, every   *)
(* restart budget and any number of commands and failures.                 *)
(***************************************************************************)
EXTENDS AudioTransport, TLAPS

Starting == {"codecA", "transport", "codecB", "domainB", "finish", "failed"}

\* A stopped transport feeds and releases nothing; a start works on a muted one.
Stream ==
  /\ loud \subseteq running
  /\ ~TDM_activated => running = {} /\ ~qualified
  /\ TDM_activated => "A" \in running /\ codec["A"] # Off
  /\ qualified <=> "A" \in loud
  /\ failed => ~qualified
  /\ pc \in {"codecA", "transport", "failed"} => ~TDM_activated
  /\ pc = "transport" => codec["A"] # Off
  /\ pc \in {"codecB", "domainB", "finish", "qualify"} =>
       TDM_activated /\ loud = {}
  /\ pc \in {"finish", "qualify"} => running = Legs

\* The leg whose rate the operator is changing.
Changing(l) ==
  /\ l = leg
  /\ \/ job = "rate" /\ pc \in Starting
     \/ job = "fast" /\ pc \in {"b_down", "b_up"}

\* The driver's rate is the configured one except during a change, and a start
\* programs each codec with the driver's rate.
Tracked ==
  /\ ~seeded => pc = "codecA" /\ job = "initial" /\ configured = Nominal
  /\ seeded => \A l \in Legs : rate[l] = configured[l] \/ Changing(l)
  /\ \A l \in Legs : Changing(l) => previous = configured[l]
  /\ job = "fast" => leg = "B"
  /\ pc \in {"b_down", "b_up"} => job \in {"fast", "fast_back", "pop"}
  /\ pc \in {"transport", "codecB", "domainB", "finish", "qualify"} =>
       codec["A"] = rate["A"]
  /\ pc \in {"domainB", "finish", "qualify"} => codec["B"] = rate["B"]
  /\ pc = "qualify" => job = "recover"
  /\ RatesAgree

Attempting == job = "recover" /\ pc \in Starting \union {"qualify"}

\* Attempts are counted from the first one of an episode, and an episode ends
\* with its budget.
Episode ==
  /\ Attempting => recovering
  /\ recovering => ~safe_mute /\ tries <= restarts
  /\ recovering /\ ~Attempting => restarts < MAX_RESTART
  /\ ~recovering /\ ~safe_mute => tries = 0
  /\ AttemptsBounded
  /\ force_trip => pc = "service" /\ tries = 0
  /\ pc \in {"b_down", "b_up"} => tries = 0
  /\ pc \in Starting \union {"qualify"} => 
       job \in {"initial", "manage", "restart", "rate", "rollback", "recover"}

Inv == TypeOK /\ Stream /\ Tracked /\ Episode

\* Every step keeps Stream.
LEMMA StreamStep == Inv /\ [Next]_vars => Stream'
<1> SUFFICES ASSUME Inv, [Next]_vars PROVE Stream'
  OBVIOUS
<1> USE RatesAssumption, BoundsAssumption DEF Inv, TypeOK
<1>1. CASE ApplyCodecA
  <2> USE <1>1 DEF ApplyCodecA, Stream, Legs, LegsOK, FlagsOK, RatesOK
  <2>1. CASE pc' = "transport"
    <3>1. /\ codec' = [codec EXCEPT !["A"] = rate'["A"]] /\ rate'["A"] \in Rates
          /\ qualified' = qualified /\ failed' = failed /\ loud' = loud \ {"A"}
      BY <2>1 DEF SeededRate
    <3>2. codec'["A"] # Off
      BY <3>1
    <3> QED BY <3>1, <3>2, <2>1
  <2>2. CASE pc' = "failed"
    <3>1. qualified' = FALSE /\ failed' = TRUE /\ loud' = {} /\ loud = {}
      BY <2>2 DEF mark_transition_failed
    <3> QED BY <3>1, <2>2
  <2> QED BY <2>1, <2>2
<1>2. CASE StartTransport
  <2> USE <1>2 DEF StartTransport, Stream, Legs, LegsOK, FlagsOK, RatesOK
  <2>1. CASE pc' = "codecB"
    <3>1. /\ TDM_activated' = TRUE /\ running' = {"A"} /\ codec' = codec
          /\ qualified' = qualified /\ failed' = failed /\ loud' = loud
      BY <2>1 DEF codecs
    <3> QED BY <3>1, <2>1
  <2>2. CASE pc' = "failed"
    <3>1. /\ TDM_activated' = TDM_activated /\ running' = running
          /\ codec' = codec /\ loud' = loud
          /\ qualified' = FALSE /\ failed' = TRUE
      BY <2>2 DEF codecs, mark_transition_failed
    <3> QED BY <3>1, <2>2
  <2> QED BY <2>1, <2>2
<1>3. CASE ApplyCodecB
  <2> USE <1>3 DEF ApplyCodecB, Stream, Legs, LegsOK, FlagsOK, RatesOK
  <2>1. CASE Teardown
    BY <2>1 DEF Teardown, mark_transition_failed
  <2>2. CASE pc' = "domainB"
    <3>1. /\ TDM_activated' = TDM_activated /\ running' = running
          /\ codec' = [codec EXCEPT !["B"] = rate["B"]] /\ loud' = loud \ {"B"}
          /\ qualified' = qualified /\ failed' = failed
      BY <2>2 DEF Teardown
    <3>2. codec'["A"] = codec["A"]
      BY <3>1
    <3> QED BY <3>1, <3>2, <2>2
  <2> QED BY <2>1, <2>2
<1>4. CASE StartLegB
  <2> USE <1>4 DEF StartLegB, Stream, Legs, LegsOK, FlagsOK, RatesOK
  <2>1. CASE Teardown
    BY <2>1 DEF Teardown, mark_transition_failed
  <2>2. CASE pc' = "finish"
    <3>1. /\ running' = running \union {"B"} /\ codec' = codec
          /\ TDM_activated' = TDM_activated /\ loud' = loud
          /\ qualified' = qualified /\ failed' = failed
      BY <2>2 DEF Teardown, codecs
    <3> QED BY <3>1, <2>2
  <2> QED BY <2>1, <2>2
<1>5. CASE FinishStart
  BY <1>5 DEF FinishStart, mark_qualified, AfterStart, change, recovery,
         budget, Stream, LegsOK, FlagsOK, RatesOK, Legs
<1>6. CASE FinishMuted
  BY <1>6 DEF FinishMuted, change, latches, recovery, codecs, rates, budget,
         seen, Stream, LegsOK, FlagsOK, RatesOK, Legs
<1>7. CASE StartFailed
  BY <1>7 DEF StartFailed, AfterStart, change, latches, recovery, stream,
         codecs, rates, framing, budget, seen, Stream, LegsOK, FlagsOK,
         RatesOK, Legs
<1>8. CASE RateChangeFailed
  BY <1>8 DEF RateChangeFailed, MuteAndStop, Start, change, latches, recovery,
         framing, budget, seen, Stream, LegsOK, FlagsOK, RatesOK, Legs
<1>9. CASE ManageIdle
  BY <1>9 DEF ManageIdle, change, latches, recovery, stream, codecs, rates,
         framing, budget, seen, Stream, LegsOK, FlagsOK, RatesOK, Legs
<1>10. CASE ManageStart
  BY <1>10 DEF ManageStart, Start, change, latches, recovery, stream, codecs,
         rates, framing, budget, seen, Stream, LegsOK, FlagsOK, RatesOK, Legs
<1>11. CASE declick_b_shutdown
  BY <1>11 DEF declick_b_shutdown, change, latches, recovery, rates, framing,
         budget, seen, Stream, LegsOK, FlagsOK, RatesOK, Legs
<1>12. CASE BRestarted
  BY <1>12 DEF BRestarted, frmerr_reset, BStarts, change, latches, Stream,
         LegsOK, FlagsOK, RatesOK, Legs
<1>13. CASE BRestartFailed
  BY <1>13 DEF BRestartFailed, frmerr_reset, BStaysMuted, Fault, BFails,
         change, latches, Stream, LegsOK, FlagsOK, RatesOK, Legs
<1>14. CASE NoCommand
  BY <1>14 DEF NoCommand, change, latches, recovery, stream, codecs, rates,
         framing, budget, seen, Stream, LegsOK, FlagsOK, RatesOK, Legs
<1>15. CASE StopForFlash
  BY <1>15 DEF StopForFlash, MuteAndStop, Command, change, recovery, codecs,
         rates, framing, Stream, LegsOK, FlagsOK, RatesOK, Legs
<1>16. CASE Stop
  BY <1>16 DEF Stop, stop_route, stream, Command, change, latches, recovery,
         codecs, rates, framing, Stream, LegsOK, FlagsOK, RatesOK, Legs
<1>17. CASE Restart
  BY <1>17 DEF Restart, MuteAndStop, Start, Command, change, latches,
         recovery, codecs, rates, framing, Stream, LegsOK, FlagsOK, RatesOK,
         Legs
<1>18. CASE ForceTrip
  BY <1>18 DEF ForceTrip, Command, change, latches, stream, codecs, rates,
         framing, Stream, LegsOK, FlagsOK, RatesOK, Legs
<1>19. CASE PopTest
  BY <1>19 DEF PopTest, Command, change, latches, recovery, stream, codecs,
         rates, framing, Stream, LegsOK, FlagsOK, RatesOK, Legs
<1>20. CASE TickEarly
  BY <1>20 DEF TickEarly, change, latches, recovery, stream, codecs, rates,
         framing, budget, seen, Stream, LegsOK, FlagsOK, RatesOK, Legs
<1>21. CASE TickIdle
  BY <1>21 DEF TickIdle, Triggered, tdm_liveness_stalled, change, latches,
         stream, codecs, rates, framing, budget, seen, Stream, LegsOK,
         FlagsOK, RatesOK, Legs
<1>22. CASE TickRestart
  BY <1>22 DEF TickRestart, MuteAndStop, Start, Due, Triggered,
         tdm_liveness_stalled, CountedRestarts, change, latches, codecs,
         rates, framing, budget, Stream, LegsOK, FlagsOK, RatesOK, Legs
<1>23. CASE RestartFailed
  BY <1>23 DEF RestartFailed, AttemptFails, change, latches, stream, codecs,
         rates, framing, budget, seen, Stream, LegsOK, FlagsOK, RatesOK, Legs
<1>24. CASE QualifyTimeout
  BY <1>24 DEF QualifyTimeout, AttemptFails, change, latches, stream, codecs,
         rates, framing, budget, seen, Stream, LegsOK, FlagsOK, RatesOK, Legs
<1>25. CASE Qualify
  BY <1>25 DEF Qualify, mark_qualified, change, latches, codecs, rates,
         framing, budget, Stream, LegsOK, FlagsOK, RatesOK, Legs
<1>26. ASSUME NEW l \in Legs, NEW r \in Rates, ChangeRate(l, r) PROVE Stream'
  BY <1>26 DEF ChangeRate, MuteAndStop, Start, Command, latches, recovery,
         stream, framing, Stream, LegsOK, FlagsOK, RatesOK, Legs
<1>27. ASSUME NEW l \in Legs, Block(l) PROVE Stream'
  BY <1>27 DEF Block, control, change, latches, recovery, stream, codecs,
         rates, budget, seen, Stream, LegsOK, FlagsOK, RatesOK, Legs
<1>28. ASSUME NEW l \in Legs, LoseFraming(l) PROVE Stream'
  BY <1>28 DEF LoseFraming, Fault, Lines, control, change, latches, recovery,
         stream, codecs, rates, seen, Stream, LegsOK, FlagsOK, RatesOK, Legs
<1>29. CASE UNCHANGED vars
  BY <1>29 DEF vars, control, change, latches, recovery, rates, stream,
         codecs, framing, budget, seen, Stream, LegsOK, FlagsOK, RatesOK, Legs
<1> QED
  BY <1>1, <1>2, <1>3, <1>4, <1>5, <1>6, <1>7, <1>8, <1>9, <1>10,
     <1>11, <1>12, <1>13, <1>14, <1>15, <1>16, <1>17, <1>18, <1>19, <1>20,
     <1>21, <1>22, <1>23, <1>24, <1>25, <1>26, <1>27, <1>28, <1>29
     DEF Next, MainLoop, Route, Console, Recover

\* Every step keeps Episode.
LEMMA EpisodeStep == Inv /\ [Next]_vars => Episode'
<1> SUFFICES ASSUME Inv, [Next]_vars PROVE Episode'
  OBVIOUS
<1> USE RatesAssumption, BoundsAssumption DEF Inv, TypeOK
<1>1. CASE ApplyCodecA
  BY <1>1 DEF ApplyCodecA, Fault, mark_transition_failed, SeededRate, change,
         latches, recovery, framing, seen, Episode, Attempting,
         AttemptsBounded, Starting, CountsOK, FlagsOK, PlacesOK
<1>2. CASE StartTransport
  BY <1>2 DEF StartTransport, Fault, mark_transition_failed, change, latches,
         recovery, codecs, rates, framing, seen, Episode, Attempting,
         AttemptsBounded, Starting, CountsOK, FlagsOK, PlacesOK
<1>3. CASE ApplyCodecB
  BY <1>3 DEF ApplyCodecB, Teardown, Fault, mark_transition_failed, change,
         recovery, rates, framing, seen, Episode, Attempting, AttemptsBounded,
         Starting, CountsOK, FlagsOK, PlacesOK
<1>4. CASE StartLegB
  BY <1>4 DEF StartLegB, Teardown, Fault, mark_transition_failed, change,
         latches, recovery, codecs, rates, framing, seen, Episode, Attempting,
         AttemptsBounded, Starting, CountsOK, FlagsOK, PlacesOK
<1>5. CASE FinishStart
  BY <1>5 DEF FinishStart, mark_qualified, AfterStart, change, recovery,
         budget, Episode, Attempting, AttemptsBounded, Starting, CountsOK,
         FlagsOK, PlacesOK
<1>6. CASE FinishMuted
  BY <1>6 DEF FinishMuted, change, latches, recovery, codecs, rates, budget,
         seen, Episode, Attempting, AttemptsBounded, Starting, CountsOK,
         FlagsOK, PlacesOK
<1>7. CASE StartFailed
  BY <1>7 DEF StartFailed, AfterStart, change, latches, recovery, stream,
         codecs, rates, framing, budget, seen, Episode, Attempting,
         AttemptsBounded, Starting, CountsOK, FlagsOK, PlacesOK
<1>8. CASE RateChangeFailed
  BY <1>8 DEF RateChangeFailed, MuteAndStop, Start, change, latches, recovery,
         framing, budget, seen, Episode, Attempting, AttemptsBounded,
         Starting, CountsOK, FlagsOK, PlacesOK
<1>9. CASE ManageIdle
  BY <1>9 DEF ManageIdle, change, latches, recovery, stream, codecs, rates,
         framing, budget, seen, Episode, Attempting, AttemptsBounded,
         Starting, CountsOK, FlagsOK, PlacesOK
<1>10. CASE ManageStart
  BY <1>10 DEF ManageStart, Start, change, latches, recovery, stream, codecs,
         rates, framing, budget, seen, Episode, Attempting, AttemptsBounded,
         Starting, CountsOK, FlagsOK, PlacesOK
<1>11. CASE declick_b_shutdown
  BY <1>11 DEF declick_b_shutdown, change, latches, recovery, rates, framing,
         budget, seen, Episode, Attempting, AttemptsBounded, Starting,
         CountsOK, FlagsOK, PlacesOK
<1>12. CASE BRestarted
  BY <1>12 DEF BRestarted, frmerr_reset, BStarts, change, latches, Episode,
         Attempting, AttemptsBounded, Starting, CountsOK, FlagsOK, PlacesOK
<1>13. CASE BRestartFailed
  BY <1>13 DEF BRestartFailed, frmerr_reset, BStaysMuted, Fault, BFails,
         change, latches, Episode, Attempting, AttemptsBounded, Starting,
         CountsOK, FlagsOK, PlacesOK
<1>14. CASE NoCommand
  BY <1>14 DEF NoCommand, change, latches, recovery, stream, codecs, rates,
         framing, budget, seen, Episode, Attempting, AttemptsBounded,
         Starting, CountsOK, FlagsOK, PlacesOK
<1>15. CASE StopForFlash
  BY <1>15 DEF StopForFlash, MuteAndStop, Command, change, recovery, codecs,
         rates, framing, Episode, Attempting, AttemptsBounded, Starting,
         CountsOK, FlagsOK, PlacesOK
<1>16. CASE Stop
  BY <1>16 DEF Stop, stop_route, stream, Command, change, latches, recovery,
         codecs, rates, framing, Episode, Attempting, AttemptsBounded,
         Starting, CountsOK, FlagsOK, PlacesOK
<1>17. CASE Restart
  BY <1>17 DEF Restart, MuteAndStop, Start, Command, change, latches,
         recovery, codecs, rates, framing, Episode, Attempting,
         AttemptsBounded, Starting, CountsOK, FlagsOK, PlacesOK
<1>18. CASE ForceTrip
  BY <1>18 DEF ForceTrip, Command, change, latches, stream, codecs, rates,
         framing, Episode, Attempting, AttemptsBounded, Starting, CountsOK,
         FlagsOK, PlacesOK
<1>19. CASE PopTest
  BY <1>19 DEF PopTest, Command, change, latches, recovery, stream, codecs,
         rates, framing, Episode, Attempting, AttemptsBounded, Starting,
         CountsOK, FlagsOK, PlacesOK
<1>20. CASE TickEarly
  BY <1>20 DEF TickEarly, change, latches, recovery, stream, codecs, rates,
         framing, budget, seen, Episode, Attempting, AttemptsBounded,
         Starting, CountsOK, FlagsOK, PlacesOK
<1>21. CASE TickIdle
  BY <1>21 DEF TickIdle, Triggered, tdm_liveness_stalled, change, latches,
         stream, codecs, rates, framing, budget, seen, Episode, Attempting,
         AttemptsBounded, Starting, CountsOK, FlagsOK, PlacesOK
<1>22. CASE TickRestart
  BY <1>22 DEF TickRestart, MuteAndStop, Start, Due, Triggered,
         tdm_liveness_stalled, CountedRestarts, change, latches, codecs,
         rates, framing, budget, Episode, Attempting, AttemptsBounded,
         Starting, CountsOK, FlagsOK, PlacesOK
<1>23. CASE RestartFailed
  <2> USE <1>23 DEF RestartFailed, AttemptFails, Episode, Attempting, Starting,
         AttemptsBounded, CountsOK, FlagsOK
  <2>1. /\ recovering /\ ~safe_mute /\ pc' = "manage" /\ ~Attempting' /\ ~force_trip
        /\ tries' = tries /\ restarts' = restarts /\ force_trip' = force_trip
    BY DEF seen
  <2>2. CASE restarts >= MAX_RESTART
    BY <2>1, <2>2
  <2>3. CASE ~(restarts >= MAX_RESTART)
    BY <2>1, <2>3
  <2> QED BY <2>2, <2>3
<1>24. CASE QualifyTimeout
  BY <1>24 DEF QualifyTimeout, AttemptFails, change, latches, stream, codecs,
         rates, framing, budget, seen, Episode, Attempting, AttemptsBounded,
         Starting, CountsOK, FlagsOK, PlacesOK
<1>25. CASE Qualify
  BY <1>25 DEF Qualify, mark_qualified, change, latches, codecs, rates,
         framing, budget, Episode, Attempting, AttemptsBounded, Starting,
         CountsOK, FlagsOK, PlacesOK
<1>26. ASSUME NEW l \in Legs, NEW r \in Rates, ChangeRate(l, r) PROVE Episode'
  BY <1>26 DEF ChangeRate, MuteAndStop, Start, Command, latches, recovery,
         stream, framing, Episode, Attempting, AttemptsBounded, Starting,
         CountsOK, FlagsOK, PlacesOK
<1>27. ASSUME NEW l \in Legs, Block(l) PROVE Episode'
  BY <1>27 DEF Block, control, change, latches, recovery, stream, codecs,
         rates, budget, seen, Episode, Attempting, AttemptsBounded, Starting,
         CountsOK, FlagsOK, PlacesOK
<1>28. ASSUME NEW l \in Legs, LoseFraming(l) PROVE Episode'
  BY <1>28 DEF LoseFraming, Fault, Lines, control, change, latches, recovery,
         stream, codecs, rates, seen, Episode, Attempting, AttemptsBounded,
         Starting, CountsOK, FlagsOK, PlacesOK
<1>29. CASE UNCHANGED vars
  BY <1>29 DEF vars, control, change, latches, recovery, rates, stream,
         codecs, framing, budget, seen, Episode, Attempting, AttemptsBounded,
         Starting, CountsOK, FlagsOK, PlacesOK
<1> QED
  BY <1>1, <1>2, <1>3, <1>4, <1>5, <1>6, <1>7, <1>8, <1>9, <1>10,
     <1>11, <1>12, <1>13, <1>14, <1>15, <1>16, <1>17, <1>18, <1>19, <1>20,
     <1>21, <1>22, <1>23, <1>24, <1>25, <1>26, <1>27, <1>28, <1>29
     DEF Next, MainLoop, Route, Console, Recover

\* Every step keeps the control's types.
LEMMA PlacesStep == Inv /\ [Next]_vars => PlacesOK'
<1> SUFFICES ASSUME Inv, [Next]_vars PROVE PlacesOK'
  OBVIOUS
<1> USE RatesAssumption, BoundsAssumption DEF Inv, TypeOK
<1>1. CASE ApplyCodecA
  BY <1>1 DEF ApplyCodecA, Fault, mark_transition_failed, SeededRate, change,
         latches, recovery, framing, seen, PlacesOK, RatesOK, Legs
<1>2. CASE StartTransport
  BY <1>2 DEF StartTransport, Fault, mark_transition_failed, change, latches,
         recovery, codecs, rates, framing, seen, PlacesOK, RatesOK, Legs
<1>3. CASE ApplyCodecB
  BY <1>3 DEF ApplyCodecB, Teardown, Fault, mark_transition_failed, change,
         recovery, rates, framing, seen, PlacesOK, RatesOK, Legs
<1>4. CASE StartLegB
  BY <1>4 DEF StartLegB, Teardown, Fault, mark_transition_failed, change,
         latches, recovery, codecs, rates, framing, seen, PlacesOK, RatesOK,
         Legs
<1>5. CASE FinishStart
  BY <1>5 DEF FinishStart, mark_qualified, AfterStart, change, recovery,
         budget, PlacesOK, RatesOK, Legs
<1>6. CASE FinishMuted
  BY <1>6 DEF FinishMuted, change, latches, recovery, codecs, rates, budget,
         seen, PlacesOK, RatesOK, Legs
<1>7. CASE StartFailed
  BY <1>7 DEF StartFailed, AfterStart, change, latches, recovery, stream,
         codecs, rates, framing, budget, seen, PlacesOK, RatesOK, Legs
<1>8. CASE RateChangeFailed
  BY <1>8 DEF RateChangeFailed, MuteAndStop, Start, change, latches, recovery,
         framing, budget, seen, PlacesOK, RatesOK, Legs
<1>9. CASE ManageIdle
  BY <1>9 DEF ManageIdle, change, latches, recovery, stream, codecs, rates,
         framing, budget, seen, PlacesOK, RatesOK, Legs
<1>10. CASE ManageStart
  BY <1>10 DEF ManageStart, Start, change, latches, recovery, stream, codecs,
         rates, framing, budget, seen, PlacesOK, RatesOK, Legs
<1>11. CASE declick_b_shutdown
  BY <1>11 DEF declick_b_shutdown, change, latches, recovery, rates, framing,
         budget, seen, PlacesOK, RatesOK, Legs
<1>12. CASE BRestarted
  BY <1>12 DEF BRestarted, frmerr_reset, BStarts, change, latches, PlacesOK,
         RatesOK, Legs
<1>13. CASE BRestartFailed
  BY <1>13 DEF BRestartFailed, frmerr_reset, BStaysMuted, Fault, BFails,
         change, latches, PlacesOK, RatesOK, Legs
<1>14. CASE NoCommand
  BY <1>14 DEF NoCommand, change, latches, recovery, stream, codecs, rates,
         framing, budget, seen, PlacesOK, RatesOK, Legs
<1>15. CASE StopForFlash
  BY <1>15 DEF StopForFlash, MuteAndStop, Command, change, recovery, codecs,
         rates, framing, PlacesOK, RatesOK, Legs
<1>16. CASE Stop
  BY <1>16 DEF Stop, stop_route, stream, Command, change, latches, recovery,
         codecs, rates, framing, PlacesOK, RatesOK, Legs
<1>17. CASE Restart
  BY <1>17 DEF Restart, MuteAndStop, Start, Command, change, latches,
         recovery, codecs, rates, framing, PlacesOK, RatesOK, Legs
<1>18. CASE ForceTrip
  BY <1>18 DEF ForceTrip, Command, change, latches, stream, codecs, rates,
         framing, PlacesOK, RatesOK, Legs
<1>19. CASE PopTest
  BY <1>19 DEF PopTest, Command, change, latches, recovery, stream, codecs,
         rates, framing, PlacesOK, RatesOK, Legs
<1>20. CASE TickEarly
  BY <1>20 DEF TickEarly, change, latches, recovery, stream, codecs, rates,
         framing, budget, seen, PlacesOK, RatesOK, Legs
<1>21. CASE TickIdle
  BY <1>21 DEF TickIdle, Triggered, tdm_liveness_stalled, change, latches,
         stream, codecs, rates, framing, budget, seen, PlacesOK, RatesOK, Legs
<1>22. CASE TickRestart
  BY <1>22 DEF TickRestart, MuteAndStop, Start, Due, Triggered,
         tdm_liveness_stalled, CountedRestarts, change, latches, codecs,
         rates, framing, budget, PlacesOK, RatesOK, Legs
<1>23. CASE RestartFailed
  BY <1>23 DEF RestartFailed, AttemptFails, change, latches, stream, codecs,
         rates, framing, budget, seen, PlacesOK, RatesOK, Legs
<1>24. CASE QualifyTimeout
  BY <1>24 DEF QualifyTimeout, AttemptFails, change, latches, stream, codecs,
         rates, framing, budget, seen, PlacesOK, RatesOK, Legs
<1>25. CASE Qualify
  BY <1>25 DEF Qualify, mark_qualified, change, latches, codecs, rates,
         framing, budget, PlacesOK, RatesOK, Legs
<1>26. ASSUME NEW l \in Legs, NEW r \in Rates, ChangeRate(l, r) PROVE PlacesOK'
  BY <1>26 DEF ChangeRate, MuteAndStop, Start, Command, latches, recovery,
         stream, framing, PlacesOK, RatesOK, Legs
<1>27. ASSUME NEW l \in Legs, Block(l) PROVE PlacesOK'
  BY <1>27 DEF Block, control, change, latches, recovery, stream, codecs,
         rates, budget, seen, PlacesOK, RatesOK, Legs
<1>28. ASSUME NEW l \in Legs, LoseFraming(l) PROVE PlacesOK'
  BY <1>28 DEF LoseFraming, Fault, Lines, control, change, latches, recovery,
         stream, codecs, rates, seen, PlacesOK, RatesOK, Legs
<1>29. CASE UNCHANGED vars
  BY <1>29 DEF vars, control, change, latches, recovery, rates, stream,
         codecs, framing, budget, seen, PlacesOK, RatesOK, Legs
<1> QED
  BY <1>1, <1>2, <1>3, <1>4, <1>5, <1>6, <1>7, <1>8, <1>9, <1>10,
     <1>11, <1>12, <1>13, <1>14, <1>15, <1>16, <1>17, <1>18, <1>19, <1>20,
     <1>21, <1>22, <1>23, <1>24, <1>25, <1>26, <1>27, <1>28, <1>29
     DEF Next, MainLoop, Route, Console, Recover

\* Every step keeps the flags.
LEMMA FlagsStep == Inv /\ [Next]_vars => FlagsOK'
<1> SUFFICES ASSUME Inv, [Next]_vars PROVE FlagsOK'
  OBVIOUS
<1> USE RatesAssumption, BoundsAssumption DEF Inv, TypeOK
<1>1. CASE ApplyCodecA
  BY <1>1, ZenonT(60) DEF ApplyCodecA, Fault, mark_transition_failed, SeededRate, change,
         latches, recovery, framing, seen, FlagsOK
<1>2. CASE StartTransport
  BY <1>2, ZenonT(60) DEF StartTransport, Fault, mark_transition_failed, change, latches,
         recovery, codecs, rates, framing, seen, FlagsOK
<1>3. CASE ApplyCodecB
  <2> USE <1>3 DEF ApplyCodecB, FlagsOK
  <2>1. CASE Teardown
    BY <2>1 DEF Teardown, mark_transition_failed, latches, recovery, rates,
           codecs, seen
  <2>2. CASE ~Teardown
    BY <2>2 DEF latches, recovery, rates, codecs, seen
  <2> QED BY <2>1, <2>2
<1>4. CASE StartLegB
  <2> USE <1>4 DEF StartLegB, FlagsOK
  <2>1. CASE Teardown
    BY <2>1 DEF Teardown, mark_transition_failed, latches, recovery, rates,
           codecs, seen
  <2>2. CASE ~Teardown
    BY <2>2 DEF latches, recovery, rates, codecs, seen
  <2> QED BY <2>1, <2>2
<1>5. CASE FinishStart
  BY <1>5 DEF FinishStart, mark_qualified, AfterStart, change, recovery,
         budget, FlagsOK
<1>6. CASE FinishMuted
  BY <1>6 DEF FinishMuted, change, latches, recovery, codecs, rates, budget,
         seen, FlagsOK
<1>7. CASE StartFailed
  BY <1>7 DEF StartFailed, AfterStart, change, latches, recovery, stream,
         codecs, rates, framing, budget, seen, FlagsOK
<1>8. CASE RateChangeFailed
  BY <1>8 DEF RateChangeFailed, MuteAndStop, Start, change, latches, recovery,
         framing, budget, seen, FlagsOK
<1>9. CASE ManageIdle
  BY <1>9 DEF ManageIdle, change, latches, recovery, stream, codecs, rates,
         framing, budget, seen, FlagsOK
<1>10. CASE ManageStart
  BY <1>10 DEF ManageStart, Start, change, latches, recovery, stream, codecs,
         rates, framing, budget, seen, FlagsOK
<1>11. CASE declick_b_shutdown
  BY <1>11 DEF declick_b_shutdown, change, latches, recovery, rates, framing,
         budget, seen, FlagsOK
<1>12. CASE BRestarted
  BY <1>12 DEF BRestarted, frmerr_reset, BStarts, change, latches, FlagsOK
<1>13. CASE BRestartFailed
  BY <1>13 DEF BRestartFailed, frmerr_reset, BStaysMuted, Fault, BFails,
         change, latches, FlagsOK
<1>14. CASE NoCommand
  BY <1>14 DEF NoCommand, change, latches, recovery, stream, codecs, rates,
         framing, budget, seen, FlagsOK
<1>15. CASE StopForFlash
  BY <1>15 DEF StopForFlash, MuteAndStop, Command, change, recovery, codecs,
         rates, framing, FlagsOK
<1>16. CASE Stop
  BY <1>16, ZenonT(60) DEF Stop, stop_route, stream, Command, change, latches, recovery,
         codecs, rates, framing, FlagsOK
<1>17. CASE Restart
  BY <1>17 DEF Restart, MuteAndStop, Start, Command, change, latches,
         recovery, codecs, rates, framing, FlagsOK
<1>18. CASE ForceTrip
  BY <1>18 DEF ForceTrip, Command, change, latches, stream, codecs, rates,
         framing, FlagsOK
<1>19. CASE PopTest
  BY <1>19 DEF PopTest, Command, change, latches, recovery, stream, codecs,
         rates, framing, FlagsOK
<1>20. CASE TickEarly
  BY <1>20 DEF TickEarly, change, latches, recovery, stream, codecs, rates,
         framing, budget, seen, FlagsOK
<1>21. CASE TickIdle
  BY <1>21 DEF TickIdle, Triggered, tdm_liveness_stalled, change, latches,
         stream, codecs, rates, framing, budget, seen, FlagsOK
<1>22. CASE TickRestart
  BY <1>22 DEF TickRestart, MuteAndStop, Start, Due, Triggered,
         tdm_liveness_stalled, CountedRestarts, change, latches, codecs,
         rates, framing, budget, FlagsOK
<1>23. CASE RestartFailed
  BY <1>23, ZenonT(60) DEF RestartFailed, AttemptFails, change, latches, stream, codecs,
         rates, framing, budget, seen, FlagsOK
<1>24. CASE QualifyTimeout
  BY <1>24, ZenonT(60) DEF QualifyTimeout, AttemptFails, change, latches, stream, codecs,
         rates, framing, budget, seen, FlagsOK
<1>25. CASE Qualify
  BY <1>25 DEF Qualify, mark_qualified, change, latches, codecs, rates,
         framing, budget, FlagsOK
<1>26. ASSUME NEW l \in Legs, NEW r \in Rates, ChangeRate(l, r) PROVE FlagsOK'
  BY <1>26 DEF ChangeRate, MuteAndStop, Start, Command, latches, recovery,
         stream, framing, FlagsOK
<1>27. ASSUME NEW l \in Legs, Block(l) PROVE FlagsOK'
  BY <1>27 DEF Block, control, change, latches, recovery, stream, codecs,
         rates, budget, seen, FlagsOK
<1>28. ASSUME NEW l \in Legs, LoseFraming(l) PROVE FlagsOK'
  BY <1>28 DEF LoseFraming, Fault, Lines, control, change, latches, recovery,
         stream, codecs, rates, seen, FlagsOK
<1>29. CASE UNCHANGED vars
  BY <1>29 DEF vars, control, change, latches, recovery, rates, stream,
         codecs, framing, budget, seen, FlagsOK
<1> QED
  BY <1>1, <1>2, <1>3, <1>4, <1>5, <1>6, <1>7, <1>8, <1>9, <1>10,
     <1>11, <1>12, <1>13, <1>14, <1>15, <1>16, <1>17, <1>18, <1>19, <1>20,
     <1>21, <1>22, <1>23, <1>24, <1>25, <1>26, <1>27, <1>28, <1>29
     DEF Next, MainLoop, Route, Console, Recover

\* Every step keeps the legs' types.
LEMMA LegsStep == Inv /\ [Next]_vars => LegsOK'
<1> SUFFICES ASSUME Inv, [Next]_vars PROVE LegsOK'
  OBVIOUS
<1> USE RatesAssumption, BoundsAssumption DEF Inv, TypeOK
<1>1. CASE ApplyCodecA
  BY <1>1 DEF ApplyCodecA, Fault, mark_transition_failed, SeededRate, change,
         latches, recovery, framing, seen, LegsOK, Legs
<1>2. CASE StartTransport
  <2> USE <1>2 DEF StartTransport, LegsOK, Legs
  <2>1. CASE pc' = "codecB"
    <3>1. line' = [line EXCEPT !["A"] = "ok"]
      BY <2>1 DEF Teardown, mark_transition_failed
    <3>2. line' \in [Legs -> Lines]
      BY <3>1 DEF Lines
    <3>3. running' \subseteq Legs /\ frm' \subseteq Legs /\ loud' \subseteq Legs
      BY <2>1 DEF Teardown, framing
    <3> QED BY <3>2, <3>3
  <2>2. CASE pc' = "failed"
    BY <2>2 DEF Teardown, framing
  <2> QED BY <2>1, <2>2
<1>3. CASE ApplyCodecB
  BY <1>3 DEF ApplyCodecB, Teardown, Fault, mark_transition_failed, change,
         recovery, rates, framing, seen, LegsOK, Legs
<1>4. CASE StartLegB
  <2> USE <1>4 DEF StartLegB, LegsOK, Legs
  <2>1. CASE pc' = "finish"
    <3>1. line' = [line EXCEPT !["B"] = "ok"]
      BY <2>1 DEF Teardown, mark_transition_failed
    <3>2. line' \in [Legs -> Lines]
      BY <3>1 DEF Lines
    <3>3. running' \subseteq Legs /\ frm' \subseteq Legs /\ loud' \subseteq Legs
      BY <2>1 DEF Teardown, framing
    <3> QED BY <3>2, <3>3
  <2>2. CASE Teardown
    BY <2>2 DEF Teardown, framing
  <2> QED BY <2>1, <2>2
<1>5. CASE FinishStart
  BY <1>5 DEF FinishStart, mark_qualified, AfterStart, change, recovery,
         budget, LegsOK, Legs
<1>6. CASE FinishMuted
  BY <1>6 DEF FinishMuted, change, latches, recovery, codecs, rates, budget,
         seen, LegsOK, Legs
<1>7. CASE StartFailed
  BY <1>7 DEF StartFailed, AfterStart, change, latches, recovery, stream,
         codecs, rates, framing, budget, seen, LegsOK, Legs
<1>8. CASE RateChangeFailed
  BY <1>8 DEF RateChangeFailed, MuteAndStop, Start, change, latches, recovery,
         framing, budget, seen, LegsOK, Legs
<1>9. CASE ManageIdle
  BY <1>9 DEF ManageIdle, change, latches, recovery, stream, codecs, rates,
         framing, budget, seen, LegsOK, Legs
<1>10. CASE ManageStart
  BY <1>10 DEF ManageStart, Start, change, latches, recovery, stream, codecs,
         rates, framing, budget, seen, LegsOK, Legs
<1>11. CASE declick_b_shutdown
  BY <1>11 DEF declick_b_shutdown, change, latches, recovery, rates, framing,
         budget, seen, LegsOK, Legs
<1>12. CASE BRestarted
  <2> USE <1>12 DEF BRestarted, BStarts, frmerr_reset, LegsOK, Legs
  <2>1. line' \in [Legs -> Lines]
    <3>1. CASE "B" \in running
      BY <3>1
    <3>2. CASE "B" \notin running
      <4>1. line' = [line EXCEPT !["B"] = "ok"]
        BY <3>2
      <4> QED BY <4>1 DEF Lines
    <3> QED BY <3>1, <3>2
  <2> QED BY <2>1
<1>13. CASE BRestartFailed
  BY <1>13 DEF BRestartFailed, frmerr_reset, BStaysMuted, Fault, BFails,
         change, latches, LegsOK, Legs
<1>14. CASE NoCommand
  BY <1>14 DEF NoCommand, change, latches, recovery, stream, codecs, rates,
         framing, budget, seen, LegsOK, Legs
<1>15. CASE StopForFlash
  BY <1>15 DEF StopForFlash, MuteAndStop, Command, change, recovery, codecs,
         rates, framing, LegsOK, Legs
<1>16. CASE Stop
  BY <1>16 DEF Stop, stop_route, stream, Command, change, latches, recovery,
         codecs, rates, framing, LegsOK, Legs
<1>17. CASE Restart
  BY <1>17 DEF Restart, MuteAndStop, Start, Command, change, latches,
         recovery, codecs, rates, framing, LegsOK, Legs
<1>18. CASE ForceTrip
  BY <1>18 DEF ForceTrip, Command, change, latches, stream, codecs, rates,
         framing, LegsOK, Legs
<1>19. CASE PopTest
  BY <1>19 DEF PopTest, Command, change, latches, recovery, stream, codecs,
         rates, framing, LegsOK, Legs
<1>20. CASE TickEarly
  BY <1>20 DEF TickEarly, change, latches, recovery, stream, codecs, rates,
         framing, budget, seen, LegsOK, Legs
<1>21. CASE TickIdle
  BY <1>21 DEF TickIdle, Triggered, tdm_liveness_stalled, change, latches,
         stream, codecs, rates, framing, budget, seen, LegsOK, Legs
<1>22. CASE TickRestart
  BY <1>22 DEF TickRestart, MuteAndStop, Start, Due, Triggered,
         tdm_liveness_stalled, CountedRestarts, change, latches, codecs,
         rates, framing, budget, LegsOK, Legs
<1>23. CASE RestartFailed
  BY <1>23 DEF RestartFailed, AttemptFails, change, latches, stream, codecs,
         rates, framing, budget, seen, LegsOK, Legs
<1>24. CASE QualifyTimeout
  BY <1>24 DEF QualifyTimeout, AttemptFails, change, latches, stream, codecs,
         rates, framing, budget, seen, LegsOK, Legs
<1>25. CASE Qualify
  BY <1>25 DEF Qualify, mark_qualified, change, latches, codecs, rates,
         framing, budget, LegsOK, Legs
<1>26. ASSUME NEW l \in Legs, NEW r \in Rates, ChangeRate(l, r) PROVE LegsOK'
  BY <1>26 DEF ChangeRate, MuteAndStop, Start, Command, latches, recovery,
         stream, framing, LegsOK, Legs
<1>27. ASSUME NEW l \in Legs, Block(l) PROVE LegsOK'
  BY <1>27 DEF Block, control, change, latches, recovery, stream, codecs,
         rates, budget, seen, LegsOK, Legs
<1>28. ASSUME NEW l \in Legs, LoseFraming(l) PROVE LegsOK'
  BY <1>28 DEF LoseFraming, Fault, Lines, control, change, latches, recovery,
         stream, codecs, rates, seen, LegsOK, Legs
<1>29. CASE UNCHANGED vars
  BY <1>29 DEF vars, control, change, latches, recovery, rates, stream,
         codecs, framing, budget, seen, LegsOK, Legs
<1> QED
  BY <1>1, <1>2, <1>3, <1>4, <1>5, <1>6, <1>7, <1>8, <1>9, <1>10,
     <1>11, <1>12, <1>13, <1>14, <1>15, <1>16, <1>17, <1>18, <1>19, <1>20,
     <1>21, <1>22, <1>23, <1>24, <1>25, <1>26, <1>27, <1>28, <1>29
     DEF Next, MainLoop, Route, Console, Recover

\* Every step keeps the rates' types.
LEMMA RatesStep == Inv /\ [Next]_vars => RatesOK'
<1> SUFFICES ASSUME Inv, [Next]_vars PROVE RatesOK'
  OBVIOUS
<1> USE RatesAssumption, BoundsAssumption DEF Inv, TypeOK
<1>1. CASE ApplyCodecA
  BY <1>1 DEF ApplyCodecA, Fault, mark_transition_failed, SeededRate, change,
         latches, recovery, framing, seen, RatesOK, PlacesOK, Legs
<1>2. CASE StartTransport
  BY <1>2 DEF StartTransport, Fault, mark_transition_failed, change, latches,
         recovery, codecs, rates, framing, seen, RatesOK, PlacesOK, Legs
<1>3. CASE ApplyCodecB
  BY <1>3 DEF ApplyCodecB, Teardown, Fault, mark_transition_failed, change,
         recovery, rates, framing, seen, RatesOK, PlacesOK, Legs
<1>4. CASE StartLegB
  BY <1>4 DEF StartLegB, Teardown, Fault, mark_transition_failed, change,
         latches, recovery, codecs, rates, framing, seen, RatesOK, PlacesOK,
         Legs
<1>5. CASE FinishStart
  BY <1>5 DEF FinishStart, mark_qualified, AfterStart, change, recovery,
         budget, RatesOK, PlacesOK, Legs
<1>6. CASE FinishMuted
  BY <1>6 DEF FinishMuted, change, latches, recovery, codecs, rates, budget,
         seen, RatesOK, PlacesOK, Legs
<1>7. CASE StartFailed
  BY <1>7 DEF StartFailed, AfterStart, change, latches, recovery, stream,
         codecs, rates, framing, budget, seen, RatesOK, PlacesOK, Legs
<1>8. CASE RateChangeFailed
  BY <1>8 DEF RateChangeFailed, MuteAndStop, Start, change, latches, recovery,
         framing, budget, seen, RatesOK, PlacesOK, Legs
<1>9. CASE ManageIdle
  BY <1>9 DEF ManageIdle, change, latches, recovery, stream, codecs, rates,
         framing, budget, seen, RatesOK, PlacesOK, Legs
<1>10. CASE ManageStart
  BY <1>10 DEF ManageStart, Start, change, latches, recovery, stream, codecs,
         rates, framing, budget, seen, RatesOK, PlacesOK, Legs
<1>11. CASE declick_b_shutdown
  BY <1>11 DEF declick_b_shutdown, change, latches, recovery, rates, framing,
         budget, seen, RatesOK, PlacesOK, Legs
<1>12. CASE BRestarted
  BY <1>12 DEF BRestarted, frmerr_reset, BStarts, change, latches, RatesOK,
         PlacesOK, Legs
<1>13. CASE BRestartFailed
  BY <1>13 DEF BRestartFailed, frmerr_reset, BStaysMuted, Fault, BFails,
         change, latches, RatesOK, PlacesOK, Legs
<1>14. CASE NoCommand
  BY <1>14 DEF NoCommand, change, latches, recovery, stream, codecs, rates,
         framing, budget, seen, RatesOK, PlacesOK, Legs
<1>15. CASE StopForFlash
  BY <1>15 DEF StopForFlash, MuteAndStop, Command, change, recovery, codecs,
         rates, framing, RatesOK, PlacesOK, Legs
<1>16. CASE Stop
  BY <1>16 DEF Stop, stop_route, stream, Command, change, latches, recovery,
         codecs, rates, framing, RatesOK, PlacesOK, Legs
<1>17. CASE Restart
  BY <1>17 DEF Restart, MuteAndStop, Start, Command, change, latches,
         recovery, codecs, rates, framing, RatesOK, PlacesOK, Legs
<1>18. CASE ForceTrip
  BY <1>18 DEF ForceTrip, Command, change, latches, stream, codecs, rates,
         framing, RatesOK, PlacesOK, Legs
<1>19. CASE PopTest
  BY <1>19 DEF PopTest, Command, change, latches, recovery, stream, codecs,
         rates, framing, RatesOK, PlacesOK, Legs
<1>20. CASE TickEarly
  BY <1>20 DEF TickEarly, change, latches, recovery, stream, codecs, rates,
         framing, budget, seen, RatesOK, PlacesOK, Legs
<1>21. CASE TickIdle
  BY <1>21 DEF TickIdle, Triggered, tdm_liveness_stalled, change, latches,
         stream, codecs, rates, framing, budget, seen, RatesOK, PlacesOK, Legs
<1>22. CASE TickRestart
  BY <1>22 DEF TickRestart, MuteAndStop, Start, Due, Triggered,
         tdm_liveness_stalled, CountedRestarts, change, latches, codecs,
         rates, framing, budget, RatesOK, PlacesOK, Legs
<1>23. CASE RestartFailed
  BY <1>23 DEF RestartFailed, AttemptFails, change, latches, stream, codecs,
         rates, framing, budget, seen, RatesOK, PlacesOK, Legs
<1>24. CASE QualifyTimeout
  BY <1>24 DEF QualifyTimeout, AttemptFails, change, latches, stream, codecs,
         rates, framing, budget, seen, RatesOK, PlacesOK, Legs
<1>25. CASE Qualify
  BY <1>25 DEF Qualify, mark_qualified, change, latches, codecs, rates,
         framing, budget, RatesOK, PlacesOK, Legs
<1>26. ASSUME NEW l \in Legs, NEW r \in Rates, ChangeRate(l, r) PROVE RatesOK'
  BY <1>26 DEF ChangeRate, MuteAndStop, Start, Command, latches, recovery,
         stream, framing, RatesOK, PlacesOK, Legs
<1>27. ASSUME NEW l \in Legs, Block(l) PROVE RatesOK'
  BY <1>27 DEF Block, control, change, latches, recovery, stream, codecs,
         rates, budget, seen, RatesOK, PlacesOK, Legs
<1>28. ASSUME NEW l \in Legs, LoseFraming(l) PROVE RatesOK'
  BY <1>28 DEF LoseFraming, Fault, Lines, control, change, latches, recovery,
         stream, codecs, rates, seen, RatesOK, PlacesOK, Legs
<1>29. CASE UNCHANGED vars
  BY <1>29 DEF vars, control, change, latches, recovery, rates, stream,
         codecs, framing, budget, seen, RatesOK, PlacesOK, Legs
<1> QED
  BY <1>1, <1>2, <1>3, <1>4, <1>5, <1>6, <1>7, <1>8, <1>9, <1>10,
     <1>11, <1>12, <1>13, <1>14, <1>15, <1>16, <1>17, <1>18, <1>19, <1>20,
     <1>21, <1>22, <1>23, <1>24, <1>25, <1>26, <1>27, <1>28, <1>29
     DEF Next, MainLoop, Route, Console, Recover

\* Every step keeps the counts.
LEMMA CountsStep == Inv /\ [Next]_vars => CountsOK'
<1> SUFFICES ASSUME Inv, [Next]_vars PROVE CountsOK'
  OBVIOUS
<1> USE RatesAssumption, BoundsAssumption DEF Inv, TypeOK
<1>1. CASE ApplyCodecA
  BY <1>1 DEF ApplyCodecA, Fault, mark_transition_failed, SeededRate, change,
         latches, recovery, framing, seen, CountsOK, FlagsOK, Episode,
         Attempting, Starting
<1>2. CASE StartTransport
  BY <1>2 DEF StartTransport, Fault, mark_transition_failed, change, latches,
         recovery, codecs, rates, framing, seen, CountsOK, FlagsOK, Episode,
         Attempting, Starting
<1>3. CASE ApplyCodecB
  BY <1>3 DEF ApplyCodecB, Teardown, Fault, mark_transition_failed, change,
         recovery, rates, framing, seen, CountsOK, FlagsOK, Episode,
         Attempting, Starting
<1>4. CASE StartLegB
  BY <1>4 DEF StartLegB, Teardown, Fault, mark_transition_failed, change,
         latches, recovery, codecs, rates, framing, seen, CountsOK, FlagsOK,
         Episode, Attempting, Starting
<1>5. CASE FinishStart
  BY <1>5 DEF FinishStart, mark_qualified, AfterStart, change, recovery,
         budget, CountsOK, FlagsOK, Episode, Attempting, Starting
<1>6. CASE FinishMuted
  BY <1>6 DEF FinishMuted, change, latches, recovery, codecs, rates, budget,
         seen, CountsOK, FlagsOK, Episode, Attempting, Starting
<1>7. CASE StartFailed
  BY <1>7 DEF StartFailed, AfterStart, change, latches, recovery, stream,
         codecs, rates, framing, budget, seen, CountsOK, FlagsOK, Episode,
         Attempting, Starting
<1>8. CASE RateChangeFailed
  BY <1>8 DEF RateChangeFailed, MuteAndStop, Start, change, latches, recovery,
         framing, budget, seen, CountsOK, FlagsOK, Episode, Attempting,
         Starting
<1>9. CASE ManageIdle
  BY <1>9 DEF ManageIdle, change, latches, recovery, stream, codecs, rates,
         framing, budget, seen, CountsOK, FlagsOK, Episode, Attempting,
         Starting
<1>10. CASE ManageStart
  BY <1>10 DEF ManageStart, Start, change, latches, recovery, stream, codecs,
         rates, framing, budget, seen, CountsOK, FlagsOK, Episode, Attempting,
         Starting
<1>11. CASE declick_b_shutdown
  BY <1>11 DEF declick_b_shutdown, change, latches, recovery, rates, framing,
         budget, seen, CountsOK, FlagsOK, Episode, Attempting, Starting
<1>12. CASE BRestarted
  BY <1>12 DEF BRestarted, frmerr_reset, BStarts, change, latches, CountsOK,
         FlagsOK, Episode, Attempting, Starting
<1>13. CASE BRestartFailed
  BY <1>13 DEF BRestartFailed, frmerr_reset, BStaysMuted, Fault, BFails,
         change, latches, CountsOK, FlagsOK, Episode, Attempting, Starting
<1>14. CASE NoCommand
  BY <1>14 DEF NoCommand, change, latches, recovery, stream, codecs, rates,
         framing, budget, seen, CountsOK, FlagsOK, Episode, Attempting,
         Starting
<1>15. CASE StopForFlash
  BY <1>15 DEF StopForFlash, MuteAndStop, Command, change, recovery, codecs,
         rates, framing, CountsOK, FlagsOK, Episode, Attempting, Starting
<1>16. CASE Stop
  BY <1>16 DEF Stop, stop_route, stream, Command, change, latches, recovery,
         codecs, rates, framing, CountsOK, FlagsOK, Episode, Attempting,
         Starting
<1>17. CASE Restart
  BY <1>17 DEF Restart, MuteAndStop, Start, Command, change, latches,
         recovery, codecs, rates, framing, CountsOK, FlagsOK, Episode,
         Attempting, Starting
<1>18. CASE ForceTrip
  BY <1>18 DEF ForceTrip, Command, change, latches, stream, codecs, rates,
         framing, CountsOK, FlagsOK, Episode, Attempting, Starting
<1>19. CASE PopTest
  BY <1>19 DEF PopTest, Command, change, latches, recovery, stream, codecs,
         rates, framing, CountsOK, FlagsOK, Episode, Attempting, Starting
<1>20. CASE TickEarly
  BY <1>20 DEF TickEarly, change, latches, recovery, stream, codecs, rates,
         framing, budget, seen, CountsOK, FlagsOK, Episode, Attempting,
         Starting
<1>21. CASE TickIdle
  BY <1>21 DEF TickIdle, Triggered, tdm_liveness_stalled, change, latches,
         stream, codecs, rates, framing, budget, seen, CountsOK, FlagsOK,
         Episode, Attempting, Starting
<1>22. CASE TickRestart
  BY <1>22 DEF TickRestart, MuteAndStop, Start, Due, Triggered,
         tdm_liveness_stalled, CountedRestarts, change, latches, codecs,
         rates, framing, budget, CountsOK, FlagsOK, Episode, Attempting,
         Starting
<1>23. CASE RestartFailed
  BY <1>23 DEF RestartFailed, AttemptFails, change, latches, stream, codecs,
         rates, framing, budget, seen, CountsOK, FlagsOK, Episode, Attempting,
         Starting
<1>24. CASE QualifyTimeout
  BY <1>24 DEF QualifyTimeout, AttemptFails, change, latches, stream, codecs,
         rates, framing, budget, seen, CountsOK, FlagsOK, Episode, Attempting,
         Starting
<1>25. CASE Qualify
  BY <1>25 DEF Qualify, mark_qualified, change, latches, codecs, rates,
         framing, budget, CountsOK, FlagsOK, Episode, Attempting, Starting
<1>26. ASSUME NEW l \in Legs, NEW r \in Rates, ChangeRate(l, r) PROVE CountsOK'
  BY <1>26 DEF ChangeRate, MuteAndStop, Start, Command, latches, recovery,
         stream, framing, CountsOK, FlagsOK, Episode, Attempting, Starting
<1>27. ASSUME NEW l \in Legs, Block(l) PROVE CountsOK'
  BY <1>27 DEF Block, control, change, latches, recovery, stream, codecs,
         rates, budget, seen, CountsOK, FlagsOK, Episode, Attempting, Starting
<1>28. ASSUME NEW l \in Legs, LoseFraming(l) PROVE CountsOK'
  BY <1>28 DEF LoseFraming, Fault, Lines, control, change, latches, recovery,
         stream, codecs, rates, seen, CountsOK, FlagsOK, Episode, Attempting,
         Starting
<1>29. CASE UNCHANGED vars
  BY <1>29 DEF vars, control, change, latches, recovery, rates, stream,
         codecs, framing, budget, seen, CountsOK, FlagsOK, Episode,
         Attempting, Starting
<1> QED
  BY <1>1, <1>2, <1>3, <1>4, <1>5, <1>6, <1>7, <1>8, <1>9, <1>10,
     <1>11, <1>12, <1>13, <1>14, <1>15, <1>16, <1>17, <1>18, <1>19, <1>20,
     <1>21, <1>22, <1>23, <1>24, <1>25, <1>26, <1>27, <1>28, <1>29
     DEF Next, MainLoop, Route, Console, Recover

\* Every step keeps Tracked.
LEMMA TrackedStep == Inv /\ [Next]_vars => Tracked'
<1> SUFFICES ASSUME Inv, [Next]_vars PROVE Tracked'
  OBVIOUS
<1> USE RatesAssumption, BoundsAssumption DEF Inv, TypeOK
<1>1. CASE ApplyCodecA
  BY <1>1 DEF ApplyCodecA, Fault, mark_transition_failed, SeededRate, change,
         latches, recovery, framing, seen, Tracked, Changing, RatesAgree,
         audible, Starting, Stream, RatesOK, PlacesOK, LegsOK, FlagsOK, Legs
<1>2. CASE StartTransport
  BY <1>2 DEF StartTransport, Fault, mark_transition_failed, change, latches,
         recovery, codecs, rates, framing, seen, Tracked, Changing,
         RatesAgree, audible, Starting, Stream, RatesOK, PlacesOK, LegsOK,
         FlagsOK, Legs
<1>3. CASE ApplyCodecB
  BY <1>3 DEF ApplyCodecB, Teardown, Fault, mark_transition_failed, change,
         recovery, rates, framing, seen, Tracked, Changing, RatesAgree,
         audible, Starting, Stream, RatesOK, PlacesOK, LegsOK, FlagsOK, Legs
<1>4. CASE StartLegB
  BY <1>4 DEF StartLegB, Teardown, Fault, mark_transition_failed, change,
         latches, recovery, codecs, rates, framing, seen, Tracked, Changing,
         RatesAgree, audible, Starting, Stream, RatesOK, PlacesOK, LegsOK,
         FlagsOK, Legs
<1>5. CASE FinishStart
  BY <1>5 DEF FinishStart, mark_qualified, AfterStart, change, recovery,
         budget, Tracked, Changing, RatesAgree, audible, Starting, Stream,
         RatesOK, PlacesOK, LegsOK, FlagsOK, Legs
<1>6. CASE FinishMuted
  BY <1>6 DEF FinishMuted, change, latches, recovery, codecs, rates, budget,
         seen, Tracked, Changing, RatesAgree, audible, Starting, Stream,
         RatesOK, PlacesOK, LegsOK, FlagsOK, Legs
<1>7. CASE StartFailed
  BY <1>7 DEF StartFailed, AfterStart, change, latches, recovery, stream,
         codecs, rates, framing, budget, seen, Tracked, Changing, RatesAgree,
         audible, Starting, Stream, RatesOK, PlacesOK, LegsOK, FlagsOK, Legs
<1>8. CASE RateChangeFailed
  BY <1>8 DEF RateChangeFailed, MuteAndStop, Start, change, latches, recovery,
         framing, budget, seen, Tracked, Changing, RatesAgree, audible,
         Starting, Stream, RatesOK, PlacesOK, LegsOK, FlagsOK, Legs
<1>9. CASE ManageIdle
  BY <1>9 DEF ManageIdle, change, latches, recovery, stream, codecs, rates,
         framing, budget, seen, Tracked, Changing, RatesAgree, audible,
         Starting, Stream, RatesOK, PlacesOK, LegsOK, FlagsOK, Legs
<1>10. CASE ManageStart
  BY <1>10 DEF ManageStart, Start, change, latches, recovery, stream, codecs,
         rates, framing, budget, seen, Tracked, Changing, RatesAgree, audible,
         Starting, Stream, RatesOK, PlacesOK, LegsOK, FlagsOK, Legs
<1>11. CASE declick_b_shutdown
  BY <1>11 DEF declick_b_shutdown, change, latches, recovery, rates, framing,
         budget, seen, Tracked, Changing, RatesAgree, audible, Starting,
         Stream, RatesOK, PlacesOK, LegsOK, FlagsOK, Legs
<1>12. CASE BRestarted
  BY <1>12 DEF BRestarted, frmerr_reset, BStarts, change, latches, Tracked,
         Changing, RatesAgree, audible, Starting, Stream, RatesOK, PlacesOK,
         LegsOK, FlagsOK, Legs
<1>13. CASE BRestartFailed
  <2> USE <1>13 DEF BRestartFailed, Tracked, Changing, Starting, Legs
  <2>1. /\ configured' = configured /\ seeded' = seeded /\ leg' = leg
        /\ previous' = previous /\ pc = "b_up"
        /\ rate' = IF job = "fast" THEN [rate EXCEPT !["B"] = previous] ELSE rate
        /\ job' = (IF job = "fast" THEN "fast_back" ELSE job)
        /\ pc' = IF job = "fast" THEN "b_down" ELSE "service"
    BY DEF change
  <2>2. seeded /\ (job = "fast" => leg = "B" /\ previous = configured["B"])
    BY <2>1
  <2>3. \A l \in Legs : rate'[l] = configured'[l]
    <3>1. CASE job = "fast"
      BY <3>1, <2>1, <2>2 DEF RatesOK
    <3>2. CASE job # "fast"
      BY <3>2, <2>1, <2>2
    <3> QED BY <3>1, <3>2
  <2>4. RatesAgree'
    <3>1. CASE BStaysMuted
      BY <3>1, <2>1 DEF BStaysMuted, RatesAgree, audible, RatesOK, LegsOK
    <3>2. CASE BFails
      BY <3>2, <2>1 DEF BFails, RatesAgree, audible, RatesOK, LegsOK
    <3> QED BY <3>1, <3>2
  <2> QED BY <2>1, <2>2, <2>3, <2>4
<1>14. CASE NoCommand
  BY <1>14 DEF NoCommand, change, latches, recovery, stream, codecs, rates,
         framing, budget, seen, Tracked, Changing, RatesAgree, audible,
         Starting, Stream, RatesOK, PlacesOK, LegsOK, FlagsOK, Legs
<1>15. CASE StopForFlash
  BY <1>15 DEF StopForFlash, MuteAndStop, Command, change, recovery, codecs,
         rates, framing, Tracked, Changing, RatesAgree, audible, Starting,
         Stream, RatesOK, PlacesOK, LegsOK, FlagsOK, Legs
<1>16. CASE Stop
  BY <1>16 DEF Stop, stop_route, stream, Command, change, latches, recovery,
         codecs, rates, framing, Tracked, Changing, RatesAgree, audible,
         Starting, Stream, RatesOK, PlacesOK, LegsOK, FlagsOK, Legs
<1>17. CASE Restart
  BY <1>17 DEF Restart, MuteAndStop, Start, Command, change, latches,
         recovery, codecs, rates, framing, Tracked, Changing, RatesAgree,
         audible, Starting, Stream, RatesOK, PlacesOK, LegsOK, FlagsOK, Legs
<1>18. CASE ForceTrip
  BY <1>18 DEF ForceTrip, Command, change, latches, stream, codecs, rates,
         framing, Tracked, Changing, RatesAgree, audible, Starting, Stream,
         RatesOK, PlacesOK, LegsOK, FlagsOK, Legs
<1>19. CASE PopTest
  BY <1>19 DEF PopTest, Command, change, latches, recovery, stream, codecs,
         rates, framing, Tracked, Changing, RatesAgree, audible, Starting,
         Stream, RatesOK, PlacesOK, LegsOK, FlagsOK, Legs
<1>20. CASE TickEarly
  BY <1>20 DEF TickEarly, change, latches, recovery, stream, codecs, rates,
         framing, budget, seen, Tracked, Changing, RatesAgree, audible,
         Starting, Stream, RatesOK, PlacesOK, LegsOK, FlagsOK, Legs
<1>21. CASE TickIdle
  BY <1>21 DEF TickIdle, Triggered, tdm_liveness_stalled, change, latches,
         stream, codecs, rates, framing, budget, seen, Tracked, Changing,
         RatesAgree, audible, Starting, Stream, RatesOK, PlacesOK, LegsOK,
         FlagsOK, Legs
<1>22. CASE TickRestart
  BY <1>22 DEF TickRestart, MuteAndStop, Start, Due, Triggered,
         tdm_liveness_stalled, CountedRestarts, change, latches, codecs,
         rates, framing, budget, Tracked, Changing, RatesAgree, audible,
         Starting, Stream, RatesOK, PlacesOK, LegsOK, FlagsOK, Legs
<1>23. CASE RestartFailed
  BY <1>23 DEF RestartFailed, AttemptFails, change, latches, stream, codecs,
         rates, framing, budget, seen, Tracked, Changing, RatesAgree, audible,
         Starting, Stream, RatesOK, PlacesOK, LegsOK, FlagsOK, Legs
<1>24. CASE QualifyTimeout
  BY <1>24 DEF QualifyTimeout, AttemptFails, change, latches, stream, codecs,
         rates, framing, budget, seen, Tracked, Changing, RatesAgree, audible,
         Starting, Stream, RatesOK, PlacesOK, LegsOK, FlagsOK, Legs
<1>25. CASE Qualify
  BY <1>25 DEF Qualify, mark_qualified, change, latches, codecs, rates,
         framing, budget, Tracked, Changing, RatesAgree, audible, Starting,
         Stream, RatesOK, PlacesOK, LegsOK, FlagsOK, Legs
<1>26. ASSUME NEW l \in Legs, NEW r \in Rates, ChangeRate(l, r) PROVE Tracked'
  BY <1>26 DEF ChangeRate, MuteAndStop, Start, Command, latches, recovery,
         stream, framing, Tracked, Changing, RatesAgree, audible, Starting,
         Stream, RatesOK, PlacesOK, LegsOK, FlagsOK, Legs
<1>27. ASSUME NEW l \in Legs, Block(l) PROVE Tracked'
  BY <1>27 DEF Block, control, change, latches, recovery, stream, codecs,
         rates, budget, seen, Tracked, Changing, RatesAgree, audible,
         Starting, Stream, RatesOK, PlacesOK, LegsOK, FlagsOK, Legs
<1>28. ASSUME NEW l \in Legs, LoseFraming(l) PROVE Tracked'
  BY <1>28 DEF LoseFraming, Fault, Lines, control, change, latches, recovery,
         stream, codecs, rates, seen, Tracked, Changing, RatesAgree, audible,
         Starting, Stream, RatesOK, PlacesOK, LegsOK, FlagsOK, Legs
<1>29. CASE UNCHANGED vars
  BY <1>29 DEF vars, control, change, latches, recovery, rates, stream,
         codecs, framing, budget, seen, Tracked, Changing, RatesAgree,
         audible, Starting, Stream, RatesOK, PlacesOK, LegsOK, FlagsOK, Legs
<1> QED
  BY <1>1, <1>2, <1>3, <1>4, <1>5, <1>6, <1>7, <1>8, <1>9, <1>10,
     <1>11, <1>12, <1>13, <1>14, <1>15, <1>16, <1>17, <1>18, <1>19, <1>20,
     <1>21, <1>22, <1>23, <1>24, <1>25, <1>26, <1>27, <1>28, <1>29
     DEF Next, MainLoop, Route, Console, Recover

-------------------------------------------------------------------------------
LEMMA InitInv == Init => Inv
<1> SUFFICES ASSUME Init PROVE Inv
  OBVIOUS
<1> USE RatesAssumption, BoundsAssumption DEF Init
<1>1. PlacesOK /\ CountsOK
  BY DEF PlacesOK, CountsOK, Legs
<1>6. FlagsOK
  BY DEF FlagsOK
<1>2. LegsOK /\ RatesOK
  BY DEF LegsOK, RatesOK, Legs, Lines
<1>3. Stream
  BY DEF Stream
<1>4. Tracked
  BY DEF Tracked, Changing, RatesAgree, audible
<1>5. Episode
  BY DEF Episode, Attempting, AttemptsBounded, Starting
<1> QED BY <1>1, <1>2, <1>3, <1>4, <1>5, <1>6 DEF Inv, TypeOK

\* Inv holds in every reachable state.
THEOREM Invariance == Spec => []Inv
<1>1. Inv /\ [Next]_vars => Inv'
  <2> SUFFICES ASSUME Inv, [Next]_vars PROVE Inv'
    OBVIOUS
  <2>1. Stream' /\ Tracked' /\ Episode'
    BY StreamStep, TrackedStep, EpisodeStep
  <2>2. PlacesOK' /\ FlagsOK' /\ LegsOK' /\ RatesOK' /\ CountsOK'
    BY PlacesStep, FlagsStep, LegsStep, RatesStep, CountsStep
  <2> QED BY <2>1, <2>2 DEF Inv, TypeOK
<1> QED BY InitInv, <1>1, PTL DEF Spec

\* Every variable keeps its type and an episode stays in its restart budget.
THEOREM TypeCorrect == Spec => []TypeOK
<1>1. Inv => TypeOK
  BY DEF Inv
<1> QED BY Invariance, <1>1, PTL

\* A codec is heard only while the leg that feeds it runs.
THEOREM NeverUnfed == Spec => []AudibleIsRunning
<1>1. Inv => AudibleIsRunning
  BY DEF Inv, Stream, AudibleIsRunning, audible
<1> QED BY Invariance, <1>1, PTL

\* The telemetry's verdict on the stream is what leg A's output does.
THEOREM TelemetryTrue == Spec => []QualifiedIsAudible
<1>1. Inv => QualifiedIsAudible
  BY DEF Inv, Stream, QualifiedIsAudible, audible, Legs, TypeOK, LegsOK
<1> QED BY Invariance, <1>1, PTL

\* No restart, rate change or rollback leaves an audible codec at a rate the
\* application is not told.
THEOREM RatesAlwaysAgree == Spec => []RatesAgree
<1>1. Inv => RatesAgree
  BY DEF Inv, Tracked
<1> QED BY Invariance, <1>1, PTL

\* Recovery gives up within its budget, whatever fails.
THEOREM RecoveryBounded == Spec => []AttemptsBounded
<1>1. Inv => AttemptsBounded
  BY DEF Inv, Episode
<1> QED BY Invariance, <1>1, PTL
===============================================================================
