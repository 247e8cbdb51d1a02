--------------------------- MODULE ResidentBootProofs ---------------------------
(***************************************************************************)
(* ResidentBoot proved for every LIMIT, set of images and number of        *)
(* disturbances.                                                           *)
(*                                                                         *)
(* The count in the container runs ahead of the starts: an attempt is      *)
(* counted before its launch record is written, and a record is worth one  *)
(* start.  What has to be carried through the resets is that a record the  *)
(* next pass will honour has been counted and not yet started (Counted),   *)
(* which needs that such a pass does not wipe the container (Honoured);    *)
(* that a hardware reset survives, as the forwarded cause, the software    *)
(* resets that follow it (Forwarded); and that what is about to be started *)
(* is what is installed (Current).                                         *)
(***************************************************************************)
EXTENDS ResidentBoot, TLAPS

\* The places behind pipe_init.
Behind == (BootPlaces \ {"reset", "mailbox", "init"}) \cup AppPlaces

\* The cause bits the current pass goes by.
Bits == IF pc = "reset" THEN rcon ELSE reset_cause

\* A launch record that the current pass may honour.
Live == mailbox \in Images /\ (pc \in {"reset", "mailbox"} => "SWR" \in Bits)

\* Behind a software reset the container stands and will not be wiped.
Honoured ==
  /\ pc \in Behind => ready
  /\ pc # "reset" => rcon = {}
  /\ "SWR" \in Bits => ready /\ "POR" \notin Bits
  /\ pc = "init" /\ mailbox \in Images => "SWR" \in Bits

\* The count stays ahead of the starts.
Counted ==
  /\ launches <= count
  /\ pc \in {"platform", "decide", "count", "wait", "install"}
       => launch_count = count
  /\ pc = "count" => launch_count <= LIMIT
  /\ pc = "launch_reset" \/ Live => launches < count
  /\ pc \in AppPlaces => mailbox \notin Images
  /\ pc \in {"count", "launch_reset"} => manifest \in Images

\* The places at which the cause of this pass, or that of the pass before
\* launch_reset, has been published and not been taken.
Passed == Behind \ {"cause", "publish", "app", "app_armed"}

\* A hardware reset since the application last took a cause is in the record,
\* or will be put there by this pass: a software reset finds it there.
Forwarded ==
  /\ pc \in Passed => cause \in Words /\ (hard => "SWR" \notin cause)
  /\ pc \in {"reset", "mailbox", "init", "cause"} /\ "SWR" \in Bits
       => IF cause = NoCause THEN ~hard
                             ELSE cause \in Words /\ (hard => "SWR" \notin cause)
  /\ pc = "publish" => cause = NoCause /\ (hard => "SWR" \notin reset_cause)
  /\ pc \in {"app", "app_armed"} => cause = NoCause /\ ~hard

\* A manifest that is about to be launched, and a record that may be taken,
\* are those of the installed image unless an update began.
Current ==
  ~updating =>
    /\ pc \in {"wait", "count", "launch_reset"} => manifest = installed
    /\ pc \notin {"install", "committed"}
    /\ pc \in {"reset", "mailbox", "init", "cause", "publish", "request", "launch"}
         /\ mailbox \in Images /\ "SWR" \in Bits
       => mailbox = installed

IInv == TypeOK /\ Honoured /\ Counted /\ Forwarded /\ Current

LEMMA InitOK == Init => IInv
<1> SUFFICES ASSUME Init PROVE IInv
  OBVIOUS
<1> USE BootAssumption DEF Init
<1>1. WordsOK
  <2>1. {"POR"} \in Words /\ {} \in Words
    BY Zenon DEF Words, ResetBits
  <2> QED
    BY <2>1 DEF WordsOK
<1>2. CountsOK
  BY DEF CountsOK
<1>3. FlagsOK
  BY DEF FlagsOK
<1>4. PlacesOK
  BY DEF PlacesOK, BootPlaces
<1>5. Honoured
  BY DEF Honoured, Behind, BootPlaces, AppPlaces, Bits
<1>6. Counted
  BY DEF Counted, Live, Bits, AppPlaces
<1>7. Forwarded
  BY DEF Forwarded, Passed, Behind, BootPlaces, AppPlaces, Bits
<1>8. Current
  BY DEF Current
<1> QED
  BY <1>1, <1>2, <1>3, <1>4, <1>5, <1>6, <1>7, <1>8 DEF IInv, TypeOK

LEMMA WordsStep ==
  ASSUME TypeOK, [Next]_vars
  PROVE  WordsOK'
<1> USE BootAssumption DEF TypeOK, WordsOK, Words, ResetBits,
           local, pipe, device, seen
<1>1. ASSUME ReadRcon PROVE WordsOK'
  BY <1>1 DEF ReadRcon
<1>2. ASSUME ReadMailbox PROVE WordsOK'
  BY <1>2 DEF ReadMailbox, RecordKept, reset_swr
<1>3. ASSUME PipeInit PROVE WordsOK'
  BY <1>3 DEF PipeInit, Kept
<1>4. ASSUME DropCause PROVE WordsOK'
  BY <1>4 DEF DropCause, SecondPass, reset_swr
<1>5. ASSUME PublishCause PROVE WordsOK'
  BY <1>5 DEF PublishCause
<1>6. ASSUME TakeRequest PROVE WordsOK'
  BY <1>6 DEF TakeRequest, reset_swr
<1>7. ASSUME TakeLaunch PROVE WordsOK'
  BY <1>7 DEF TakeLaunch, reset_swr, ConsumeRecord, ClearLocal
<1>8. ASSUME PlatformInit PROVE WordsOK'
  BY <1>8 DEF PlatformInit
<1>9. ASSUME Decide PROVE WordsOK'
  BY <1>9 DEF Decide, LaunchDue, loop_suspected
<1>10. ASSUME CountLaunch PROVE WordsOK'
  BY <1>10 DEF CountLaunch, CountAttempt
<1>11. ASSUME LaunchReset PROVE WordsOK'
  BY <1>11 DEF LaunchReset, SoftwareReset, Restart, ClearLocal
<1>12. ASSUME IdleRound PROVE WordsOK'
  BY <1>12 DEF IdleRound, TransferEnded, CountRound, may_give_up, loop_suspected
<1>13. ASSUME InstallFails PROVE WordsOK'
  BY <1>13 DEF InstallFails, TransferEnded, CountRound, InstallEnded, may_give_up, loop_suspected
<1>14. ASSUME InstallCommits PROVE WordsOK'
  BY <1>14 DEF InstallCommits
<1>15. ASSUME CommittedReset PROVE WordsOK'
  BY <1>15 DEF CommittedReset, SoftwareReset, Restart, ClearLocal
<1>16. ASSUME RoundFails PROVE WordsOK'
  BY <1>16 DEF RoundFails, Event, TransferEnded, CountRound, InstallEnded, may_give_up, loop_suspected
<1>17. ASSUME HeaderAccepted PROVE WordsOK'
  BY <1>17 DEF HeaderAccepted, Event
<1>18. ASSUME TakeCause PROVE WordsOK'
  BY <1>18 DEF TakeCause
<1>19. ASSUME Acknowledge PROVE WordsOK'
  BY <1>19 DEF Acknowledge
<1>20. ASSUME RequestUpdate PROVE WordsOK'
  BY <1>20 DEF RequestUpdate, Event
<1>21. ASSUME ArmedReset PROVE WordsOK'
  BY <1>21 DEF ArmedReset, SoftwareReset, Restart, ClearLocal
<1>22. ASSUME AppReset PROVE WordsOK'
  BY <1>22 DEF AppReset, SoftwareReset, Restart, ClearLocal, Event
<1>23. ASSUME EraseManifest PROVE WordsOK'
  BY <1>23 DEF EraseManifest, Event
<1>24. ASSUME Reset PROVE WordsOK'
  BY <1>24 DEF Reset, Event, CutShort, May, Kept, Restart, ClearLocal
<1>25. ASSUME PowerLoss PROVE WordsOK'
  BY <1>25 DEF PowerLoss, Event, Restart, ClearLocal
<1>26. ASSUME UNCHANGED vars PROVE WordsOK'
  BY <1>26 DEF vars
<1> QED
  BY <1>1, <1>2, <1>3, <1>4, <1>5, <1>6, <1>7, <1>8, <1>9, <1>10, <1>11, <1>12, <1>13, <1>14, <1>15, <1>16, <1>17, <1>18, <1>19, <1>20, <1>21, <1>22, <1>23, <1>24, <1>25, <1>26 DEF Next, Boot

LEMMA CountsStep ==
  ASSUME TypeOK, Counted, [Next]_vars
  PROVE  CountsOK'
<1> USE BootAssumption DEF TypeOK, CountsOK, Counted,
           local, pipe, device, seen
<1>1. ASSUME ReadRcon PROVE CountsOK'
  BY <1>1 DEF ReadRcon
<1>2. ASSUME ReadMailbox PROVE CountsOK'
  BY <1>2 DEF ReadMailbox, RecordKept, reset_swr
<1>3. ASSUME PipeInit PROVE CountsOK'
  BY <1>3 DEF PipeInit, Kept
<1>4. ASSUME DropCause PROVE CountsOK'
  BY <1>4 DEF DropCause, SecondPass, reset_swr
<1>5. ASSUME PublishCause PROVE CountsOK'
  BY <1>5 DEF PublishCause
<1>6. ASSUME TakeRequest PROVE CountsOK'
  BY <1>6 DEF TakeRequest, reset_swr
<1>7. ASSUME TakeLaunch PROVE CountsOK'
  BY <1>7 DEF TakeLaunch, reset_swr, ConsumeRecord, ClearLocal
<1>8. ASSUME PlatformInit PROVE CountsOK'
  BY <1>8 DEF PlatformInit
<1>9. ASSUME Decide PROVE CountsOK'
  BY <1>9 DEF Decide, LaunchDue, loop_suspected
<1>10. ASSUME CountLaunch PROVE CountsOK'
  BY <1>10 DEF CountLaunch, CountAttempt
<1>11. ASSUME LaunchReset PROVE CountsOK'
  BY <1>11 DEF LaunchReset, SoftwareReset, Restart, ClearLocal
<1>12. ASSUME IdleRound PROVE CountsOK'
  BY <1>12 DEF IdleRound, TransferEnded, CountRound, may_give_up, loop_suspected
<1>13. ASSUME InstallFails PROVE CountsOK'
  BY <1>13 DEF InstallFails, TransferEnded, CountRound, InstallEnded, may_give_up, loop_suspected
<1>14. ASSUME InstallCommits PROVE CountsOK'
  BY <1>14 DEF InstallCommits
<1>15. ASSUME CommittedReset PROVE CountsOK'
  BY <1>15 DEF CommittedReset, SoftwareReset, Restart, ClearLocal
<1>16. ASSUME RoundFails PROVE CountsOK'
  BY <1>16 DEF RoundFails, Event, TransferEnded, CountRound, InstallEnded, may_give_up, loop_suspected
<1>17. ASSUME HeaderAccepted PROVE CountsOK'
  BY <1>17 DEF HeaderAccepted, Event
<1>18. ASSUME TakeCause PROVE CountsOK'
  BY <1>18 DEF TakeCause
<1>19. ASSUME Acknowledge PROVE CountsOK'
  BY <1>19 DEF Acknowledge
<1>20. ASSUME RequestUpdate PROVE CountsOK'
  BY <1>20 DEF RequestUpdate, Event
<1>21. ASSUME ArmedReset PROVE CountsOK'
  BY <1>21 DEF ArmedReset, SoftwareReset, Restart, ClearLocal
<1>22. ASSUME AppReset PROVE CountsOK'
  BY <1>22 DEF AppReset, SoftwareReset, Restart, ClearLocal, Event
<1>23. ASSUME EraseManifest PROVE CountsOK'
  BY <1>23 DEF EraseManifest, Event
<1>24. ASSUME Reset PROVE CountsOK'
  BY <1>24 DEF Reset, Event, CutShort, May, Kept, Restart, ClearLocal
<1>25. ASSUME PowerLoss PROVE CountsOK'
  BY <1>25 DEF PowerLoss, Event, Restart, ClearLocal
<1>26. ASSUME UNCHANGED vars PROVE CountsOK'
  BY <1>26 DEF vars
<1> QED
  BY <1>1, <1>2, <1>3, <1>4, <1>5, <1>6, <1>7, <1>8, <1>9, <1>10, <1>11, <1>12, <1>13, <1>14, <1>15, <1>16, <1>17, <1>18, <1>19, <1>20, <1>21, <1>22, <1>23, <1>24, <1>25, <1>26 DEF Next, Boot

LEMMA FlagsStep ==
  ASSUME TypeOK, [Next]_vars
  PROVE  FlagsOK'
<1> USE BootAssumption DEF TypeOK, FlagsOK,
           local, pipe, device, seen
<1>1. ASSUME ReadRcon PROVE FlagsOK'
  BY <1>1 DEF ReadRcon
<1>2. ASSUME ReadMailbox PROVE FlagsOK'
  BY <1>2 DEF ReadMailbox, RecordKept, reset_swr
<1>3. ASSUME PipeInit PROVE FlagsOK'
  BY <1>3 DEF PipeInit, Kept
<1>4. ASSUME DropCause PROVE FlagsOK'
  BY <1>4 DEF DropCause, SecondPass, reset_swr
<1>5. ASSUME PublishCause PROVE FlagsOK'
  BY <1>5 DEF PublishCause
<1>6. ASSUME TakeRequest PROVE FlagsOK'
  BY <1>6 DEF TakeRequest, reset_swr
<1>7. ASSUME TakeLaunch PROVE FlagsOK'
  BY <1>7 DEF TakeLaunch, reset_swr, ConsumeRecord, ClearLocal
<1>8. ASSUME PlatformInit PROVE FlagsOK'
  BY <1>8 DEF PlatformInit
<1>9. ASSUME Decide PROVE FlagsOK'
  BY <1>9 DEF Decide, LaunchDue, loop_suspected
<1>10. ASSUME CountLaunch PROVE FlagsOK'
  BY <1>10 DEF CountLaunch, CountAttempt
<1>11. ASSUME LaunchReset PROVE FlagsOK'
  BY <1>11 DEF LaunchReset, SoftwareReset, Restart, ClearLocal
<1>12. ASSUME IdleRound PROVE FlagsOK'
  BY <1>12 DEF IdleRound, TransferEnded, CountRound, may_give_up, loop_suspected
<1>13. ASSUME InstallFails PROVE FlagsOK'
  BY <1>13 DEF InstallFails, TransferEnded, CountRound, InstallEnded, may_give_up, loop_suspected
<1>14. ASSUME InstallCommits PROVE FlagsOK'
  BY <1>14 DEF InstallCommits
<1>15. ASSUME CommittedReset PROVE FlagsOK'
  BY <1>15 DEF CommittedReset, SoftwareReset, Restart, ClearLocal
<1>16. ASSUME RoundFails PROVE FlagsOK'
  BY <1>16 DEF RoundFails, Event, TransferEnded, CountRound, InstallEnded, may_give_up, loop_suspected
<1>17. ASSUME HeaderAccepted PROVE FlagsOK'
  BY <1>17 DEF HeaderAccepted, Event
<1>18. ASSUME TakeCause PROVE FlagsOK'
  BY <1>18 DEF TakeCause
<1>19. ASSUME Acknowledge PROVE FlagsOK'
  BY <1>19 DEF Acknowledge
<1>20. ASSUME RequestUpdate PROVE FlagsOK'
  BY <1>20 DEF RequestUpdate, Event
<1>21. ASSUME ArmedReset PROVE FlagsOK'
  BY <1>21 DEF ArmedReset, SoftwareReset, Restart, ClearLocal
<1>22. ASSUME AppReset PROVE FlagsOK'
  BY <1>22 DEF AppReset, SoftwareReset, Restart, ClearLocal, Event
<1>23. ASSUME EraseManifest PROVE FlagsOK'
  BY <1>23 DEF EraseManifest, Event
<1>24. ASSUME Reset PROVE FlagsOK'
  BY <1>24 DEF Reset, Event, CutShort, May, Kept, Restart, ClearLocal
<1>25. ASSUME PowerLoss PROVE FlagsOK'
  BY <1>25 DEF PowerLoss, Event, Restart, ClearLocal
<1>26. ASSUME UNCHANGED vars PROVE FlagsOK'
  BY <1>26 DEF vars
<1> QED
  BY <1>1, <1>2, <1>3, <1>4, <1>5, <1>6, <1>7, <1>8, <1>9, <1>10, <1>11, <1>12, <1>13, <1>14, <1>15, <1>16, <1>17, <1>18, <1>19, <1>20, <1>21, <1>22, <1>23, <1>24, <1>25, <1>26 DEF Next, Boot

LEMMA PlacesStep ==
  ASSUME TypeOK, Counted, [Next]_vars
  PROVE  PlacesOK'
<1> USE BootAssumption DEF TypeOK, PlacesOK, Counted, BootPlaces, AppPlaces,
           local, pipe, device, seen
<1>1. ASSUME ReadRcon PROVE PlacesOK'
  BY <1>1 DEF ReadRcon
<1>2. ASSUME ReadMailbox PROVE PlacesOK'
  BY <1>2 DEF ReadMailbox, RecordKept, reset_swr
<1>3. ASSUME PipeInit PROVE PlacesOK'
  BY <1>3 DEF PipeInit, Kept
<1>4. ASSUME DropCause PROVE PlacesOK'
  BY <1>4 DEF DropCause, SecondPass, reset_swr
<1>5. ASSUME PublishCause PROVE PlacesOK'
  BY <1>5 DEF PublishCause
<1>6. ASSUME TakeRequest PROVE PlacesOK'
  BY <1>6 DEF TakeRequest, reset_swr
<1>7. ASSUME TakeLaunch PROVE PlacesOK'
  BY <1>7 DEF TakeLaunch, reset_swr, ConsumeRecord, ClearLocal
<1>8. ASSUME PlatformInit PROVE PlacesOK'
  BY <1>8 DEF PlatformInit
<1>9. ASSUME Decide PROVE PlacesOK'
  BY <1>9 DEF Decide, LaunchDue, loop_suspected
<1>10. ASSUME CountLaunch PROVE PlacesOK'
  BY <1>10 DEF CountLaunch, CountAttempt
<1>11. ASSUME LaunchReset PROVE PlacesOK'
  BY <1>11 DEF LaunchReset, SoftwareReset, Restart, ClearLocal
<1>12. ASSUME IdleRound PROVE PlacesOK'
  BY <1>12 DEF IdleRound, TransferEnded, CountRound, may_give_up, loop_suspected
<1>13. ASSUME InstallFails PROVE PlacesOK'
  BY <1>13 DEF InstallFails, TransferEnded, CountRound, InstallEnded, may_give_up, loop_suspected
<1>14. ASSUME InstallCommits PROVE PlacesOK'
  BY <1>14 DEF InstallCommits
<1>15. ASSUME CommittedReset PROVE PlacesOK'
  BY <1>15 DEF CommittedReset, SoftwareReset, Restart, ClearLocal
<1>16. ASSUME RoundFails PROVE PlacesOK'
  BY <1>16 DEF RoundFails, Event, TransferEnded, CountRound, InstallEnded, may_give_up, loop_suspected
<1>17. ASSUME HeaderAccepted PROVE PlacesOK'
  BY <1>17 DEF HeaderAccepted, Event
<1>18. ASSUME TakeCause PROVE PlacesOK'
  BY <1>18 DEF TakeCause
<1>19. ASSUME Acknowledge PROVE PlacesOK'
  BY <1>19 DEF Acknowledge
<1>20. ASSUME RequestUpdate PROVE PlacesOK'
  BY <1>20 DEF RequestUpdate, Event
<1>21. ASSUME ArmedReset PROVE PlacesOK'
  BY <1>21 DEF ArmedReset, SoftwareReset, Restart, ClearLocal
<1>22. ASSUME AppReset PROVE PlacesOK'
  BY <1>22 DEF AppReset, SoftwareReset, Restart, ClearLocal, Event
<1>23. ASSUME EraseManifest PROVE PlacesOK'
  BY <1>23 DEF EraseManifest, Event
<1>24. ASSUME Reset PROVE PlacesOK'
  BY <1>24 DEF Reset, Event, CutShort, May, Kept, Restart, ClearLocal
<1>25. ASSUME PowerLoss PROVE PlacesOK'
  BY <1>25 DEF PowerLoss, Event, Restart, ClearLocal
<1>26. ASSUME UNCHANGED vars PROVE PlacesOK'
  BY <1>26 DEF vars
<1> QED
  BY <1>1, <1>2, <1>3, <1>4, <1>5, <1>6, <1>7, <1>8, <1>9, <1>10, <1>11, <1>12, <1>13, <1>14, <1>15, <1>16, <1>17, <1>18, <1>19, <1>20, <1>21, <1>22, <1>23, <1>24, <1>25, <1>26 DEF Next, Boot

LEMMA HonouredStep ==
  ASSUME TypeOK, Honoured, [Next]_vars
  PROVE  Honoured'
<1> USE BootAssumption DEF TypeOK, WordsOK, CountsOK, FlagsOK, PlacesOK, Honoured, Bits, Behind, BootPlaces, AppPlaces, Words, ResetBits,
           local, pipe, device, seen
<1>1. ASSUME ReadRcon PROVE Honoured'
  BY <1>1 DEF ReadRcon
<1>2. ASSUME ReadMailbox PROVE Honoured'
  BY <1>2 DEF ReadMailbox, RecordKept, reset_swr
<1>3. ASSUME PipeInit PROVE Honoured'
  BY <1>3 DEF PipeInit, Kept
<1>4. ASSUME DropCause PROVE Honoured'
  BY <1>4 DEF DropCause, SecondPass, reset_swr
<1>5. ASSUME PublishCause PROVE Honoured'
  BY <1>5 DEF PublishCause
<1>6. ASSUME TakeRequest PROVE Honoured'
  BY <1>6 DEF TakeRequest, reset_swr
<1>7. ASSUME TakeLaunch PROVE Honoured'
  BY <1>7 DEF TakeLaunch, reset_swr, ConsumeRecord, ClearLocal
<1>8. ASSUME PlatformInit PROVE Honoured'
  BY <1>8 DEF PlatformInit
<1>9. ASSUME Decide PROVE Honoured'
  BY <1>9 DEF Decide, LaunchDue, loop_suspected
<1>10. ASSUME CountLaunch PROVE Honoured'
  BY <1>10 DEF CountLaunch, CountAttempt
<1>11. ASSUME LaunchReset PROVE Honoured'
  BY <1>11 DEF LaunchReset, SoftwareReset, Restart, ClearLocal
<1>12. ASSUME IdleRound PROVE Honoured'
  BY <1>12 DEF IdleRound, TransferEnded, CountRound, may_give_up, loop_suspected
<1>13. ASSUME InstallFails PROVE Honoured'
  BY <1>13 DEF InstallFails, TransferEnded, CountRound, InstallEnded, may_give_up, loop_suspected
<1>14. ASSUME InstallCommits PROVE Honoured'
  BY <1>14 DEF InstallCommits
<1>15. ASSUME CommittedReset PROVE Honoured'
  BY <1>15 DEF CommittedReset, SoftwareReset, Restart, ClearLocal
<1>16. ASSUME RoundFails PROVE Honoured'
  BY <1>16 DEF RoundFails, Event, TransferEnded, CountRound, InstallEnded, may_give_up, loop_suspected
<1>17. ASSUME HeaderAccepted PROVE Honoured'
  BY <1>17 DEF HeaderAccepted, Event
<1>18. ASSUME TakeCause PROVE Honoured'
  BY <1>18 DEF TakeCause
<1>19. ASSUME Acknowledge PROVE Honoured'
  BY <1>19 DEF Acknowledge
<1>20. ASSUME RequestUpdate PROVE Honoured'
  BY <1>20 DEF RequestUpdate, Event
<1>21. ASSUME ArmedReset PROVE Honoured'
  BY <1>21 DEF ArmedReset, SoftwareReset, Restart, ClearLocal
<1>22. ASSUME AppReset PROVE Honoured'
  BY <1>22 DEF AppReset, SoftwareReset, Restart, ClearLocal, Event
<1>23. ASSUME EraseManifest PROVE Honoured'
  BY <1>23 DEF EraseManifest, Event
<1>24. ASSUME Reset PROVE Honoured'
  BY <1>24 DEF Reset, Event, CutShort, May, Kept, Restart, ClearLocal
<1>25. ASSUME PowerLoss PROVE Honoured'
  BY <1>25 DEF PowerLoss, Event, Restart, ClearLocal
<1>26. ASSUME UNCHANGED vars PROVE Honoured'
  BY <1>26 DEF vars
<1> QED
  BY <1>1, <1>2, <1>3, <1>4, <1>5, <1>6, <1>7, <1>8, <1>9, <1>10, <1>11, <1>12, <1>13, <1>14, <1>15, <1>16, <1>17, <1>18, <1>19, <1>20, <1>21, <1>22, <1>23, <1>24, <1>25, <1>26 DEF Next, Boot

LEMMA ForwardedStep ==
  ASSUME TypeOK, Honoured, Forwarded, [Next]_vars
  PROVE  Forwarded'
<1> USE BootAssumption DEF TypeOK, WordsOK, PlacesOK, Honoured, Forwarded,
           Passed, Bits, Behind, BootPlaces, AppPlaces, Words, ResetBits,
           local, pipe, device, seen
<1>1. ASSUME ReadRcon PROVE Forwarded'
  BY <1>1 DEF ReadRcon
<1>2. ASSUME ReadMailbox PROVE Forwarded'
  BY <1>2 DEF ReadMailbox, RecordKept, reset_swr
<1>3. ASSUME PipeInit PROVE Forwarded'
  BY <1>3 DEF PipeInit, Kept
<1>4. ASSUME DropCause PROVE Forwarded'
  BY <1>4 DEF DropCause, SecondPass, reset_swr
<1>5. ASSUME PublishCause PROVE Forwarded'
  BY <1>5 DEF PublishCause
<1>6. ASSUME TakeRequest PROVE Forwarded'
  BY <1>6 DEF TakeRequest, reset_swr
<1>7. ASSUME TakeLaunch PROVE Forwarded'
  BY <1>7 DEF TakeLaunch, reset_swr, ConsumeRecord, ClearLocal
<1>8. ASSUME PlatformInit PROVE Forwarded'
  BY <1>8 DEF PlatformInit
<1>9. ASSUME Decide PROVE Forwarded'
  BY <1>9 DEF Decide, LaunchDue, loop_suspected
<1>10. ASSUME CountLaunch PROVE Forwarded'
  BY <1>10 DEF CountLaunch, CountAttempt
<1>11. ASSUME LaunchReset PROVE Forwarded'
  BY <1>11 DEF LaunchReset, SoftwareReset, Restart, ClearLocal
<1>12. ASSUME IdleRound PROVE Forwarded'
  BY <1>12 DEF IdleRound, TransferEnded, CountRound, may_give_up, loop_suspected
<1>13. ASSUME InstallFails PROVE Forwarded'
  BY <1>13 DEF InstallFails, TransferEnded, CountRound, InstallEnded, may_give_up, loop_suspected
<1>14. ASSUME InstallCommits PROVE Forwarded'
  BY <1>14 DEF InstallCommits
<1>15. ASSUME CommittedReset PROVE Forwarded'
  BY <1>15 DEF CommittedReset, SoftwareReset, Restart, ClearLocal
<1>16. ASSUME RoundFails PROVE Forwarded'
  BY <1>16 DEF RoundFails, Event, TransferEnded, CountRound, InstallEnded, may_give_up, loop_suspected
<1>17. ASSUME HeaderAccepted PROVE Forwarded'
  BY <1>17 DEF HeaderAccepted, Event
<1>18. ASSUME TakeCause PROVE Forwarded'
  BY <1>18 DEF TakeCause
<1>19. ASSUME Acknowledge PROVE Forwarded'
  BY <1>19 DEF Acknowledge
<1>20. ASSUME RequestUpdate PROVE Forwarded'
  BY <1>20 DEF RequestUpdate, Event
<1>21. ASSUME ArmedReset PROVE Forwarded'
  BY <1>21 DEF ArmedReset, SoftwareReset, Restart, ClearLocal
<1>22. ASSUME AppReset PROVE Forwarded'
  BY <1>22 DEF AppReset, SoftwareReset, Restart, ClearLocal, Event
<1>23. ASSUME EraseManifest PROVE Forwarded'
  BY <1>23 DEF EraseManifest, Event
<1>24. ASSUME Reset PROVE Forwarded'
  BY <1>24 DEF Reset, Event, CutShort, May, Kept, Restart, ClearLocal
<1>25. ASSUME PowerLoss PROVE Forwarded'
  BY <1>25 DEF PowerLoss, Event, Restart, ClearLocal
<1>26. ASSUME UNCHANGED vars PROVE Forwarded'
  BY <1>26 DEF vars
<1> QED
  BY <1>1, <1>2, <1>3, <1>4, <1>5, <1>6, <1>7, <1>8, <1>9, <1>10, <1>11, <1>12, <1>13, <1>14, <1>15, <1>16, <1>17, <1>18, <1>19, <1>20, <1>21, <1>22, <1>23, <1>24, <1>25, <1>26 DEF Next, Boot

LEMMA CurrentStep ==
  ASSUME TypeOK, Honoured, Counted, Current, [Next]_vars
  PROVE  Current'
<1> USE BootAssumption DEF TypeOK, PlacesOK, Honoured, Counted, Current,
           Bits, Behind, BootPlaces, AppPlaces, local, pipe, device, seen
<1>1. ASSUME ReadRcon PROVE Current'
  BY <1>1 DEF ReadRcon
<1>2. ASSUME ReadMailbox PROVE Current'
  BY <1>2 DEF ReadMailbox, RecordKept, reset_swr
<1>3. ASSUME PipeInit PROVE Current'
  BY <1>3 DEF PipeInit, Kept
<1>4. ASSUME DropCause PROVE Current'
  BY <1>4 DEF DropCause, SecondPass, reset_swr
<1>5. ASSUME PublishCause PROVE Current'
  BY <1>5 DEF PublishCause
<1>6. ASSUME TakeRequest PROVE Current'
  BY <1>6 DEF TakeRequest, reset_swr
<1>7. ASSUME TakeLaunch PROVE Current'
  BY <1>7 DEF TakeLaunch, reset_swr, ConsumeRecord, ClearLocal
<1>8. ASSUME PlatformInit PROVE Current'
  BY <1>8 DEF PlatformInit
<1>9. ASSUME Decide PROVE Current'
  BY <1>9 DEF Decide, LaunchDue, loop_suspected
<1>10. ASSUME CountLaunch PROVE Current'
  BY <1>10 DEF CountLaunch, CountAttempt
<1>11. ASSUME LaunchReset PROVE Current'
  BY <1>11 DEF LaunchReset, SoftwareReset, Restart, ClearLocal
<1>12. ASSUME IdleRound PROVE Current'
  BY <1>12 DEF IdleRound, TransferEnded, CountRound, may_give_up, loop_suspected
<1>13. ASSUME InstallFails PROVE Current'
  BY <1>13 DEF InstallFails, TransferEnded, CountRound, InstallEnded, may_give_up, loop_suspected
<1>14. ASSUME InstallCommits PROVE Current'
  BY <1>14 DEF InstallCommits
<1>15. ASSUME CommittedReset PROVE Current'
  BY <1>15 DEF CommittedReset, SoftwareReset, Restart, ClearLocal
<1>16. ASSUME RoundFails PROVE Current'
  BY <1>16 DEF RoundFails, Event, TransferEnded, CountRound, InstallEnded, may_give_up, loop_suspected
<1>17. ASSUME HeaderAccepted PROVE Current'
  BY <1>17 DEF HeaderAccepted, Event
<1>18. ASSUME TakeCause PROVE Current'
  BY <1>18 DEF TakeCause
<1>19. ASSUME Acknowledge PROVE Current'
  BY <1>19 DEF Acknowledge
<1>20. ASSUME RequestUpdate PROVE Current'
  BY <1>20 DEF RequestUpdate, Event
<1>21. ASSUME ArmedReset PROVE Current'
  BY <1>21 DEF ArmedReset, SoftwareReset, Restart, ClearLocal
<1>22. ASSUME AppReset PROVE Current'
  BY <1>22 DEF AppReset, SoftwareReset, Restart, ClearLocal, Event
<1>23. ASSUME EraseManifest PROVE Current'
  BY <1>23 DEF EraseManifest, Event
<1>24. ASSUME Reset PROVE Current'
  BY <1>24 DEF Reset, Event, CutShort, May, Kept, Restart, ClearLocal
<1>25. ASSUME PowerLoss PROVE Current'
  BY <1>25 DEF PowerLoss, Event, Restart, ClearLocal
<1>26. ASSUME UNCHANGED vars PROVE Current'
  BY <1>26 DEF vars
<1> QED
  BY <1>1, <1>2, <1>3, <1>4, <1>5, <1>6, <1>7, <1>8, <1>9, <1>10, <1>11, <1>12, <1>13, <1>14, <1>15, <1>16, <1>17, <1>18, <1>19, <1>20, <1>21, <1>22, <1>23, <1>24, <1>25, <1>26 DEF Next, Boot

LEMMA CountedStep ==
  ASSUME TypeOK, Honoured, Counted, [Next]_vars
  PROVE  Counted'
<1> USE BootAssumption DEF TypeOK, WordsOK, CountsOK, FlagsOK, PlacesOK, Honoured, Counted, Live, Bits, AppPlaces, Behind, BootPlaces,
           local, pipe, device, seen
<1>1. ASSUME ReadRcon PROVE Counted'
  BY <1>1 DEF ReadRcon
<1>2. ASSUME ReadMailbox PROVE Counted'
  BY <1>2 DEF ReadMailbox, RecordKept, reset_swr
<1>3. ASSUME PipeInit PROVE Counted'
  BY <1>3 DEF PipeInit, Kept
<1>4. ASSUME DropCause PROVE Counted'
  BY <1>4 DEF DropCause, SecondPass, reset_swr
<1>5. ASSUME PublishCause PROVE Counted'
  BY <1>5 DEF PublishCause
<1>6. ASSUME TakeRequest PROVE Counted'
  BY <1>6 DEF TakeRequest, reset_swr
<1>7. ASSUME TakeLaunch PROVE Counted'
  BY <1>7 DEF TakeLaunch, reset_swr, ConsumeRecord, ClearLocal
<1>8. ASSUME PlatformInit PROVE Counted'
  BY <1>8 DEF PlatformInit
<1>9. ASSUME Decide PROVE Counted'
  BY <1>9 DEF Decide, LaunchDue, loop_suspected
<1>10. ASSUME CountLaunch PROVE Counted'
  BY <1>10 DEF CountLaunch, CountAttempt
<1>11. ASSUME LaunchReset PROVE Counted'
  BY <1>11 DEF LaunchReset, SoftwareReset, Restart, ClearLocal
<1>12. ASSUME IdleRound PROVE Counted'
  BY <1>12 DEF IdleRound, TransferEnded, CountRound, may_give_up, loop_suspected
<1>13. ASSUME InstallFails PROVE Counted'
  BY <1>13 DEF InstallFails, TransferEnded, CountRound, InstallEnded, may_give_up, loop_suspected
<1>14. ASSUME InstallCommits PROVE Counted'
  BY <1>14 DEF InstallCommits
<1>15. ASSUME CommittedReset PROVE Counted'
  BY <1>15 DEF CommittedReset, SoftwareReset, Restart, ClearLocal
<1>16. ASSUME RoundFails PROVE Counted'
  BY <1>16 DEF RoundFails, Event, TransferEnded, CountRound, InstallEnded, may_give_up, loop_suspected
<1>17. ASSUME HeaderAccepted PROVE Counted'
  BY <1>17 DEF HeaderAccepted, Event
<1>18. ASSUME TakeCause PROVE Counted'
  BY <1>18 DEF TakeCause
<1>19. ASSUME Acknowledge PROVE Counted'
  BY <1>19 DEF Acknowledge
<1>20. ASSUME RequestUpdate PROVE Counted'
  BY <1>20 DEF RequestUpdate, Event
<1>21. ASSUME ArmedReset PROVE Counted'
  BY <1>21 DEF ArmedReset, SoftwareReset, Restart, ClearLocal
<1>22. ASSUME AppReset PROVE Counted'
  BY <1>22 DEF AppReset, SoftwareReset, Restart, ClearLocal, Event
<1>23. ASSUME EraseManifest PROVE Counted'
  BY <1>23 DEF EraseManifest, Event
<1>24. ASSUME Reset PROVE Counted'
  <2> USE <1>24 DEF Reset, Event, CutShort, May, Kept, Restart, ClearLocal
  <2>1. pc' = "reset" /\ launches' <= count'
    OBVIOUS
  <2>2. ASSUME Live' PROVE launches' < count'
    <3>1. pc = "reset" /\ "SWR" \in rcon
      BY <2>2
    <3>2. ready /\ "POR" \notin rcon
      BY <3>1
    <3>3. mailbox' = mailbox /\ count' = count /\ launches' = launches
      BY <3>1, <3>2
    <3> QED
      BY <3>1, <3>3, <2>2
  <2> QED
    BY <2>1, <2>2
<1>25. ASSUME PowerLoss PROVE Counted'
  BY <1>25 DEF PowerLoss, Event, Restart, ClearLocal
<1>26. ASSUME UNCHANGED vars PROVE Counted'
  BY <1>26 DEF vars
<1> QED
  BY <1>1, <1>2, <1>3, <1>4, <1>5, <1>6, <1>7, <1>8, <1>9, <1>10, <1>11, <1>12, <1>13, <1>14, <1>15, <1>16, <1>17, <1>18, <1>19, <1>20, <1>21, <1>22, <1>23, <1>24, <1>25, <1>26 DEF Next, Boot

(***************************************************************************)
(* The theorems.                                                           *)
(***************************************************************************)

THEOREM Invariance == Spec => []IInv
<1>1. ASSUME IInv, [Next]_vars PROVE IInv'
  BY <1>1, WordsStep, CountsStep, FlagsStep, PlacesStep, HonouredStep,
     CountedStep, ForwardedStep, CurrentStep DEF IInv, TypeOK
<1> QED
  BY InitOK, <1>1, PTL DEF Spec

\* Every reachable state is well typed.
THEOREM TypeCorrect == Spec => []TypeOK
<1>1. IInv => TypeOK
  BY DEF IInv
<1> QED
  BY Invariance, <1>1, PTL

\* The application is started at most LIMIT + 1 times in a row without
\* acknowledging, whatever resets and losses of power come in between.
THEOREM CrashLoopBounded == Spec => []LoopBounded
<1>1. IInv => LoopBounded
  BY BootAssumption DEF IInv, TypeOK, CountsOK, Counted, LoopBounded
<1> QED
  BY Invariance, <1>1, PTL

\* The application always finds a forwarded cause, and never that of the
\* bootloader's own reset in place of a hardware reset before it.
THEOREM CauseAlwaysForwarded == Spec => []CauseForwarded
<1>1. IInv => CauseForwarded
  BY DEF IInv, Forwarded, CauseForwarded, Passed, Behind, AppPlaces
<1> QED
  BY Invariance, <1>1, PTL

\* What is jumped to is the installed image, unless an update began since the
\* manifest was looked at.
THEOREM AlwaysRunsInstalled == Spec => RunsInstalled
<1>1. ASSUME IInv, [Next]_vars, pc = "launch", pc' = "app_start"
      PROVE  running' = installed \/ updating
  <2>1. TakeLaunch
    BY <1>1 DEF Next, Boot, vars, ReadRcon, ReadMailbox, PipeInit, DropCause,
       PublishCause, TakeRequest, PlatformInit, Decide, CountLaunch, LaunchReset,
       IdleRound, InstallFails, InstallCommits, CommittedReset, RoundFails,
       HeaderAccepted, TakeCause, Acknowledge, RequestUpdate, ArmedReset, AppReset,
       EraseManifest, Reset, PowerLoss, Restart
  <2> QED
    BY <1>1, <2>1 DEF TakeLaunch, reset_swr, IInv, Current, Bits
<1>2. ASSUME IInv, [Next]_vars
      PROVE  [pc = "launch" /\ pc' = "app_start"
                => running' = installed \/ updating]_vars
  BY <1>1, <1>2
<1> QED
  BY <1>2, Invariance, PTL DEF Spec, RunsInstalled

\* The boot passes, the application and the resets use the container as
\* PipeRecords describes it: every step is a step of the records or leaves them
\* alone.
THEOREM ImplementsRecords == Spec => UsesRecords
<1>1. Init => Records!Init
  BY DEF Init, Records!Init
<1>2. ASSUME IInv, [Next]_vars PROVE [Records!Next]_(Records!vars)
  <2> USE <1>2 DEF IInv, TypeOK, WordsOK, CountsOK, FlagsOK, Honoured, Behind,
            BootPlaces, AppPlaces, pipe, Records!vars
  <2>1. ASSUME PipeInit PROVE Records!Vanish \/ Records!Establish
                                \/ UNCHANGED Records!vars
    BY <2>1 DEF PipeInit, Kept, Records!Vanish, Records!Establish
  <2>2. ASSUME DropCause PROVE Records!Vanish
    BY <2>2 DEF DropCause, Records!Vanish
  <2>3. ASSUME PublishCause PROVE Records!PublishCause
    BY <2>3 DEF PublishCause, Forwarded, Records!PublishCause
  <2>4. ASSUME TakeRequest PROVE Records!Vanish
    BY <2>4 DEF TakeRequest, Records!Vanish
  <2>5. ASSUME CountLaunch PROVE Records!SetCount
    BY <2>5, BootAssumption DEF CountLaunch, CountAttempt, Records!SetCount
  <2>6. ASSUME TakeCause PROVE Records!Vanish
    BY <2>6 DEF TakeCause, Records!Vanish
  <2>7. ASSUME Acknowledge PROVE Records!Vanish
    BY <2>7 DEF Acknowledge, Records!Vanish
  <2>8. ASSUME RequestUpdate PROVE Records!SetRequest
    BY <2>8 DEF RequestUpdate, Records!SetRequest
  <2>9. ASSUME Reset PROVE Records!Vanish
    BY <2>9 DEF Reset, CutShort, May, Records!Vanish
  <2>10. ASSUME PowerLoss PROVE Records!Vanish
    BY <2>10 DEF PowerLoss, Records!Vanish
  <2>11. ASSUME \/ ReadRcon \/ ReadMailbox \/ TakeLaunch \/ PlatformInit
                \/ Decide \/ LaunchReset \/ IdleRound \/ InstallFails
                \/ InstallCommits \/ CommittedReset \/ RoundFails
                \/ HeaderAccepted \/ ArmedReset \/ AppReset \/ EraseManifest
                \/ UNCHANGED vars
         PROVE  UNCHANGED Records!vars
    BY <2>11 DEF ReadRcon, ReadMailbox, TakeLaunch, PlatformInit, Decide,
       LaunchReset, IdleRound, InstallFails, InstallCommits, CommittedReset,
       RoundFails, HeaderAccepted, ArmedReset, AppReset, EraseManifest, vars
  <2> QED
    BY <2>1, <2>2, <2>3, <2>4, <2>5, <2>6, <2>7, <2>8, <2>9, <2>10, <2>11
    DEF Next, Boot, Records!Next
<1> QED
  BY <1>1, <1>2, Invariance, PTL DEF Spec, UsesRecords, Records!Spec
=============================================================================
