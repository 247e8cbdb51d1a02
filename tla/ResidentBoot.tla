----------------------------- MODULE ResidentBoot -----------------------------
(***************************************************************************)
(* The resident bootloader's main (src/boot/resident_de_boot_main.c), the  *)
(* launch mailbox, and what the application does to them, across resets.   *)
(* A start of the application takes two passes of the bootloader: the      *)
(* first validates Flash, leaves a launch record in RAM and resets itself; *)
(* the second takes the record and jumps.                                  *)
(*                                                                         *)
(* The container's records are whole, as ResidentPipe shows them to be;    *)
(* installing is one step per outcome, as ResidentInstall shows it to be.  *)
(***************************************************************************)
EXTENDS Integers

CONSTANTS Images,       \* application images
          Offered,      \* the images a host may send
          LIMIT,        \* RESIDENT_BOOT_PIPE_LAUNCH_LIMIT (10)
          IDLE_ROUNDS,  \* RESIDENT_DE_ARM_IDLE_ROUNDS (4)
          MaxEvents,    \* bound on resets, transfers and operator commands
          None, NoCause, Garbled

\* BOR counts as POR, and every other reset as EXTR.  A power-on clears the
\* other bits; they stay set until the bootloader clears them.
ResetBits == {"POR", "EXTR", "SWR"}
Words == SUBSET ResetBits

ASSUME BootAssumption ==
  /\ Offered \subseteq Images
  /\ None \notin Images /\ "empty" \notin Images /\ "probe" \notin Images
  /\ \A w \in Words : w # NoCause
  /\ LIMIT \in Nat /\ IDLE_ROUNDS \in Nat \ {0} /\ MaxEvents \in Nat

VARIABLES
  rcon,      \* the cause bits of RCON
  pc,        \* where the running image is
  reset_cause, force_recovery, update_requested, launch_count, \* of this pass
  manifest,  \* what installed_manifest returned, None for FALSE
  idle_rounds,
  installed, \* the image a valid manifest in Flash describes
  mailbox,   \* the launch mailbox: an image, "probe" or "empty"
  running,   \* the image that was jumped to
  ready, request, count, cause, \* the container
  events,    \* resets, transfers and commands so far (bounded by MaxEvents)
  hard,      \* a reset other than SWR was found since the application took a cause
  updating,  \* a header was accepted since the manifest was last looked at
  launches   \* starts of the application since the count was last zero

local  == <<reset_cause, force_recovery, update_requested, launch_count,
            manifest, idle_rounds>>
pipe   == <<ready, request, count, cause>>
seen   == <<hard, updating, launches>>
device == <<rcon, installed, mailbox, running>>
vars   == <<pc, local, device, pipe, events, seen>>

reset_swr == "SWR" \in reset_cause
loop_suspected == launch_count > LIMIT
may_give_up == manifest # None /\ ~loop_suspected

BootPlaces == {"reset", "mailbox", "init", "cause", "publish", "request", "launch",
               "platform", "decide", "count", "launch_reset", "wait",
               "install", "committed", "hung"}
AppPlaces == {"app_start", "app", "app_armed"}

(***************************************************************************)
(* Resets.                                                                 *)
(***************************************************************************)
Event == events < MaxEvents /\ events' = events + 1

ClearLocal ==
  /\ reset_cause' = {} /\ force_recovery' = FALSE
  /\ update_requested' = FALSE /\ launch_count' = 0
  /\ manifest' = None /\ idle_rounds' = 0

\* The reset itself; its publisher says what becomes of the records.
Restart(bits) == /\ rcon' = bits /\ pc' = "reset"
                 /\ ClearLocal /\ running' = None

SoftwareReset == Restart(rcon \cup {"SWR"})

Init ==
  /\ rcon = {"POR"} /\ pc = "reset"
  /\ reset_cause = {} /\ force_recovery = FALSE
  /\ update_requested = FALSE /\ launch_count = 0
  /\ manifest = None /\ idle_rounds = 0
  /\ installed \in Images \cup {None} /\ mailbox = "empty"
  /\ running = None
  /\ ready = FALSE /\ request = FALSE /\ count = 0 /\ cause = NoCause
  /\ events = 0
  /\ hard = FALSE /\ updating = FALSE
  /\ launches = 0

(***************************************************************************)
(* A pass of the bootloader.                                               *)
(***************************************************************************)

\* The cause is read, and cleared well before it is used.
ReadRcon ==
  /\ pc = "reset"
  /\ reset_cause' = rcon /\ rcon' = {}
  /\ hard' = (hard \/ "SWR" \notin rcon)
  /\ pc' = "mailbox"
  /\ UNCHANGED <<force_recovery, update_requested, launch_count, manifest,
                 idle_rounds, installed, mailbox, running, pipe, events,
                 updating, launches>>

\* A record that no software reset brought is invalidated; a probe is taken.
RecordKept == IF ~reset_swr \/ mailbox = "probe" THEN "empty" ELSE mailbox

\* The recovery button counts behind hardware resets only.
ReadMailbox ==
  /\ pc = "mailbox"
  /\ mailbox' = RecordKept
  /\ \E button \in BOOLEAN :
       force_recovery' = (button /\ reset_cause \cap {"POR", "EXTR"} # {})
  /\ pc' = "init"
  /\ UNCHANGED <<rcon, reset_cause, update_requested, launch_count, manifest,
                 idle_rounds, installed, running, pipe, events, seen>>

\* Mutant: the version is not looked at.
KeptUnlessCold == "POR" \notin reset_cause
\* pipe_init(reset_por || reset_bor).
Kept == "POR" \notin reset_cause /\ ready
PipeInit ==
  /\ pc = "init"
  /\ IF Kept THEN UNCHANGED <<pipe, launches>>
     ELSE /\ ready' = TRUE /\ request' = FALSE /\ count' = 0
          /\ cause' = NoCause /\ launches' = 0
  /\ pc' = "cause"
  /\ UNCHANGED <<local, device, events, hard, updating>>

\* Mutant: both passes publish.
SecondPassNever == FALSE
\* The pass behind launch_reset leaves the first pass's cause alone.
SecondPass == reset_swr /\ cause # NoCause
DropCause ==
  /\ pc = "cause"
  /\ IF SecondPass THEN pc' = "request" /\ UNCHANGED cause
                   ELSE pc' = "publish" /\ cause' = NoCause
  /\ UNCHANGED <<local, device, ready, request, count, events, seen>>

PublishCause ==
  /\ pc = "publish"
  /\ cause' = reset_cause
  /\ pc' = "request"
  /\ UNCHANGED <<local, device, ready, request, count, events, seen>>

\* The request is looked at behind a software reset only, and taken.
TakeRequest ==
  /\ pc = "request"
  /\ update_requested' = (reset_swr /\ request)
  /\ request' = (request /\ ~reset_swr)
  /\ pc' = "launch"
  /\ UNCHANGED <<reset_cause, force_recovery, launch_count, manifest,
                 idle_rounds, device, ready, count, cause, events, seen>>

\* Mutant: the launch record is not consumed.
KeepRecord == UNCHANGED mailbox
ConsumeRecord == mailbox' = "empty"

\* The second pass takes the launch record and jumps, looking at nothing else.
TakeLaunch ==
  /\ pc = "launch"
  /\ IF ~force_recovery /\ reset_swr /\ mailbox \in Images
     THEN /\ pc' = "app_start" /\ running' = mailbox /\ ConsumeRecord
          /\ launches' = launches + 1
          /\ ClearLocal
     ELSE /\ pc' = "platform" /\ launch_count' = count
          /\ UNCHANGED <<reset_cause, force_recovery, update_requested,
                         manifest, idle_rounds, running, mailbox,
                         launches>>
  /\ UNCHANGED <<rcon, installed, pipe, events, hard, updating>>

\* Clock, UART or timer may fail: the bootloader stops here.
PlatformInit ==
  /\ pc = "platform"
  /\ pc' \in {"decide", "hung"}
  /\ UNCHANGED <<local, device, pipe, events, seen>>

LaunchDue == /\ manifest' # None /\ ~force_recovery /\ ~update_requested
             /\ ~loop_suspected

\* The manifest in Flash is validated.
Decide ==
  /\ pc = "decide"
  /\ manifest' = installed
  /\ pc' = IF LaunchDue THEN "count" ELSE "wait"
  /\ updating' = FALSE
  /\ UNCHANGED <<reset_cause, force_recovery, update_requested, launch_count,
                 idle_rounds, device, pipe, events, hard, launches>>

\* Mutant: attempts are not counted.
CountAttemptNever == UNCHANGED count
CountAttempt == count' = launch_count + 1

\* The attempt is counted before the hand-over.
CountLaunch ==
  /\ pc = "count"
  /\ CountAttempt
  /\ pc' = "launch_reset"
  /\ UNCHANGED <<local, device, ready, request, cause, events, seen>>

\* launch_reset_sync: the record, then the reset.
LaunchReset ==
  /\ pc = "launch_reset"
  /\ mailbox' = manifest
  /\ SoftwareReset
  /\ UNCHANGED <<installed, pipe, events, seen>>

(***************************************************************************)
(* The update wait.                                                        *)
(***************************************************************************)
\* Mutant: rounds are not counted.
CountRoundNever == idle_rounds' = idle_rounds
\* Every TRANSFER status counts as an idle round, whatever came before it; the
\* count is held where it makes no difference any more.
CountRound == idle_rounds' = IF idle_rounds < IDLE_ROUNDS THEN idle_rounds + 1
                                                          ELSE idle_rounds

\* receive_and_install returned TRANSFER.  Enough of those end the wait: the
\* application that was installed when it began is launched.
TransferEnded ==
  /\ CountRound
  /\ pc' = IF may_give_up /\ idle_rounds' >= IDLE_ROUNDS THEN "count" ELSE "wait"

\* It returned any other failure.
InstallEnded == idle_rounds' = 0 /\ pc' = "wait"

IdleRound ==
  /\ pc = "wait"
  /\ TransferEnded
  /\ UNCHANGED <<reset_cause, force_recovery, update_requested, launch_count,
                 manifest, device, pipe, events, seen>>

\* A transfer fails before its header was accepted: it was cut off, or its
\* header was refused.
RoundFails ==
  /\ pc = "wait"
  /\ Event
  /\ TransferEnded \/ InstallEnded
  /\ UNCHANGED <<reset_cause, force_recovery, update_requested, launch_count,
                 manifest, device, pipe, seen>>

\* A package header is accepted: the installed image is given up.
HeaderAccepted ==
  /\ pc = "wait"
  /\ Event
  /\ Offered # {}
  /\ installed' = None /\ updating' = TRUE
  /\ pc' = "install"
  /\ UNCHANGED <<local, rcon, mailbox, running, pipe, hard, launches>>

InstallFails ==
  /\ pc = "install"
  /\ TransferEnded \/ InstallEnded
  /\ UNCHANGED <<reset_cause, force_recovery, update_requested, launch_count,
                 manifest, device, pipe, events, seen>>

InstallCommits ==
  /\ pc = "install"
  /\ installed' \in Offered
  /\ pc' = "committed"
  /\ UNCHANGED <<local, rcon, mailbox, running, pipe, events, seen>>

CommittedReset ==
  /\ pc = "committed"
  /\ SoftwareReset
  /\ UNCHANGED <<installed, mailbox, pipe, events, seen>>

Boot == \/ ReadRcon \/ ReadMailbox \/ PipeInit \/ DropCause \/ PublishCause \/ TakeRequest
        \/ TakeLaunch \/ PlatformInit \/ Decide \/ CountLaunch \/ LaunchReset
        \/ IdleRound \/ InstallFails \/ InstallCommits \/ CommittedReset

(***************************************************************************)
(* The application.                                                        *)
(***************************************************************************)

\* cause_take comes first in its main.
TakeCause ==
  /\ pc = "app_start"
  /\ cause' = NoCause /\ hard' = FALSE
  /\ pc' = "app"
  /\ UNCHANGED <<local, device, ready, request, count, events, updating,
                 launches>>

\* launch_ack_tick: after five seconds the count is zeroed.
Acknowledge ==
  /\ pc = "app"
  /\ count' = 0 /\ launches' = 0
  /\ UNCHANGED <<pc, local, device, ready, request, cause, events, hard,
                 updating>>

\* *fu5A: request_set, if the bootloader is there, then a software reset once
\* the console is drained.
RequestUpdate ==
  /\ pc = "app" /\ ready
  /\ Event
  /\ request' = TRUE /\ pc' = "app_armed"
  /\ UNCHANGED <<local, device, ready, count, cause, seen>>

ArmedReset ==
  /\ pc = "app_armed"
  /\ SoftwareReset
  /\ UNCHANGED <<installed, mailbox, pipe, events, seen>>

\* *sr, a trap, or *fmA5, which leaves a probe in the mailbox.
AppReset ==
  /\ pc \in {"app_start", "app"}
  /\ Event
  /\ \/ UNCHANGED mailbox
     \/ pc = "app" /\ mailbox' = "probe"
  /\ SoftwareReset
  /\ UNCHANGED <<installed, pipe, seen>>

\* *feaa55: the manifest is erased and the application runs on.
EraseManifest ==
  /\ pc = "app" /\ installed # None
  /\ Event
  /\ installed' = None
  /\ UNCHANGED <<pc, local, rcon, mailbox, running, pipe, seen>>

(***************************************************************************)
(* Resets and losses of power, anywhere.                                   *)
(***************************************************************************)

\* What a reset may catch half done: a record is lost before it is rewritten.
May(p, old, new) == IF p THEN {old, new} ELSE {old}
CutShort ==
  LET wipe == pc = "init" /\ ~Kept IN
  /\ ready' \in May(wipe, ready, FALSE)
  /\ request' = (request /\ ready')
  /\ cause' \in May(pc = "app_start" \/ wipe, cause, NoCause)
  /\ count' \in IF ~ready' THEN {0}
                ELSE May(pc = "count", count, 0)
  /\ launches' = IF count' = 0 THEN 0 ELSE launches
  /\ mailbox' \in IF pc = "launch_reset" THEN {mailbox, "empty", manifest}
                                          ELSE {mailbox}

Reset ==
  /\ Event
  /\ CutShort
  /\ Restart(rcon \cup {"EXTR"})
  /\ UNCHANGED <<installed, hard, updating>>

\* RAM keeps what it keeps; the payload of the cause record is unprotected.
PowerLoss ==
  /\ Event
  /\ Restart({"POR"})
  /\ ready' \in {ready, FALSE}
  /\ request' \in {request /\ ready', FALSE}
  /\ count' \in IF ready' THEN {count, 0} ELSE {0}
  /\ cause' \in {cause, NoCause} \cup (IF cause = NoCause THEN {} ELSE {Garbled})
  /\ mailbox' \in {mailbox, "empty"}
  /\ launches' = IF count' = 0 THEN 0 ELSE launches
  /\ UNCHANGED <<installed, hard, updating>>

Next == Boot \/ RoundFails \/ HeaderAccepted \/ TakeCause \/ Acknowledge
          \/ RequestUpdate \/ ArmedReset \/ AppReset \/ EraseManifest
          \/ Reset \/ PowerLoss

Spec == Init /\ [][Next]_vars

\* The bootloader and the armed application run on by themselves; an
\* application that is not reset by MaxEvents events runs for ever.
FairSpec == Spec /\ WF_vars(Boot) /\ WF_vars(TakeCause \/ ArmedReset)

(***************************************************************************)
(* Properties.                                                             *)
(***************************************************************************)
WordsOK ==
  /\ rcon \in Words /\ reset_cause \in Words
  /\ cause \in Words \cup {NoCause, Garbled}

CountsOK ==
  /\ launch_count \in 0..LIMIT + 1 /\ count \in 0..LIMIT + 1
  /\ launches \in Nat
  /\ idle_rounds \in 0..IDLE_ROUNDS /\ events \in 0..MaxEvents

FlagsOK ==
  /\ force_recovery \in BOOLEAN /\ update_requested \in BOOLEAN
  /\ ready \in BOOLEAN /\ request \in BOOLEAN
  /\ hard \in BOOLEAN /\ updating \in BOOLEAN

PlacesOK ==
  /\ pc \in BootPlaces \cup AppPlaces
  /\ manifest \in Images \cup {None} /\ installed \in Images \cup {None}
  /\ running \in Images \cup {None}
  /\ mailbox \in Images \cup {"empty", "probe"}

TypeOK == WordsOK /\ CountsOK /\ FlagsOK /\ PlacesOK

\* The application is started at most LIMIT + 1 times in a row without
\* acknowledging: a start-up crash loop ends in the update wait.  (A reset in
\* the middle of launch_set loses the count and begins a new row.)
LoopBounded == launches <= LIMIT + 1

\* The application always finds a forwarded cause, and not that of one of the
\* bootloader's own software resets when another reset came before them.
CauseForwarded ==
  pc = "app_start" => cause \in Words /\ (hard => "SWR" \notin cause)

\* What is jumped to is the image that is installed, unless an update began
\* since the manifest was looked at: no launch record outlives its reset, an
\* erased manifest or a reset during the launch.
RunsInstalled ==
  [][pc = "launch" /\ pc' = "app_start" => running' = installed \/ updating]_vars

\* The boot passes use the container as PipeRecords describes it.
Records == INSTANCE PipeRecords WITH Causes <- Words
UsesRecords == Records!Spec

\* Every disturbance over, the board runs an application or waits for an update
\* where there is none to run: the update wait always ends.
Settled == \/ pc \in {"app", "hung"}
           \/ pc = "wait" /\ ~may_give_up
Settles == <>[]Settled

(***************************************************************************)
(* A statement of the code's comments that does not hold.                  *)
(***************************************************************************)

\* boot_main.c:465: the wait gives up only when there is an application to
\* launch.
GivesUpToInstalled == [][pc = "wait" /\ pc' = "count" => installed # None]_vars
=============================================================================
