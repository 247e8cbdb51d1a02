------------------------------ MODULE PwmAudio ------------------------------
(***************************************************************************)
(* The PWM audio output of the Classic build: the portable core's block    *)
(* FIFO, run flag and fault latch (hal_pwm_audio/nora_pwm_audio.c) and the *)
(* MPQ6612A board backend that starts, feeds, supervises and stops the     *)
(* power stage (board/audio/pwm_audio_board_ak.c).                         *)
(*                                                                         *)
(* Four actors share the state: the foreground (commands and the service   *)
(* of every pass of the main loop), the audio interrupt that writes        *)
(* blocks, the DMA interrupt that refills the half just sent, and the      *)
(* hardware.  The foreground never runs while an interrupt is being        *)
(* served; an interrupt may come between any two of its steps.  The two    *)
(* interrupts may nest either way: the core is written for any priorities. *)
(***************************************************************************)
EXTENDS SlotRing, FiniteSets

CONSTANTS FifoBlocks,    \* NORA_PWM_AUDIO_FIFO_BLOCKS
          PrimeBlocks,   \* NORA_PWM_AUDIO_PRIME_BLOCKS
          Half,          \* DMA words per half, in units of the window reserve
          Blocks,        \* what an audio block may hold
          NoBlock,       \* nothing to play
          MaxCommands,   \* bound: console and transport commands
          MaxBreaks      \* bound: failures of the hardware

ASSUME FifoAssumption == FifoBlocks \in Nat /\ FifoBlocks >= 2
ASSUME PrimeAssumption == PrimeBlocks \in 1..(FifoBlocks - 1)
ASSUME HalfAssumption == Half \in Nat /\ Half >= 2
ASSUME BlocksAssumption == NoBlock \notin Blocks /\ Blocks # {}
ASSUME BoundsAssumption == MaxCommands \in Nat /\ MaxBreaks \in Nat

VARIABLES
    \* the core
    initialized, running, primed,
    fault,       \* the latched categories: "stage", "dma", "clock"
    head, tail, fifo,
    \* the board backend
    hwUp, released, lab,
    moved,       \* the refill interrupt ran since the service's last look
    \* the stage, the generator and the DMA channel
    awake,       \* nSLEEP is high
    forced,      \* the pin override: "low", "high" or "none"
    dmaOn,       \* generator and DMA channel run
    pos,         \* the word the DMA reads next
    stat,        \* the DMA status flags that wait for the interrupt
    nFault,      \* the stage pulls nFAULT low
    health,      \* what drives the DMA: "ok", "stalled" or "unclocked"
    \* the actors
    fg,          \* what the foreground does next
    back,        \* what it does when backend_stop returns
    isr,         \* where the DMA interrupt is
    offset,      \* the half it refills
    block,       \* the block it copies, or no block
    wr,          \* where the audio interrupt is in write()
    cmds, breaks,
    \* history
    taken,       \* the last block played, at its first and last word
    torn         \* the DMA read a word while its half was being written, and no
                 \* fault has been latched since

core  == <<initialized, running, primed, fault, head, tail, fifo>>
board == <<hwUp, released, lab, moved>>
stage == <<awake, forced, dmaOn, pos, stat, nFault, health>>
isrs  == <<isr, offset, block, wr>>
hist  == <<taken, torn>>
bounds == <<cmds, breaks>>
vars  == <<core, board, stage, fg, back, isrs, hist, bounds>>

Categories == {"stage", "dma", "clock"}
FgLabels == {"idle", "init", "start", "startBoard", "clock", "run", "hr",
             "check1", "wake", "nfault", "check2", "release", "check3",
             "baseline", "check4", "running", "fail",
             "stop", "stopForce", "stopSleep", "stopDma", "serviced"}

CoreOK ==
    /\ initialized \in BOOLEAN /\ running \in BOOLEAN /\ primed \in BOOLEAN
    /\ fault \subseteq Categories
    /\ head \in 0..(FifoBlocks - 1) /\ tail \in 0..(FifoBlocks - 1)
    /\ fifo \in [0..(FifoBlocks - 1) -> Blocks]

StageOK ==
    /\ hwUp \in BOOLEAN /\ released \in BOOLEAN /\ lab \in BOOLEAN
    /\ moved \in BOOLEAN
    /\ awake \in BOOLEAN /\ forced \in {"low", "high", "none"}
    /\ dmaOn \in BOOLEAN /\ pos \in 0..(2 * Half - 1)
    /\ stat \subseteq {"half", "done"}
    /\ nFault \in BOOLEAN /\ health \in {"ok", "stalled", "unclocked"}

ActorsOK ==
    /\ back \in {"idle", "init", "again"}
    /\ isr \in {"idle", "window", "copy", "recheck"}
    /\ offset \in {0, Half}
    /\ block \in Blocks \cup {NoBlock}
    /\ wr \in {"idle", "filled"}
    /\ cmds \in 0..MaxCommands /\ breaks \in 0..MaxBreaks
    /\ taken \in Blocks \X Blocks /\ torn \in BOOLEAN

TypeOK == CoreOK /\ StageOK /\ ActorsOK /\ fg \in FgLabels

Init ==
    /\ initialized = FALSE /\ running = FALSE /\ primed = FALSE
    /\ fault = {} /\ head = 0 /\ tail = 0
    /\ \E b \in Blocks : /\ fifo = [i \in 0..(FifoBlocks - 1) |-> b]
                         /\ taken = <<b, b>>
    /\ hwUp = FALSE /\ released = FALSE /\ lab = FALSE /\ moved = FALSE
    /\ awake = FALSE /\ forced = "low" /\ dmaOn = FALSE
    /\ pos = 0 /\ stat = {} /\ nFault = FALSE /\ health = "ok"
    /\ fg = "idle" /\ back = "idle"
    /\ isr = "idle" /\ offset = 0 /\ block = NoBlock /\ wr = "idle"
    /\ cmds = 0 /\ breaks = 0 /\ torn = FALSE

-----------------------------------------------------------------------------
(* What the core and the board do in one go.                               *)

\* Mutant: the pins are forced, the bridge is left awake.
EmergencySafeAwake ==
    /\ released' = FALSE /\ awake' = awake
    /\ forced' = "low" /\ dmaOn' = FALSE

\* The stage sleeps, both pins are forced low, generator and DMA stop.
EmergencySafe ==
    /\ released' = FALSE /\ awake' = FALSE
    /\ forced' = "low" /\ dmaOn' = FALSE

CoreFault(category) ==
    /\ running' = FALSE
    /\ fault' = fault \cup {category}
    /\ torn' = FALSE

\* What EmergencySafe and CoreFault leave alone, beside the actors' places.
OutsideFault ==
    UNCHANGED <<initialized, primed, head, tail, fifo, hwUp, lab,
                pos, nFault, health, bounds, taken>>

\* The half at `off' is idle: the DMA reads the other one, and with
\* `reserve' it is not about to leave it.
CopyWindow(off, reserve) ==
    /\ (pos < Half) # (off = 0)
    /\ reserve => pos + 1 \notin {Half, 2 * Half}

-----------------------------------------------------------------------------
(* The foreground: one step per store or test that an interrupt may        *)
(* precede.                                                                *)

InForeground(at) == fg = at /\ isr = "idle" /\ wr = "idle"

\* classic_audio_pwm_init, at power-up or behind the lab switch (*cp5501).
CommandInit ==
    /\ InForeground("idle") /\ cmds < MaxCommands
    /\ cmds' = cmds + 1
    /\ lab' = TRUE \/ (cmds = 0 /\ lab' = lab)
    /\ running' = FALSE
    /\ fg' = IF initialized THEN "stop" ELSE "init"
    /\ back' = "init"
    /\ UNCHANGED <<initialized, primed, fault, head, tail, fifo, hwUp, released,
                   moved, stage, isrs, hist, breaks>>

\* classic_audio_pwm_stop, from *ts or (clearing the lab switch) *cp5500.
CommandStop ==
    /\ InForeground("idle") /\ cmds < MaxCommands
    /\ cmds' = cmds + 1
    /\ lab' \in {lab, FALSE}
    /\ running' = FALSE
    /\ fg' = IF initialized THEN "stop" ELSE "idle"
    /\ back' = "idle"
    /\ UNCHANGED <<initialized, primed, fault, head, tail, fifo, hwUp, released,
                   moved, stage, isrs, hist, breaks>>

\* nora_pwm_audio_init behind its stop(); the backend may refuse.
CoreInit ==
    /\ InForeground("init")
    /\ awake' = FALSE
    /\ \/ /\ fg' = "start" /\ initialized' = TRUE
          /\ head' = 0 /\ tail' = 0 /\ fault' = {} /\ torn' = FALSE
       \/ /\ fg' = "idle" /\ initialized' = FALSE
          /\ UNCHANGED <<head, tail, fault, torn>>
    /\ UNCHANGED <<running, primed, fifo, board, forced, dmaOn, pos, stat,
                   nFault, health, back, isrs, taken, bounds>>

\* nora_pwm_audio_start, up to the call of the backend.
CoreStart ==
    /\ InForeground("start")
    /\ IF fault = {}
         THEN fg' = "startBoard" /\ head' = 0 /\ tail' = 0 /\ primed' = FALSE
         ELSE fg' = "idle" /\ UNCHANGED <<head, tail, primed>>
    /\ UNCHANGED <<initialized, running, fault, fifo, board, stage, back, isrs,
                   hist, bounds>>

\* backend_start: asleep, everything off, buffers neutral.
StartBoard ==
    /\ InForeground("startBoard")
    /\ released' = FALSE /\ awake' = FALSE /\ hwUp' = TRUE /\ dmaOn' = FALSE
    /\ fg' = "clock"
    /\ UNCHANGED <<core, lab, moved, forced, pos, stat, nFault, health,
                   back, isrs, hist, bounds>>

\* A test of the hardware by backend_start is passed, or answered with an
\* emergency stop and a fault.
Pass(at, good, then) ==
    /\ InForeground(at) /\ good
    /\ fg' = then
    /\ UNCHANGED <<core, board, stage, back, isrs, hist, bounds>>

Fail(at, bad, category, then) ==
    /\ InForeground(at) /\ bad
    /\ EmergencySafe /\ CoreFault(category)
    /\ fg' = then
    /\ back' = IF then = "stop" THEN "idle" ELSE back
    /\ UNCHANGED <<moved, stat, isrs>> /\ OutsideFault

StartClock == \/ Pass("clock", health # "unclocked", "run")
              \/ Fail("clock", health = "unclocked", "clock", "stop")

\* The generator and the DMA channel are configured and started, or refuse.
StartRun ==
    /\ InForeground("run")
    /\ \/ /\ fg' = "hr"
          /\ forced' = "low" /\ pos' = 0 /\ stat' = {} /\ dmaOn' = TRUE
       \/ /\ fg' = "fail"
          /\ forced' = "low"
          /\ UNCHANGED <<pos, stat, dmaOn>>
    /\ UNCHANGED <<core, board, awake, nFault, health, back, isrs, hist, bounds>>

StartHr == \/ Pass("hr", health # "unclocked", "check1")
           \/ Fail("hr", health = "unclocked", "clock", "fail")

\* A test of the fault latch: pass on, or leave by `otherwise'.
FaultTest(at, then, otherwise) ==
    /\ InForeground(at)
    /\ fg' = IF fault = {} THEN then ELSE otherwise
    /\ back' = IF at = "check4" THEN "idle" ELSE back
    /\ UNCHANGED <<core, board, stage, isrs, hist, bounds>>

StartWake ==
    /\ InForeground("wake")
    /\ awake' = TRUE
    /\ fg' = "nfault"
    /\ UNCHANGED <<core, board, forced, dmaOn, pos, stat, nFault, health, back,
                   isrs, hist, bounds>>

StageFault == nFault /\ ~lab

StartNFault == \/ Pass("nfault", ~StageFault, "check2")
               \/ Fail("nfault", StageFault, "stage", "fail")

\* The override is lifted; a write that an emergency stop preceded undoes it.
StartRelease ==
    /\ InForeground("release")
    /\ forced' = "none"
    /\ fg' = "check3"
    /\ UNCHANGED <<core, board, awake, dmaOn, pos, stat, nFault, health, back,
                   isrs, hist, bounds>>

\* The service takes its progress baseline, then the stage counts as released.
StartBaseline ==
    /\ InForeground("baseline")
    /\ moved' = FALSE /\ released' = TRUE
    /\ fg' = "check4"
    /\ UNCHANGED <<core, hwUp, lab, stage, back, isrs, hist, bounds>>

\* The core's last word: it has tested the latch once more.
StartRunning ==
    /\ InForeground("running")
    /\ running' = TRUE
    /\ fg' = "idle"
    /\ UNCHANGED <<initialized, primed, fault, head, tail, fifo, board, stage,
                   back, isrs, hist, bounds>>

\* backend_start's failure path; core and board then both call backend_stop.
StartFail ==
    /\ InForeground("fail")
    /\ EmergencySafe
    /\ fg' = "stop" /\ back' = "again"
    /\ UNCHANGED <<core, hwUp, lab, moved, pos, stat, nFault, health, isrs, hist,
                   bounds>>

\* backend_stop returns.
Back == /\ fg' = IF back = "again" THEN "stop" ELSE back
        /\ back' = "idle"

Stop ==
    /\ InForeground("stop")
    /\ released' = FALSE
    /\ \/ /\ hwUp
          /\ hwUp' = FALSE /\ fg' = "stopForce"
          /\ UNCHANGED <<awake, back>>
       \/ /\ ~hwUp
          /\ awake' = FALSE
          /\ Back
          /\ UNCHANGED hwUp
    /\ UNCHANGED <<core, lab, moved, forced, dmaOn, pos, stat, nFault, health,
                   isrs, hist, bounds>>

StopForce ==
    /\ InForeground("stopForce")
    /\ forced' = "high"
    /\ fg' = "stopSleep"
    /\ UNCHANGED <<core, board, awake, dmaOn, pos, stat, nFault, health, back,
                   isrs, hist, bounds>>

\* Mutant: a stop brakes the bridge and leaves it awake.
StopSleepSkipped ==
    /\ InForeground("stopSleep")
    /\ fg' = "stopDma"
    /\ UNCHANGED <<core, board, stage, back, isrs, hist, bounds>>

StopSleep ==
    /\ InForeground("stopSleep")
    /\ awake' = FALSE
    /\ fg' = "stopDma"
    /\ UNCHANGED <<core, board, forced, dmaOn, pos, stat, nFault, health, back,
                   isrs, hist, bounds>>

StopDma ==
    /\ InForeground("stopDma")
    /\ dmaOn' = FALSE
    /\ Back
    /\ UNCHANGED <<core, board, awake, forced, pos, stat, nFault, health, isrs,
                   hist, bounds>>

\* pwm_audio_board_service, once per pass of the main loop.  `late': a second
\* has passed since the last look, in which a running DMA has interrupted.
Service(late) ==
    /\ InForeground("idle")
    /\ late => (moved \/ health # "ok" \/ ~dmaOn)
    /\ fg' = "serviced"
    /\ \/ /\ ~released
          /\ moved' = FALSE
          /\ UNCHANGED <<core, hwUp, released, lab, stage, torn>>
       \/ /\ released /\ (~dmaOn \/ (late /\ ~moved))
          /\ EmergencySafe /\ CoreFault("dma")
          /\ UNCHANGED <<initialized, primed, head, tail, fifo, hwUp, lab, moved,
                         pos, stat, nFault, health>>
       \/ /\ released /\ dmaOn /\ ~(late /\ ~moved)
          /\ moved' = IF late THEN FALSE ELSE moved
          /\ \/ /\ health = "unclocked"
                /\ EmergencySafe /\ CoreFault("clock")
             \/ /\ health # "unclocked" /\ StageFault
                /\ EmergencySafe /\ CoreFault("stage")
             \/ /\ health # "unclocked" /\ ~StageFault
                /\ UNCHANGED <<released, awake, forced, dmaOn, running, fault, torn>>
          /\ UNCHANGED <<initialized, primed, head, tail, fifo, hwUp, lab,
                         pos, stat, nFault, health>>
    /\ UNCHANGED <<back, isrs, taken, bounds>>

\* Mutant: a latched fault is reported and the output left as it is.
ServicedOnly ==
    /\ InForeground("serviced")
    /\ fg' = "idle"
    /\ UNCHANGED <<core, board, stage, back, isrs, hist, bounds>>

\* Behind the service: a latched fault stops the output for good.
Serviced ==
    /\ InForeground("serviced")
    /\ running' = IF fault = {} THEN running ELSE FALSE
    /\ fg' = IF fault # {} /\ initialized THEN "stop" ELSE "idle"
    /\ back' = "idle"
    /\ UNCHANGED <<initialized, primed, fault, head, tail, fifo, board, stage,
                   isrs, hist, bounds>>

Foreground ==
    \/ CoreInit \/ CoreStart \/ StartBoard \/ StartClock \/ StartRun \/ StartHr
    \/ FaultTest("check1", "wake", "fail")
    \/ StartWake \/ StartNFault
    \/ FaultTest("check2", "release", "fail")
    \/ StartRelease
    \/ FaultTest("check3", "baseline", "fail")
    \/ StartBaseline
    \/ FaultTest("check4", "running", "stop")
    \/ StartRunning \/ StartFail
    \/ Stop \/ StopForce \/ StopSleep \/ StopDma \/ Serviced

MainLoop == Foreground \/ \E late \in BOOLEAN : Service(late)

-----------------------------------------------------------------------------
(* The audio interrupt: nora_pwm_audio_write.  A refused block changes      *)
(* nothing but a counter.  The DMA interrupt may come between the copy and  *)
(* the publication; a write that comes within the DMA interrupt is whole.   *)

\* Mutant: no test for a full FIFO.
CanWriteFull == wr = "idle" /\ fault = {} /\ running

CanWrite == /\ wr = "idle"
            /\ fault = {} /\ running
            /\ NextSlot(head, FifoBlocks) # tail

Fill == \E b \in Blocks : fifo' = [fifo EXCEPT ![head] = b]
Publish == head' = NextSlot(head, FifoBlocks)

OutsideWrite ==
    UNCHANGED <<initialized, running, primed, fault, tail, board, stage,
                fg, back, isr, offset, block, hist, bounds>>

WriteFill ==
    /\ CanWrite /\ isr = "idle"
    /\ Fill /\ wr' = "filled"
    /\ UNCHANGED head /\ OutsideWrite

WritePublish ==
    /\ wr = "filled" /\ isr = "idle"
    /\ Publish /\ wr' = "idle"
    /\ UNCHANGED fifo /\ OutsideWrite

WriteNested ==
    /\ CanWrite /\ isr # "idle"
    /\ Fill /\ Publish
    /\ UNCHANGED wr /\ OutsideWrite

Write == WriteFill \/ WritePublish \/ WriteNested

-----------------------------------------------------------------------------
(* The DMA interrupt: _DMA4Interrupt and refill_half.                       *)

\* The interrupt finds the refill hopeless: emergency stop, then the fault.
IsrFault ==
    /\ EmergencySafe /\ CoreFault("dma")
    /\ isr' = "idle" /\ offset' = 0
    /\ UNCHANGED <<fg, back, block, wr>> /\ OutsideFault

\* Flag and status are taken and cleared; both ends at once (or an overrun,
\* which is not modelled apart) mean that a half was missed.
IsrEnter ==
    /\ isr = "idle" /\ stat # {}
    /\ stat' = {}
    /\ \/ /\ stat = {"half", "done"}
          /\ IsrFault /\ UNCHANGED moved
       \/ /\ stat # {"half", "done"}
          /\ moved' = TRUE
          /\ offset' = IF "done" \in stat THEN Half ELSE 0
          /\ isr' = "window"
          /\ UNCHANGED <<core, hwUp, released, lab, awake, forced, dmaOn, pos,
                         nFault, health, fg, back, block, wr, hist, bounds>>

\* The window opens within 32 looks, or the refill is given up.  core_take
\* hands out a block only from a primed FIFO.
IsrTake ==
    /\ isr = "window"
    /\ CopyWindow(offset, TRUE)
    /\ isr' = "copy"
    /\ LET level == Level(head, tail, FifoBlocks)
           ready == IF primed THEN level # 0 ELSE level >= PrimeBlocks
       IN  /\ block' = IF running /\ ready THEN fifo[tail] ELSE NoBlock
           /\ primed' = IF running THEN ready ELSE primed
    /\ UNCHANGED <<initialized, running, fault, head, tail, fifo, board, stage,
                   fg, back, offset, wr, hist, bounds>>

IsrGiveUp ==
    /\ isr = "window"
    /\ ~CopyWindow(offset, TRUE)
    /\ IsrFault /\ UNCHANGED <<moved, stat>>

\* The copy is done; only now is the slot given back.
IsrRelease ==
    /\ isr = "copy"
    /\ isr' = "recheck"
    /\ \/ /\ block # NoBlock
          /\ taken' = <<block, fifo[tail]>>
          /\ tail' = NextSlot(tail, FifoBlocks)
       \/ /\ block = NoBlock
          /\ UNCHANGED <<taken, tail>>
    /\ block' = NoBlock
    /\ UNCHANGED <<initialized, running, primed, fault, head, fifo, board, stage,
                   fg, back, offset, wr, torn, bounds>>

\* Mutant: the window is not looked at again behind the copy.
IsrUnchecked ==
    /\ isr = "recheck"
    /\ isr' = "idle" /\ offset' = 0
    /\ UNCHANGED <<core, board, stage, fg, back, block, wr, hist, bounds>>

\* The window must have stayed open for the whole copy.
IsrRecheck ==
    /\ isr = "recheck"
    /\ \/ /\ CopyWindow(offset, FALSE)
          /\ isr' = "idle" /\ offset' = 0
          /\ UNCHANGED <<core, board, stage, fg, back, block, wr, hist, bounds>>
       \/ /\ ~CopyWindow(offset, FALSE)
          /\ IsrFault /\ UNCHANGED <<moved, stat>>

Isr == IsrEnter \/ IsrTake \/ IsrGiveUp \/ IsrRelease \/ IsrRecheck

-----------------------------------------------------------------------------
(* The hardware.                                                           *)

\* One word, or one window reserve, is sent; a half's end raises the flag.
DmaMoves ==
    /\ dmaOn /\ health = "ok"
    /\ pos' = NextSlot(pos, 2 * Half)
    /\ stat' = stat \cup (IF pos' = Half THEN {"half"} ELSE {})
                    \cup (IF pos' = 0 THEN {"done"} ELSE {})
    /\ torn' = (torn \/ (isr = "copy" /\ (pos' < Half) = (offset = 0)))
    /\ UNCHANGED <<core, board, awake, forced, dmaOn, nFault, health, fg, back,
                   isrs, taken, bounds>>

\* The trigger stops, the clock is lost, or the stage reports a fault, which
\* it takes back only when it is put to sleep.
Breaks ==
    /\ breaks < MaxBreaks /\ breaks' = breaks + 1
    /\ \/ health = "ok" /\ health' \in {"stalled", "unclocked"}
          /\ UNCHANGED nFault
       \/ nFault' = TRUE /\ UNCHANGED health
    /\ UNCHANGED <<core, board, awake, forced, dmaOn, pos, stat, fg, back, isrs,
                   hist, cmds>>

Mends ==
    /\ ~awake
    /\ health' \in {health, "ok"} /\ nFault' \in {nFault, FALSE}
    /\ <<health, nFault>>' # <<health, nFault>>
    /\ UNCHANGED <<core, board, awake, forced, dmaOn, pos, stat, fg, back, isrs,
                   hist, bounds>>

Next ==
    \/ CommandInit \/ CommandStop \/ MainLoop
    \/ Write \/ Isr
    \/ DmaMoves \/ Breaks \/ Mends

\* Interrupts are served and leave the main loop time to go on, and a loop
\* that goes on sees the seconds pass.
Fairness == /\ WF_vars(Isr) /\ SF_vars(WritePublish)
            /\ SF_vars(MainLoop) /\ SF_vars(Service(TRUE))

Spec == Init /\ [][Next]_vars /\ Fairness

-----------------------------------------------------------------------------
(* Properties.                                                             *)

\* The stage is never driven by the PWM with a fault latched: at each moment
\* of a start, an emergency stop from an interrupt either comes early enough
\* to be seen, or late enough to be undone by nothing (board:837, 848, 856).
NeverDrivenFaulted == fault # {} => ~awake \/ forced # "none"

\* Between two commands, and with no fault latched, the stage is on exactly
\* while the core takes blocks, and then it is awake, released and fed; a
\* start that failed at any step, and a stop, leave it asleep
\* (nora_pwm_audio.c:147-157, board:862-904).
Live == released /\ awake /\ forced = "none" /\ dmaOn
RunningIsLive ==
    fg = "idle" => /\ fault = {} => (running <=> Live)
                   /\ ~running => ~awake /\ ~dmaOn

\* A half that the DMA read while it was being written is never passed over:
\* it is caught by the second look at the window, or the DMA has gone so far
\* that the next interrupt finds both ends flagged (board:563, 578).
TornIsCaught ==
    torn /\ isr \in {"idle", "window"} => stat = {"half", "done"}

\* The ring of slots is a queue between the two interrupts: each block
\* played was written, whole, once and in order, and up to FifoBlocks - 1
\* blocks wait (nora_pwm_audio.c:9-14).
Queue == INSTANCE BoundedQueue WITH
             Items <- Blocks, Capacity <- FifoBlocks - 1,
             queue <- Contents(fifo, head, tail, FifoBlocks)
ImplementsQueue == Queue!Spec

\* A stage that reports a fault, a DMA that no longer moves, a clock that is
\* lost and a latched fault all end with the core stopped and the stage
\* asleep, also the fault that was latched just as a start claimed success
\* (board:907-941, classic_demo_app.c:254).
Trouble == StageFault \/ health # "ok" \/ fault # {}
TroubleStops ==
    (released \/ running) /\ Trouble
        ~> (~running /\ ~awake /\ ~dmaOn) \/ ~Trouble
=============================================================================
