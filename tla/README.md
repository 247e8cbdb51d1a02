# A TLA+ verification of sonora-ak-nano

sonora-ak-nano is firmware for a dsPIC33AK512MPS512 audio board, in C: a
*resident bootloader* that receives application images over a serial line and
starts them, and an *application* that moves audio blocks between two WM8904
codecs, a DSP chain and (optionally) a PWM power stage. This directory holds a
TLA+ development of its control logic: modules translated from the source, TLC
configurations that check them on small instances, and theorems that TLAPS
proves for every value of the constants.

Paths in this document are relative to the repository; `boot/x.c` stands for
`src/boot/x.c`, and so on for `app/`, `shared/`. `PROJECT.json` holds the exact
correspondence: which definition models which lines.

1. [The system](#1-the-system)
2. [The modules and how they correspond to the code](#2-the-modules-and-how-they-correspond-to-the-code)
3. [The runs](#3-the-runs)
4. [Fairness](#4-fairness)
5. [What is proved](#5-what-is-proved)
6. [Where code and text disagree](#6-where-code-and-text-disagree)
7. [What is not modelled](#7-what-is-not-modelled)
8. [Plan](#8-plan)

To repeat the checks: `tlc -config MCResidentPipe.cfg MCResidentPipe` (one line
per run of `PROJECT.json`), and `tlapm ResidentPipeProofs.tla`.

---

## 1. The system

### 1.1 The images and what joins them

```
   host PC                      bootloader (boot/)                     application (app/)
  ---------                 -------------------------            -----------------------------
  XMODEM sender  --UART-->  xmodem receiver                      main loop: manage step -> console
                               | sink(block)                                 -> recovery tick
                            installer -> NVM driver -> Flash         |             ^
                               ^                                     |        block ISRs (DMA)
                            boot passes <== reset, RCON ==>  hand-off, console    capture ISRs
                               |                                     |            UART RX ISR
                               +==== noinit RAM: container, mailbox ==+            PWM DMA ISR
```

Bootloader and application never run at the same time. They communicate through
RAM that no start-up code clears (a *container* of three records and a launch
*mailbox*), through the reset-cause bits of RCON, and through Flash. Everything
between them is therefore a matter of what a reset catches half done.

Inside the application one main loop runs everything that blocks; interrupts
move audio blocks, UART bytes, clock captures and PWM refills. Main-loop code
meets the interrupts through single-producer/single-consumer rings, through
flags, and through counters that the interrupts only increment.

### 1.2 Components

For each: the state it keeps, its operations, who it talks to, what is hard
about it, and what makes it correct.

**Resident installer** (`boot/resident_de_bootloader.c`, over `boot/hal_nvm/`).
State: the application section and the manifest page of Flash; a static receive
context (manifest, write pointer, page pointer, row buffer and fill, payload
count, CRC). Operations: `resident_boot_receive_and_install`, whose sink is
called by the XMODEM receiver for each block; `resident_boot_installed_manifest`.
Hard: power may fail at every Flash operation and leaves words old, new or with
an ECC error that faults when read; header, block, row, page and image
boundaries all differ. Correct: a valid manifest always describes a whole,
readable image; OK is returned only then; the old image is untouched while its
manifest stands; an erased word is programmed once; no torn content can block
the next update.

**XMODEM receiver** (`boot/resident_de_boot_xmodem.c`). State: expected block
number, error count, handshake tries. One blocking call. Talks to the UART and
the installer's sink. Hard: a lossy line, repeated blocks after a lost ACK, an
8-bit block number, a damaged block whose rest is read as headers. Correct: the
sink sees the file's blocks in order and once; the call returns.

**Container** (`shared/resident_de_pipe.c`). State: nine words in noinit RAM:
a version pair, a request record, a launch count, a forwarded reset cause, each
beside its complement. Operations: `pipe_init`, set/take/publish of each record.
Used by both images. Hard: there is no atomicity at all; a reset may fall
between any two stores, and a supply dip leaves any cell changed. Correct: a
torn, stale or half-wiped record never reads as valid; a request in flight is
not wiped by the boot pass that should read it.

**Boot passes, launch, hand-off** (`boot/resident_de_boot_main.c`,
`shared/resident_de_mailbox.c`, `app/resident_de/app/`). State: RCON, the
mailbox, the records, idle rounds of the update wait. Two passes start an
application: the first validates Flash, leaves a launch record and resets; the
second takes the record and jumps. The application takes the forwarded cause,
acknowledges the launch after five seconds, and may request an update, probe,
or erase the manifest. Hard: one kind of reset carries four kinds of message,
and unrelated resets fall between any two steps. Correct: what is jumped to is
installed; a crash loop is bounded; the application learns the hardware reset
cause; the update wait ends.

**Boot platform, boot CRC-32, boot copies of the HAL.** Straight-line set-up, a
pure function and polled drivers.

**Audio transport lifecycle** (`app/audio_transport/audio_transport.c` and its
console). State: `TDM_activated`, the qualified/failed telemetry, the pre-flash
stop latch, `s_codec_b_missing`, the frame-error recovery state
(`s_frmerr_recovering`, restarts, safe mute, forced trip, cooldown), the rates of
both codecs. Operations: start, stop, manage step, recovery tick, stop for
flash, restart, rate change with rollback, restart of leg B alone. Hard: two
owners restart the stream (manage step and recovery tick), every step of a start
may fail, and the block interrupts raise the recovery trigger at any point.
Correct: what is heard is fed; telemetry tells the truth; rates agree; recovery
is bounded and the stream settles; a terminal stop is terminal.

**Transport driver** (`app/hal_spi_i2s_tdm/`), **DMA driver**, **SAI wrapper,
board audio glue, transport client**. State: per instance SPI/CLC/DMA set-up,
ping-pong halves, sync domains and their run state, frame-error diagnostics.
Hard: starting several domains, with a clock that may go between two of them,
and rolling back what was begun and nothing else; releasing a master behind its
followers; one generator (CLC10) for all; which half a block may fill, found in
two different ways for the two directions. Correct: a call takes all it was
asked for or nothing; co-clocked legs work on the same half; no status of an
earlier run is taken for this one's.

**PWM audio** (`app/hal_pwm_audio/`, `app/board/audio/pwm_audio_board_ak.c`).
State: a block FIFO between the audio callback and a DMA interrupt, running and
fault flags, the power stage. Hard: an emergency stop between the last test and
the release; an underrun; which DMA half is idle. Correct: a faulted stage is
never released; no sample is played twice or torn.

**UART receive ring, console routing, coefficient upload**
(`app/hal_uart/nora_uart_dspic33ak_rx_isr_ring.c`, `app/uart_app/app_debug.c`,
`app/uart_app/app_biquad_coeff_csv.c`, `app/apps/classic/dsp/biquad_cascade_4ch.c`).
State: an SPSC ring with drop counters, the source lock, the upload's state
machine (receive, per-line parse, drain, apply), the staging rows and the bypass
handshake with the audio interrupt. Hard: the integrity count moves under the
parser; the staging rows are handed over without a copy; ACK timeouts race the
interrupt's ACK. Correct: what is committed was received undamaged; the
cascade never runs on half a coefficient set; the console is always given back.

**ASRC clock measurement** (`app/apps/asrc/asrc_clock_control.c`, input
capture). State: per leg a detector with a 16-bit-indexed period queue that its
capture interrupt fills. The main loop's tick drains both, and so does a hook
that every console print runs. Hard: starting with a backlog; a drain from a
print inside another drain; a restart that changes the time base under a live
capture and clears the detector field by field; index wrap. Correct: one
consumer; each period averaged once and in order; nothing measured across a
reset or a switch reaches the average.

**ASRC and classic audio paths, effects.** Numeric signal processing.

**I2C driver, touch keys, trap recorder, noinit and reset drivers, application
Flash driver, CAN FD, clocks, remaining drivers, board devices, start-up.** See
`PROJECT.json` for each, its sources and status; section 7 says why they are not
modelled.

### 1.3 Hazards

`PROJECT.json` lists each with its line and the properties that catch it. Those
that shaped the modules: *a reset between any two stores or Flash operations*
(installer, container, boot passes); *one reset or one flag that means several
things* (boot passes, recovery against the manage step and the terminal stop);
*a value read before and used after* (the manifest across the update wait, the
reset cause across two passes, the rate across a rollback); *an interrupt between
a test and a store* (the emergency stop against a start, the acknowledgement
against its timeout, the capture against the reset); *a call that fails half way*
(domains of the transport, rate changes, a refused line of an upload).

---

## 2. The modules and how they correspond to the code

| Module | Models | Used by |
|---|---|---|
| `AtomicUpdate` | abstract: one whole image is installed or none | refinement target of `ResidentInstall` |
| `ResidentInstall` | installer + Flash driver | `MCResidentInstall`, `ResidentInstallProofs` |
| `XmodemReceive` | receiver, host, line | checked directly, `XmodemReceiveProofs` |
| `PipeRecords` | abstract: records appear whole or not at all | refinement target of `ResidentPipe`, `ResidentBoot` |
| `ResidentPipe` | container, store by store | `MCResidentPipe`, `ResidentPipeProofs` |
| `ResidentBoot` | boot passes, launch, hand-off | checked directly, `ResidentBootProofs` |
| `AudioTransport` | lifecycle of the audio stream | `MCAudioTransport`, `AudioTransportProofs` |
| `TdmDomains` | SPI/I2S/TDM engine: legs, domains, halves | `MCTdmDomains`, `TdmDomainsProofs` |
| `BoundedQueue` | abstract: a queue of one producer and one consumer | refinement target of `PwmAudio`, `PeriodQueue` |
| `SlotRing` | index arithmetic of a ring with one slot free | extended by `PwmAudio` |
| `PwmAudio` | PWM output: FIFO, DMA refill, power stage | checked directly, `PwmAudioProofs` |
| `CoeffUpload` | serial ring, console routing, upload, filter hand-over | checked directly, `MainLoopProofs` |
| `PeriodQueue` | capture interrupts and the period queues | `MCPeriodQueue`, `MainLoopProofs` |

The boot side is layered. `ResidentBoot` uses the container through records that
are whole and installs an image in one step per outcome. `ResidentPipe` and
`ResidentInstall` show that the code's stores and Flash operations justify that:
both abstractions are modules of their own (`PipeRecords`, `AtomicUpdate`), the
detailed modules refine them, and `ResidentBoot` is shown to use the records as
`PipeRecords` allows.

A definition whose comment begins with *Mutant* is a plausible slip in the code.
It is used by no specification; putting it in place of the definition it stands
beside makes the named property fail, which is how each property is known to
depend on the code (`PROJECT.json`, "mutants").

### ResidentInstall

The unit of data is the 16-byte Flash word. A cell holds word *i* of an image,
other data, is erased, or is torn (its ECC does not decode). One action per
Flash operation: `EraseManifest`, `PreparePage`, `ProgramRow`,
`ProgramTailWord`, `CommitWord`. `Crash` is enabled everywhere: during an
operation each word it would change becomes old, new or torn, independently.
`FlashError` is an operation that reports failure, with the same effects, and
an operation may report success without effect, which only the read-back finds.
`FirstBlock` and `NextBlock` are the sink's calls, for either block size, with
data that are the image's or not; `EndOfTransfer` and `TransferFails` are how
the XMODEM call returns. The static context is kept across calls and
`ResetContext` clears what `receive_and_install` clears. The CRCs are idealised:
they match exactly the described data.

### XmodemReceive

One action per turn of the handshake loop, the receive loop and the purge loop.
The line is a queue in each direction, of at most `LineMax` items; it loses an
item, damages a block, cuts it short, or takes its header byte, in which case
the receiver reads the block *number* as a header: number 4 reads as EOT and 24
as CAN, which the constants `EotNumber` and `CanNumber` place inside the range.
Numbers wrap at `Wrap` within one file. A headless block with another number is
an error of either kind the code can report. The history variable `orderly` says
that nobody timed out while something was in flight, that no fault came before
the host started, that their number stayed in the budget and that no header byte
was lost in front of a number that reads as EOT; no guard reads it. The host follows the classic
protocol (external to the repository: `tools/serial_boot_package.py` packages a
file, a terminal program sends it) and may time out at any moment, also early.

### ResidentPipe

RAM is a function from nine words to 16-bit values, and every function of the
container is a list of stores in the order of the source, the wipe byte by byte.
`Reset` is enabled between any two stores and keeps RAM. `PowerLoss` changes any
set of cells in `Decays` and sets POR. What is excluded (`NoForgery`) is that
decayed cells read as a marker beside its complement by chance.
`ClearRcon` and `PipeInit` are separate actions because the code clears the
cause well ahead of the wipe that depends on it.

### ResidentBoot

A pass is the sequence of places `reset`, `mailbox`, `init`, `cause`, `publish`,
`request`, `launch`, `platform`, `decide`, then `count` and `launch_reset`, or
`wait`. `Reset` and `PowerLoss` are enabled at every place; `CutShort` says what
the interrupted record function leaves, which is what `ResidentPipe` computes.
The application's actions are those of `app/resident_de/app/`: `TakeCause`,
`Acknowledge`, `RequestUpdate` with `ArmedReset`, `AppReset` (also a trap, or a
probe left in the mailbox) and `EraseManifest`. The history variables `hard`,
`updating` and `launches` record facts about the past that the
properties need and no action's guard reads.

### AudioTransport

The configuration is the dual-codec ASRC build: both codecs are clock masters,
leg A and leg B are sync domains of their own, the transport is driven through
the HAL, frame-error recovery is built in. In it the board is always
clock-ready and reports no clock events, and a stop cannot fail. A start is five
actions (`ApplyCodecA`, `StartTransport`, `ApplyCodecB`, `StartLegB`,
`FinishStart`), each of which may fail; `job` says on whose behalf it runs and so
what follows it. The main loop's order (manage step, at most one console
command, recovery tick) is kept through `pc`; `Block(l)`, the block interrupt,
interleaves anywhere. The frame-error counters are abstracted to "the run of
misframed blocks has reached the trigger" (`frm`), time to the choice between
`TickEarly` and a tick that is due. `LoseFraming` makes a bus slip (misframed
blocks) or stick (a clock without blocks). `tries` and `dropped` are history.
The console's commands are `*ts`, `*tr`, `*tf`, `*ar`, `*ap` and the transport
stop of the `xr` probe. The mute write lands, but its verifying read-back may
fail.

### TdmDomains

A leg is an SPI module with a receive and a transmit DMA channel; a sync domain
is the set of legs that share one clock. The task's calls (configure, open,
start of one domain or of all, stop, close) run one hardware step at a time:
`Arm` or `ArmFails`, `Go` and `Mark` on the way up, `StopLeg`, `Mask`, `Halt`,
`Off` and `Clear` on the way down, chosen by `job` and `at`; `RollBack` is what a
failed start takes down again.
Between any two of them a frame clock may come or go, a domain may tick
(`Tick`, one block on every leg that listens) and a leg's interrupt may run
(`Isr`). The table order of a call's legs is abstracted to any order, except
that a domain's master comes last. Arming one leg is a single step because its
SPI module is off until the release and nothing observes the channels before.
The receive and the transmit DMA of a leg move together; whether the transmit
half is the idle one is judged at the start of the interrupt, so what is assumed
is that the callback ends within its block, which is the code's own deadline.

### PwmAudio

Four actors: the foreground (`Command*`, `CoreInit`, the steps of
`backend_start` and `backend_stop`, `Service`), the audio interrupt that writes a
block (`WriteFill`, `WritePublish`), the DMA interrupt that refills a half
(`Isr*`) and the hardware (`DmaMoves`, faults, a clock that stops). Every store
or test of the foreground that an interrupt may precede is a step of its own.
The two interrupts may nest either way, since the core promises to work with any
priorities. The level arithmetic is `SlotRing`; `taken` holds the block as it was
at the first and the last word the refill copied, and with it the FIFO refines
`BoundedQueue`. `torn` is history: the DMA read a word of the half being written.

### CoeffUpload

The shipping build, which parses a line as soon as it is complete
(`APP_CSV_DEFER_PARSE` 0). A line is an atom: header, row with a value, end
marker, text; a byte that is lost or damaged spoils its line or loses it.
`Arrive` puts a line into port 1's ring, `ArriveHurt` damages or loses it, which
is all that a full ring allows. The main loop is the sequence of places `rx1`,
`rx2`, `watch`, `apply` (with `ack`, `load` and `restore`) and `end`, in the code's
order; its deadlines (2 s without a byte, the acknowledgement's, port 2's
silence) are flags that time raises. The audio interrupt (`AudioBlock`) runs anywhere, the transport stops and starts, hot keys ask for
the bypass. The end marker is recognised without its newline, so that the
branches of `process_line` for an end marker and for a row too many are not
reached and have no action. Left out: a marker line of which only a part
arrived, and a drain that starts in the middle of a line.

### PeriodQueue

A time stamp is the ordinal of its capture, a period the pair of the two stamps
it is the difference of, and the exponential average is the sequence it has been
fed: the properties are about which periods enter it, not about the value.
`Capture(d)` is above everything. The tick discards the backlog of a start, reads
the latest period, enables the queue and drains it, with a step for each store of a
shared field; a print runs the same drain through the yield hook, whose
test-and-set of `s_in_drain` is one step because nothing that drains can come between. The
restart moves the time base under a live capture (`Retime`) and then clears the
detectors field by field (`InitReset`, `Reset*`), unless the start gives up in
between (`GiveUp`); a rate change of leg B resets under the running stream
(`ResetUnderStream`). Indices wrap at `Modulus`. `PrintsDuringTick` says whether a
lower interrupt may print while the tick itself drains; it is FALSE in the run and
in the theorems (section 6).

---

## 3. The runs

| Run | Distinct states | Question |
|---|---:|---|
| `install` | 709 363 | may any reset or Flash fault, with any host, break the install, and does a repeated transfer succeed in the end? |
| `xmodem` | 690 138 | order, exactly-once, return, and complete delivery of an orderly transfer |
| `pipe` | 1 086 220 | may a torn or stale record read as valid? |
| `boot` | 108 593 | launch, crash loop, forwarded cause, end of the wait |
| `audio` | 181 751 | audibility, telemetry, rates, recovery budget, settling |
| `tdm` | 943 190 | are calls all-or-nothing, do halves and legs agree, does a priority survive a start? |
| `pwm` | 468 446 | is a faulted stage ever driven, a torn refill missed, a block lost? |
| `upload` | 1 126 190 | filters, staging, bypass, damage, and the end of every upload |
| `periods` | 976 610 | one consumer, in order, measured on the time base in force |
| `boot_give_up`, `audio_terminal`, `upload_drain` | to the violation | section 6 |

Type correctness is proved rather than run.

**install** (`InstalledIsWhole`, `InstalledIsReadable`, `OkMeansInstalled`,
`NoOverprogramming`, `ImplementsAtomicUpdate`, `EventuallyInstalled`). Header and
row of two words, pages of four, an application section of two pages, images of
six and five words: one ends with a full row in the second page, the other with
a partial row, so every combination of row, page and payload end occurs. Blocks
of three and five words are neither multiples nor divisors of a row, so that
blocks straddle rows and pages, and the first block ends in or behind the
header. One fault with any effect on each word. The old Flash content is any
that is reachable: a behaviour holds any number of transfers, and what the first
one leaves torn the next one meets. `EventuallyInstalled` starts from every
reachable state: from some moment on nothing but well-formed transfers.

**xmodem** (`InOrder`, `Completes`): five blocks whose numbers wrap at four, so
that a stale block one lap behind carries the expected number; EOT and CAN
inside the range; three faults, more than the error budget of two, so that it is
exceeded. The line holds three items in each direction and the host times out
once, which is what bounds how stale a block may be. What bounds it in general is
the line alone: `BlocksInOrder` has any number of timeouts and any line shorter than
a turn of the numbers, and what holds on any line is `SinkInSequence` (section 5).

**pipe** (`RequestKept`, `ImplementsRecords`): two causes and launch counts 0 and 1
tell every record from a stale one; cells decay one at a time (repeatedly) or
together; resets are not bounded.

**boot** (`LoopBounded`, `CauseForwarded`, `UsesRecords`, `RunsInstalled`,
`Settles`): two images, a launch limit of two, two idle rounds and six events
(resets, losses of power, transfers, commands). The crash-loop count needs
LIMIT + 1 = 3 events to pass its limit, an update request and the reset that
loses it three, a broken-off update with its give-up two; six leaves room for
one such history behind another.

**audio** (`AudibleIsRunning`, `QualifiedIsAudible`, `RatesAgree`,
`AttemptsBounded`, `Settles`): two rates, with the codec driver starting from one
that is not the build's; a restart budget of two; two commands of every kind in
any order, and three failures, one more than the budget. Three commands with
four failures have been run too (1.78 million states, no violation).

**tdm** (`AtRest`, `InStep`, `HalvesAgree`, `ClcOwned`, `CallsAreAtomic`,
`Undisturbed`, `PrioritiesInForce`): three legs, the fewest with a domain of two beside another one;
six tables, among them two that a configuration must refuse and one whose second
domain cannot start; calls are not bounded, and interrupts may stay away for ever (what they owe is
counted up to two blocks, all that the status can tell apart). Priority maps are changed between starts: a start that took a
fixed priority instead of the recorded one breaks `PrioritiesInForce`. That more legs, domains or tables change
nothing is what the theorems say.

**pwm** (`NeverDrivenFaulted`, `RunningIsLive`, `TornIsCaught`, `ImplementsQueue`,
`TroubleStops`): three slots with two to prime, so that the ring wraps, fills and runs dry;
halves of two units of the window reserve; two commands, so that a start meets a
start or a stop; one hardware failure. One value of a block is enough for the
stage's properties, and that the queue delivers the right one of several is
the theorem `FifoIsQueue`, for any blocks and any length.

**upload** (`LoadUnheard`, `BypassIsOwned`, `HurtIsCaught`, `StagingIsHeld`,
`UploadEnds`): five lines on port 1 hold a whole transfer with two lines to
spare for a second header or a refused row, one line on port 2 is enough to be
refused; one line lost or damaged; one row per file and one line in the ring, so
that a row is the last and the ring is full at once. Four of the five
properties are theorems for any file and ring.

**periods** (`FedInOrder`, `FedIsMeasured`, `PeriodsAreQueues`): a queue of
two whose indices wrap at four, five captures on A, more than the queue and the
wrap together need, one on B (which the code treats alike, behind A), two
restarts, so that one may give up and the next one relock.

Deadlock is checked except where the system really stops: the XMODEM call
returns; with its events used up a boot behaviour may end in an application
that runs on by itself; and the PWM output and the period queues rest when the
commands, failures and captures of the bound are used up.

---

## 4. Fairness

- `install`: none in the specification. `EventuallyInstalled` states its premise
  itself: from some moment on nothing but the bootloader and a host that repeats
  a well-formed transfer (`Persistent`) takes steps, and it is weakly fair. The
  bootloader has one thread that does not block.
- `xmodem`: weak fairness of the receiver (a polling loop whose waits time
  out), of the host and of the host's timeout (without which a host that never
  gives up repeats a block for ever; see the hazard at
  `boot/resident_de_boot_xmodem.c:169`). The line is not fair. That a timeout
  falls when nothing is in flight is not assumed of the system: it is part of
  `orderly`, the premise of the second half of `Completes`.
- `boot`: weak fairness of the boot pass and of the application's first step and
  armed reset: both are straight-line code. The application is not assumed to
  acknowledge, and nothing forces or forbids resets.
- `audio`: weak fairness of the main loop, which never blocks for ever; of each
  block interrupt, since a clocked leg's DMA goes on; and strong fairness of
  `TickRestart`: a tick comes often, each time either too early or due, and
  since the check period and the cooldown end, it is due again and again.
- `pwm`: weak fairness of the DMA interrupt, which outranks what it interrupts;
  strong fairness of the main loop, of the end of a write, which interrupts may hold up
  again and again but not for ever, and of a service whose second has passed.
- `upload`: weak fairness of the main loop and of the three deadlines. Nobody is
  assumed to send anything, and the audio interrupt need not acknowledge.
- `tdm`, `periods`: safety only. Their loops are bounded by the number of legs and
  by the queue's length.

---

## 5. What is proved

Eight proof modules hold some 13 300 obligations. None is assumed; the assumptions are
those on the constants, named in the module that declares them and evaluated by
TLC on every run.

| Theorem | States |
|---|---|
| `ResidentInstallProofs!TypeCorrect` | type correctness, for all geometries |
| `ResidentInstallProofs!InstalledAlwaysWhole` | a valid manifest describes a whole payload |
| `ResidentInstallProofs!OldImageKept` | no application word changes under a valid manifest |
| `ResidentInstallProofs!InstalledAlwaysReadable` | every word the preflight reads of an installed image decodes |
| `ResidentInstallProofs!OkAlwaysInstalled` | success is reported only for an image that is installed and stays so |
| `ResidentInstallProofs!NeverOverprogrammed` | a Flash word is programmed only when erased |
| `ResidentInstallProofs!UpdateIsAtomic` | the installer implements `AtomicUpdate` |
| `ResidentPipeProofs!TypeCorrect` | words stay natural numbers, functions inside their stores |
| `ResidentPipeProofs!AlwaysReady` | both images find an established container |
| `ResidentPipeProofs!RequestAlwaysKept` | a request goes only to its taker, its publisher or a loss of power |
| `ResidentPipeProofs!Implements` | the stores implement `PipeRecords` |
| `ResidentBootProofs!TypeCorrect` | type correctness; the count stays at most LIMIT + 1 |
| `ResidentBootProofs!CrashLoopBounded` | at most LIMIT + 1 unacknowledged starts in a row |
| `ResidentBootProofs!CauseAlwaysForwarded` | the application finds a cause, a hardware one if there was one |
| `ResidentBootProofs!AlwaysRunsInstalled` | what is jumped to is installed, unless an update began |
| `ResidentBootProofs!ImplementsRecords` | the boot passes use the container as `PipeRecords` allows |
| `AudioTransportProofs!TypeCorrect` | type correctness; an episode stays in its budget |
| `AudioTransportProofs!NeverUnfed` | an audible codec belongs to a running leg |
| `AudioTransportProofs!TelemetryTrue` | "qualified" is leg A being heard |
| `AudioTransportProofs!RatesAlwaysAgree` | an audible codec runs at the configured rate |
| `AudioTransportProofs!RecoveryBounded` | recovery restarts within its budget |
| `XmodemReceiveProofs!TypeCorrect` | type correctness of receiver, host and line |
| `XmodemReceiveProofs!SinkInSequence` | the sink's blocks have consecutive numbers, modulo the wrap |
| `XmodemReceiveProofs!BlocksInOrder` | on a line shorter than a turn of the numbers, the host's blocks in order, once, gapless |
| `XmodemReceiveProofs!BudgetKept` | a call that goes on is within its error budget |
| `TdmDomainsProofs!TdmTypes` | type correctness, for any legs, domains and tables |
| `TdmDomainsProofs!TdmAtRest` | between calls every leg and every domain is wholly up or down |
| `TdmDomainsProofs!TdmInStep` | co-clocked legs work on the same half |
| `TdmDomainsProofs!TdmHalvesAgree` | no status of an earlier run reaches an interrupt |
| `TdmDomainsProofs!TdmClcOwned` | nobody else owns CLC10 while a 50% master is on |
| `TdmDomainsProofs!TdmPriorities` | an enabled interrupt has its leg's recorded priority, across restarts |
| `TdmDomainsProofs!TdmAtomic` | a start takes all it was asked for or nothing |
| `TdmDomainsProofs!TdmUndisturbed` | no store of a start reaches a leg that ran before |
| `PwmAudioProofs!Types` | type correctness; the indices stay in the ring |
| `PwmAudioProofs!DriveSafety` | a stage with a fault latched is not driven |
| `PwmAudioProofs!RunningLive` | between commands the stage is on exactly while blocks are taken |
| `PwmAudioProofs!TornCaught` | a refill that the DMA overran is found |
| `PwmAudioProofs!FifoIsQueue` | the ring implements `BoundedQueue` |
| `MainLoopProofs!UploadTypes` | type correctness; no row behind the staging array |
| `MainLoopProofs!UploadUnheard` | the filters never run on a table that is being rewritten |
| `MainLoopProofs!UploadOwnsBypass` | however an upload ends, the filters are on again |
| `MainLoopProofs!UploadCatchesHurt` | an open transfer behind the watchdog accepted nothing hurt |
| `MainLoopProofs!UploadHoldsStaging` | staging is not written between hand-over and copy |
| `MainLoopProofs!PeriodTypes` | type correctness; a queue never holds more than its length |
| `MainLoopProofs!PeriodsInOrder` | what is averaged or waits rises in time, no period twice |
| `MainLoopProofs!PeriodsMeasured` | behind a start only distances of neighbours on the time base in force |
| `MainLoopProofs!PeriodsQueued` | rings, captures and drains implement `BoundedQueue` |

### Assumptions

`ResidentInstall`: `SizesAssumption` (rows divide pages, pages divide the section:
the linker script's and the device's geometry), `LengthAssumption` (the length
check of `resident_boot_manifest_validate`), `CellAssumption` (a torn or erased
word is not data). `ResidentPipe`: `CausesAssumption`, `WordsAssumption` (16-bit
values), `DecaysAssumption`. `ResidentBoot`: `BootAssumption`.
`AudioTransport`: `RatesAssumption`, `BoundsAssumption`. `XmodemReceive`:
`NumbersAssumption` (at least three block numbers, EOT and CAN among them).
`TdmDomains`: `LegsAssumption`, `DomainsAssumption`, `FramesAssumption`,
`TablesAssumption` (a table gives every leg a row and a domain). `PwmAudio`:
`FifoAssumption` (two slots at least), `PrimeAssumption` (priming fits),
`HalfAssumption`, `BlocksAssumption`, `BoundsAssumption`. `CoeffUpload`:
`SizeAssumption`, `ValuesAssumption`, `LinesAssumption`. `PeriodQueue`:
`QueueAssumption` (the queue's length divides the turn of its indices, and is less).
The bounds (`MaxFaults`, `MaxEvents`, `MaxCommands`, `MaxLines`, `MaxCaptures` and
their like) are arbitrary natural numbers in the proofs.

Two theorems state a hypothesis of their own. `BlocksInOrder` has
`2 * LineMax + 1 < Wrap`: the numbers are bytes, so a line may hold 127 items in each
direction, and with three numbers and three items TLC finds `InOrder` violated. The
theorems on `PeriodQueue` have `~PrintsDuringTick`, which is the release build:
section 6 says what a debug build's print could do.

### The arguments

*Installer.* `InstalledIsWhole` is not inductive: a commit writes the manifest
one word at a time over a payload checked earlier. `IInv` adds that no manifest
word is programmed between the accepted header and the commit
(`ManifestErased`), that during the commit the payload is whole and the words still
to come are erased (`CommitSound`), and what the context says of the image
(`ContextSound`). The crash is the hard case: an interrupted erase or program
leaves any mix, and `InterruptedErase` and `ManifestKept` show that no mix
decodes to a manifest that was not there or was not being committed.
`Layout` adds where the words are. Until the header is accepted nothing is buffered,
programmed or erased (`Fresh`); the two pointers move by rows and pages, the page
pointer less than a page ahead (`Pointers`); what was taken from the host is programmed
or in the row buffer (`Filled`); behind the write pointer every word reads, ahead of it
the prepared pages are erased (`Pages`); the commit writes the header's words in order,
and success comes behind the last one (`Sealed`).
From it follow the preflight, the result code and that nothing is
programmed twice; and each action is a step of `AtomicUpdate` or a stutter: the
erase of the manifest gives the old image up, its last word installs the new one,
and everything between, the crash included, changes neither.

*Container.* `Wiped` says how far the wipe has gone, `Publishing` that a marker is
void until all it vouches for is stored, `Placed` which function runs where.
With them each store is a stutter of `PipeRecords` but the one that completes a
record; the void marker is why a reset in between loses the record and cannot
bring back another. `RequestAlwaysKept` needs `ReadyBehindInit` as well: behind a
reset that is not a power loss the container is still established, so nothing
wipes it.

*Boot passes.* `Honoured`: behind a software reset the container stands, and a
launch record met at `init` came with one. `Counted`: the count in the container
is ahead of the starts it counts, from the store before the hand-over to the
acknowledgement. `Forwarded`: a hardware reset since the application last ran is
either in the record or still in the bits that this pass will publish.
`Current`: a manifest read, or a launch record that may be taken, names the
installed image until a header is accepted.

*Audio transport.* `Stream` ties the outputs to the running legs place by place
(a start works on a muted transport, a stopped one feeds and releases nothing).
`Tracked` says that the driver's rate is the configured one except during a rate
change, and then what the rollback returns to. `Episode` counts attempts: they
start at one with the episode, which ends with its budget, in the proof of clean
frames or in the safe mute. Each is preserved with the help of the others, so `Inv` is
their conjunction, and its proof has one step per action.

*XMODEM.* The invariant ties `expected` to the last block the sink took
(`ExpectsNext`); with it the number of each block follows its predecessor's. That
the *blocks* are then in order needs a bound on how stale a block on the line may
be, since the numbers wrap. `Ordered` gives it: the line keeps the order in which the
host sent (`Sorted`), and there is a block the receiver cannot get beyond, because it
is lost or not yet sent (`Reach`). The host moves on once for each ACK that travels and
each that the items in front of that block can still cause, so it is at most
`2 * LineMax` ahead (`Near`). No block on the line is then a whole turn off, and the
one with the expected number is the successor of the last one taken.

*Transport engine.* `Account` is the centre: at every step of a call the legs
running are those that ran before, with those this call marked and without those it
was told to stop, so that a rollback (`newly`) can name only its own. `Powered`
orders a leg's stores (channels before module, module before mark). `Wholes` and
`Committed` say that a domain is up or down as one and has one master, `Aligned`
and `Owed` carry the halves, `Generator` the owner of CLC10 through each rollback,
`PrioritiesInForce` is inductive with the types.

*PWM output.* `Stage` says for each place of a start and a stop what the stage may
be (`Owned`, `Asleep`, `Powered`, `Settled`): with a fault latched it is not
driven, wherever the emergency stop fell. `Overrun` says that a DMA that entered the
half being written shows it in its position or its flags until the second
look or the next interrupt. `Fifo` says that the slot being copied is the
oldest of the queue and the slot being written is free; the lemmas on `SlotRing` then
give the refinement.

*Upload.* `Handover`: while the apply step works the request stands, and no
transfer is open beside it. `Switched`: the function the interrupt calls and the
state agree but for the moment between the two stores that change them.
`Counted`: as long as the count shows nothing new, nothing behind the first line of
the ring was hurt during a transfer, and while a transfer is open nothing it
accepted was; what is hurt later moves the count first.

*Period queues.* `Control` says who is where: an interrupt's print meets no drain of
the main loop, the flag is set exactly while a print drains, and a queue that is
being started or reset is off. So there is one consumer (`Batches`): its batch is a
prefix of what waits, and the slot it holds is not the one the producer fills. A queue
that is off is empty with its average (`Emptied`). Each step then puts, gets, seeds,
drops or leaves the periods of a detector alone (`Effects`); the refinement, the order
(`Chronicle`: what waits is later than the period the average will be started from)
and the measure follow from these five. `Restamped` takes the reset store by store,
in the order in which the code clears: behind the mark the stamp is safe, with a safe
stamp the last period, with both whatever is averaged. A capture between
two stores can then carry an old stamp only into what a later store clears.
The lemmas on `Held` give the ring: indices that wrap at any multiple of its length,
full and empty told apart by their distance.

### Only model-checked

Liveness (`EventuallyInstalled`, `Completes`, `UploadEnds`, `TroubleStops` and both
`Settles`) is outside the prover, as is anything with ENABLED and what a recursive
computation yields for all inputs. Every other property that a passing run checks is
stated by a theorem. The inductive invariants were checked by TLC before they were
proved, those of the XMODEM line on two instances that meet the hypothesis (lines of
two and of three items, 23 512 and 725 399 states).

---

## 6. Where code and text disagree

Each of the first three has a run that ends in the violation.

1. **A give-up launches an erased application** (`boot_give_up`,
   `GivesUpToInstalled`; `boot/resident_de_boot_main.c:470`). The manifest and the
   permission to give up are computed before the update wait. A transfer whose
   header is accepted erases the manifest; if it then breaks off, the wait ends
   after its idle rounds by launching the stale entry address, and the second
   pass jumps without looking at Flash. Line 465: "Give up and launch the
   installed application only when there IS one to launch".
2. **Recovery restarts a terminally stopped transport** (`audio_terminal`,
   `ConfirmedStopStays`; `app/audio_transport/audio_transport.c:1064`). The tick
   does not look at the stop latch; a standing run of misframed blocks, an
   episode, or `*tf` restarts the stream behind a confirmed `*ts`. Line 68: "An
   explicit *ts must remain terminal until a successful explicit start".
3. **A refused line gives the console back in the middle of the file**
   (`upload_drain`, `DrainIsFed`; `app/uart_app/app_biquad_coeff_csv.c:403`, also
   392). The refusal starts the drain, but `feed_char` then returns FALSE and
   `app_debug.c:250` returns to the normal mode, so the rest of the file is read
   as keys and commands. Line 980: "the host is still streaming, and those bytes
   must not reach the console command parser".

Met on the way. These contradict a comment too, but have no run:

- The end marker commits the transfer inside the drain loop of a pass, ahead of
  that pass's comparison of the integrity count (`app_biquad_coeff_csv.c:975`), so a
  loss that is counted in the pass that reads the marker is not fatal,
  although line 955 says a damaged byte "is fatal to the transaction".
  `CommittedIsIntact` states the comment; `HurtIsCaught` is what the code keeps.
- The tick's own drain (`asrc_clock_control.c:540`) does not set `s_in_drain`. A
  print from an interrupt while it runs would drain the queue a second time: with
  `PrintsDuringTick` TRUE, TLC finds a period averaged twice and the read index
  moving back (`FedInOrder`). The comment at 277 says that such a print "that lands
  mid-drain skips". Only a debug build prints from an interrupt
  (`TDM_DBG_PRINTF`), hence FALSE in the run.
- A power-on whose application never ran is replaced as the pending cause by the
  reset button that follows (`boot/resident_de_boot_main.c:229`), against
  `app/hal_reset/nora_reset.h:60`: "a supply that has just come up is cold no
  matter what else was asserted during it".
- A recovery attempt that fails before the transport starts leaves it stopped,
  and the manage step starts and unmutes it without the proof of clean frames
  (`audio_transport.c:2150`), against line 1103: "keep MUTED across the whole episode".
- A full restart leaves the safe mute latched (`audio_transport.c:1076`), and with it
  recovery off, against line 910: "Cleared only by a full restart / power cycle".
- `inst_set_block_irq_enabled(true)` clears the CPU's flag and not the channel's
  status (`nora_spi_i2s_tdm_dspic33ak.c:1889`), unlike what the comment at 1878
  says; no caller passes true.

And these contradict nothing that is written:

- A round that fails in mid-transfer counts as an idle one
  (`boot/resident_de_boot_main.c:502`), so that a slow operator's two or three
  failed attempts use up the rounds.
- A launch record can be stranded: a reset button pressed between the record and
  the software reset, with the recovery button held, leaves it for the next
  software reset (`:247`, `:190`). `RunsInstalled` shows that what it names is then
  still installed unless an update began.
- A committed update does not clear the launch count (`:242`), so a board in its
  crash-loop state waits for an update although the new image is good.
- A restart of leg B alone drops an episode that holds both codecs muted
  (`audio_transport.c:1156`): leg A stays silent over a running transport
  (`dropped` in `Settles`).
- A header inside a transfer is ignored as a comment, so rows of two files may
  end in one upload; the rows behind a refused header go to the command parser.
- The end of a pass and of a refused stream release the source lock also while a
  command line is half typed (`app_debug.c:199`, `:183`).
- Sync domains that are clocked from outside have no `InStep` guarantee, since no
  release order fixes their first frame; the transport measures and retries there
  (`audio_transport.c:1445-1477`). The classifications "partial" and "invalid" of a
  start cannot occur (`AtRest`).
- A start that gives up before the detectors' reset (`audio_transport.c:1811-1821`)
  leaves them measuring across the switch while the stream is stopped, hence the
  premise `streaming` of `FedIsMeasured`.

---

## 7. What is not modelled

- *Signal processing* (ASRC, classic chain, effects, PWM modulator arithmetic):
  correctness is a matter of samples; the repository compares them bit by bit.
  This is most of the source by size: tables, kernels and their benchmarks.
- *Register programming* of codecs, clocks, pins and peripherals: straight-line
  data. `app/hal_clock` has host tests in `src/tests/hal_clock`.
- *CAN FD*: called by neither application.
- *I2C driver*: polled, one context; nothing that is in use leaves a no-STOP write
  pending for its successor. That a transfer may fail is part of `AudioTransport`.
- *Touch keys, buttons, trap recorder*: one context or one writer, and levels that
  are polled.
- *SAI and USART wrappers, the co-clocked start with its phase lock*: routes that
  other builds choose.
- *The servo of the ASRC*: the ratio and its acquisition guard are arithmetic on the
  average; which periods enter the average is `PeriodQueue`.
- *Text* of consoles, reports and telemetry; host tools, linker and build scripts.
- Inside modelled components: the probe's echo content, the boot LED, the load
  reports of the transport, the crash record of the container (compiled out:
  `RESIDENT_BOOT_ENA_CRASH_RECORD` is 0), counters that nothing branches on.
- Idealised: CRCs match exactly what they describe; decayed RAM does not forge a
  marker and its complement.

Components marked `partly` are those of which only the operations that a modelled
neighbour calls are actions here; `PROJECT.json` says which.

---

## 8. Plan

Done: what may leave a board dead came first (installer, XMODEM, container, boot
passes), then what is heard (audio transport, its engine, the PWM output), then
what joins interrupts and the main loop (upload, period queue). Every safety
property of the passing runs is a theorem by now.

What would come next:

1. The co-clocked start with its phase lock, above `TdmDomains`: it retries what
   `InStep` does not promise for domains that are clocked from outside.
