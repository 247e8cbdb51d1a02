---------------------------- MODULE TdmDomains ----------------------------
(***************************************************************************)
(* The SPI/I2S/TDM transport engine: legs (one SPI module with a receive   *)
(* and a transmit DMA channel each), grouped in sync domains that share    *)
(* one bit and frame clock.                                                *)
(*   task      configure, open, start, stop, close: calls of the main loop *)
(*             that never overlap, one hardware step at a time             *)
(*   hardware  a frame clock per domain; every tick completes one block of *)
(*             every leg of the domain that listens                        *)
(*   interrupt one per leg, when its receive channel has completed a half  *)
(* A call visits its legs in table order; here it takes them in any order, *)
(* except that a domain's master is released after its slaves.             *)
(* SPIxSTAT, the counters, the port's pin routing and the error codes are  *)
(* left out; a failing hook of open() changes nothing and is no step.      *)
(***************************************************************************)
EXTENDS Integers, FiniteSets, FiniteSetsExt

CONSTANTS LegCount,     \* TDM_SPI_LEG_COUNT
          Domains,      \* sync domain numbers in use
          Frames,       \* the framings a stream may have
          Fifty,        \* the TDM framings whose master makes a 50% FS with CLC10
          SeedDomain,   \* conf.h: the domain of every leg before a system commit
          Tables,       \* what configure_system is offered: [stream, domain] per leg
          Longer        \* legs the rate-monotonic map may put below the base

ASSUME LegsAssumption == LegCount \in Nat \ {0}
ASSUME DomainsAssumption == /\ Domains \subseteq 0..31
                            /\ SeedDomain \in Domains
ASSUME FramesAssumption == Fifty \subseteq Frames

Legs == 1..LegCount
Primary == 1            \* primary_leg_index
Nobody == 0
Streams == [role : {"master", "slave"}, frame : Frames]
NoStream == [role |-> "none", frame |-> "none"]

ASSUME TablesAssumption ==
    /\ Tables \subseteq [stream : [Legs -> Streams], domain : [Legs -> Domains]]
    /\ Longer \subseteq Legs

VARIABLES
    mode,       \* s_config_mode: "none", "single" or "system"
    opened,     \* s_stream.opened
    ready,      \* what the port's clock_source_ready answers now
    stream,     \* leg->config, NoStream until config_valid
    domain,     \* leg->sync_domain
    running,    \* the legs whose leg->running is set
    prio,       \* leg->irq_priority
    ipc,        \* the priority of the receive channel's interrupt
    ie,         \* the legs whose block interrupt is enabled
    dma,        \* the legs whose DMA channels are on
    spi,        \* the legs whose SPI module is on
    phase,      \* the half (0 or 1) the DMA works on
    stat,       \* DMAxSTAT of the receive channel, {} when no interrupt is due
    owed,       \* history: blocks completed since the interrupt last ran, up to 2
    clc,        \* the leg that owns CLC10, or Nobody
    call,       \* the call in progress: "none", "start" or "stop"
    at, leg,    \* inside a leg's release or teardown: the next store, the leg
    toArm, toGo, toStop,    \* legs the call has still to arm, release, tear down
    plan,       \* start_all_domains: stopped_mask, less the domains begun
    newly,      \* newly_started_mask, with the domain being started
    failed,     \* the call is going to return false
    before,     \* history: the legs that ran when the call began
    want        \* history: the legs the call was asked to start or stop

config == <<mode, opened, stream, domain>>
hardware == <<ie, dma, spi, phase, stat, owed, clc>>
job == <<call, toArm, toGo, toStop, plan, newly, failed, before, want>>
vars == <<config, ready, running, prio, ipc, hardware, job, at, leg>>

TypeOK ==
    /\ mode \in {"none", "single", "system"}
    /\ opened \in BOOLEAN /\ ready \in BOOLEAN /\ failed \in BOOLEAN
    /\ stream \in [Legs -> Streams \cup {NoStream}]
    /\ domain \in [Legs -> Domains]
    /\ prio \in [Legs -> {"base", "low"}]
    /\ ipc \in [Legs -> {"reset", "base", "low"}]
    /\ running \subseteq Legs /\ ie \subseteq Legs /\ dma \subseteq Legs /\ spi \subseteq Legs
    /\ phase \in [Legs -> 0..1]
    /\ stat \in [Legs -> SUBSET {"HALF", "DONE"}]
    /\ owed \in [Legs -> 0..2]
    /\ clc \in Legs \cup {Nobody}
    /\ call \in {"none", "start", "stop"}
    /\ at \in {"ready", "mark", "mask", "halt", "off", "clear"}
    /\ leg \in Legs
    /\ toArm \subseteq Legs /\ toGo \subseteq Legs /\ toStop \subseteq Legs
    /\ before \subseteq Legs /\ want \subseteq Legs
    /\ plan \subseteq Domains /\ newly \subseteq Domains

Init ==
    /\ mode = "none" /\ opened = FALSE /\ ready \in BOOLEAN
    /\ stream = [l \in Legs |-> NoStream]
    /\ domain = [l \in Legs |-> SeedDomain]
    /\ running = {} /\ ie = {} /\ dma = {} /\ spi = {}
    /\ prio = [l \in Legs |-> "base"]
    /\ ipc = [l \in Legs |-> "reset"]
    /\ phase = [l \in Legs |-> 0]
    /\ stat = [l \in Legs |-> {}]
    /\ owed = phase
    /\ clc = Nobody
    /\ call = "none" /\ at = "ready" /\ leg = Primary
    /\ toArm = {} /\ toGo = {} /\ toStop = {} /\ plan = {} /\ newly = {}
    /\ failed = FALSE /\ before = {} /\ want = {}

-----------------------------------------------------------------------------
(* Domains. *)

Members(d) == {l \in Legs : domain[l] = d}
MembersOf(D) == {l \in Legs : domain[l] \in D}
Masters(d) == {l \in Members(d) : stream[l].role = "master"}

\* tdm_inst_arm: a 50% frame sync on a TDM master comes out of CLC10
NeedsClc(l) == stream[l].role = "master" /\ stream[l].frame \in Fifty

\* One clock source per domain, one interpretation of it on every member.
Coherent(s, d) == \A l, m \in Legs :
    l # m /\ d[l] = d[m] => /\ ~(s[l].role = "master" /\ s[m].role = "master")
                            /\ s[l].frame = s[m].frame

Classify(d) ==
    IF \/ Members(d) = {}
       \/ \E l \in Members(d) : stream[l] = NoStream
       \/ \E l, m \in Members(d) : l # m /\ {l, m} \subseteq Masters(d)
       \/ \E l, m \in Members(d) : stream[l].frame # stream[m].frame
    THEN "invalid"
    ELSE IF Members(d) \cap running = {} THEN "stopped"
    ELSE IF Members(d) \subseteq running THEN "all_running" ELSE "partial"

-----------------------------------------------------------------------------
(* Configuration and the port: only between calls. *)

Idle == call = "none"

\* configure_system: preflight and commit, the whole table or nothing
ConfigureSystem(s, d) ==
    /\ Idle /\ ~opened /\ running = {} /\ Coherent(s, d)
    /\ mode' = "system" /\ stream' = s /\ domain' = d
    /\ UNCHANGED <<opened, ready, running, prio, ipc, hardware, job, at, leg>>

\* inst_configure: the primary leg only, and never under a system commit
InstConfigure(s) ==
    /\ Idle /\ ~opened /\ mode # "system" /\ Primary \notin running
    /\ mode' = "single" /\ stream' = [stream EXCEPT ![Primary] = s]
    /\ UNCHANGED <<opened, domain, ready, running, prio, ipc, hardware, job, at, leg>>

Open ==
    /\ Idle /\ ~opened /\ stream[Primary] # NoStream /\ ready
    /\ opened' = TRUE
    /\ UNCHANGED <<mode, stream, domain, ready, running, prio, ipc, hardware, job, at, leg>>

\* Mutant: the port may be closed under a live stream.
CloseAnyway ==
    /\ Idle /\ opened
    /\ opened' = FALSE
    /\ UNCHANGED <<mode, stream, domain, ready, running, prio, ipc, hardware, job, at, leg>>

Close ==
    /\ Idle /\ opened /\ running = {}
    /\ opened' = FALSE
    /\ UNCHANGED <<mode, stream, domain, ready, running, prio, ipc, hardware, job, at, leg>>

\* set_rate_monotonic_priorities: every leg back to the base, then the long one
\* below it; recorded on the leg and written to the interrupt controller
SetPriorities(longer) ==
    /\ Idle
    /\ prio' = [l \in Legs |-> IF l = longer THEN "low" ELSE "base"]
    /\ ipc' = prio'
    /\ UNCHANGED <<config, ready, running, hardware, job, at, leg>>

\* inst_set_block_irq_enabled(leg, false), the one way it is called: the mirrored
\* leg streams on without its interrupt
GateIrq(l) ==
    /\ Idle /\ l \in running
    /\ ie' = ie \ {l}
    /\ UNCHANGED <<config, ready, running, prio, ipc, dma, spi, phase, stat, owed, clc,
                   job, at, leg>>

-----------------------------------------------------------------------------
(* The calls that start and stop. *)

Begin(kind, legs) ==
    /\ Idle
    /\ call' = kind /\ before' = running /\ want' = legs /\ failed' = FALSE
    /\ UNCHANGED <<config, ready, running, prio, ipc, hardware, at, leg>>

\* inst_start; its readiness test is the only one on this path
InstStart ==
    /\ Begin("start", {Primary})
    /\ mode = "single" /\ opened /\ ready
    /\ stream[Primary] # NoStream /\ Primary \notin running
    /\ toArm' = {Primary} /\ toGo' = {Primary}
    /\ UNCHANGED <<toStop, plan, newly>>

\* start_domain on a domain at rest
StartDomain(d) ==
    /\ Begin("start", Members(d))
    /\ mode = "system" /\ opened /\ Classify(d) = "stopped"
    /\ plan' = {d}
    /\ UNCHANGED <<toArm, toGo, toStop, newly>>

\* start_all_domains, pass 1
StartAll ==
    /\ Begin("start", Legs)
    /\ mode = "system" /\ opened
    /\ \A l \in Legs : Classify(domain[l]) \in {"stopped", "all_running"}
    /\ plan' = {domain[l] : l \in {m \in Legs : Classify(domain[m]) = "stopped"}}
    /\ UNCHANGED <<toArm, toGo, toStop, newly>>

InstStop ==
    /\ Begin("stop", {Primary}) /\ mode = "single"
    /\ toStop' = {Primary}
    /\ UNCHANGED <<toArm, toGo, plan, newly>>

StopDomain(d) ==
    /\ Begin("stop", Members(d)) /\ mode = "system" /\ Members(d) # {}
    /\ toStop' = Members(d)
    /\ UNCHANGED <<toArm, toGo, plan, newly>>

StopAll ==
    /\ Begin("stop", Legs) /\ mode = "system"
    /\ toStop' = Legs
    /\ UNCHANGED <<toArm, toGo, plan, newly>>

Quiet == at = "ready" /\ toArm = {} /\ toGo = {} /\ toStop = {}

\* What a failing start tears down: the domains this call began.
\* Mutant: every domain there is.
RollBackAll == MembersOf(Domains)
\* Mutant: what was begun is left as it is.
RollBackNone == {}
RollBack == MembersOf(newly)

\* pass 2 and start_domain's own readiness test: the clock may have gone meanwhile
NextDomain ==
    /\ call = "start" /\ Quiet /\ plan # {}
    /\ LET d == Min(plan) IN
       IF ready
       THEN /\ toArm' = Members(d) /\ toGo' = Members(d)
            /\ plan' = plan \ {d} /\ newly' = newly \cup {d}
            /\ UNCHANGED <<toStop, failed>>
       ELSE /\ failed' = TRUE /\ plan' = {} /\ toStop' = RollBack
            /\ UNCHANGED <<toArm, toGo, newly>>
    /\ UNCHANGED <<config, ready, running, prio, ipc, hardware, at, leg, call, before, want>>

Return ==
    /\ call # "none" /\ Quiet /\ plan = {}
    /\ call' = "none" /\ newly' = {} /\ failed' = FALSE /\ before' = {} /\ want' = {}
    /\ leg' = Primary
    /\ UNCHANGED <<config, ready, running, prio, ipc, hardware, at, toArm, toGo, toStop, plan>>

-----------------------------------------------------------------------------
(* One leg. The SPI module is off while a leg is armed, so nothing of this   *)
(* leg's hardware moves before arming is done.                               *)

\* nora_dma_clear_status and the clear in nora_dma_channel_config
\* Mutant: the interrupt flag is cleared, the status it came from is not.
FlagOnly(l) == stat' = stat
ClearStatus(l) == stat' = [stat EXCEPT ![l] = {}]

\* Mutant: the build's constant instead of the map in force.
BasePriority(l) == "base"
LegPriority(l) == prio[l]

\* nora_spi_i2s_tdm_hw_dma_config: addresses and counts from the start of the
\* buffers, priority, receive interrupt, channels
ArmDma(l) ==
    /\ ie' = ie \cup {l} /\ dma' = dma \cup {l}
    /\ ipc' = [ipc EXCEPT ![l] = LegPriority(l)]
    /\ ClearStatus(l)
    /\ phase' = [phase EXCEPT ![l] = 0] /\ owed' = [owed EXCEPT ![l] = 0]

\* tdm_inst_arm succeeds
Arm(l) ==
    /\ at = "ready" /\ l \in toArm
    /\ NeedsClc(l) => clc \in {Nobody, l}
    /\ ArmDma(l)
    /\ clc' = IF NeedsClc(l) THEN l ELSE IF clc = l THEN Nobody ELSE clc
    /\ toArm' = toArm \ {l}
    /\ UNCHANGED <<config, ready, running, prio, spi, call, toGo, toStop, plan, newly,
                   failed, before, want, at, leg>>

\* tdm_inst_arm fails: the DMA controller is not ready, CLC10 belongs to another
\* leg or the FS pin is not routed. Its own rollback, then the caller's.
ArmFails(l) ==
    /\ at = "ready" /\ l \in toArm
    /\ ie' = ie \ {l} /\ dma' = dma \ {l}
    /\ spi' = spi \ {l}
    /\ \E p \in {ipc[l], LegPriority(l)} : ipc' = [ipc EXCEPT ![l] = p]
    /\ ClearStatus(l) /\ owed' = [owed EXCEPT ![l] = 0]
    /\ running' = running \ {l}
    /\ failed' = TRUE /\ toArm' = {} /\ toGo' = {} /\ plan' = {} /\ toStop' = RollBack
    /\ UNCHANGED <<config, ready, prio, phase, clc, call, newly, before, want, at, leg>>

\* Mutant: the members are released in any order.
ReleasedInAnyOrder(l) == TRUE

\* start_domain (2a), (2b): the master after every slave
MayRelease(l) == stream[l].role = "master" => toGo = {l}

\* tdm_inst_go: the module, then the mark
Go(l) ==
    /\ at = "ready" /\ toArm = {} /\ l \in toGo /\ MayRelease(l)
    /\ spi' = spi \cup {l}
    /\ toGo' = toGo \ {l} /\ at' = "mark" /\ leg' = l
    /\ UNCHANGED <<config, ready, running, prio, ipc, ie, dma, phase, stat, owed, clc,
                   call, toArm, toStop, plan, newly, failed, before, want>>

Mark ==
    /\ at = "mark"
    /\ running' = running \cup {leg}
    /\ at' = "ready"
    /\ UNCHANGED <<config, ready, prio, ipc, hardware, job, leg>>

\* tdm_inst_stop_impl: marked stopped up front, then interrupt, channels, module
\* (which also gives CLC10 back), and last what was left pending
StopLeg(l) ==
    /\ at = "ready" /\ l \in toStop
    /\ running' = running \ {l}
    /\ toStop' = toStop \ {l} /\ at' = "mask" /\ leg' = l
    /\ UNCHANGED <<config, ready, prio, ipc, hardware, call, toArm, toGo, plan, newly,
                   failed, before, want>>

Mask ==
    /\ at = "mask"
    /\ ie' = ie \ {leg} /\ at' = "halt"
    /\ UNCHANGED <<config, ready, running, prio, ipc, dma, spi, phase, stat, owed, clc, job, leg>>

Halt ==
    /\ at = "halt"
    /\ dma' = dma \ {leg} /\ at' = "off"
    /\ UNCHANGED <<config, ready, running, prio, ipc, ie, spi, phase, stat, owed, clc, job, leg>>

\* Mutant: the module goes off and CLC10 stays with the leg.
OffKeepingClc ==
    /\ at = "off"
    /\ spi' = spi \ {leg} /\ at' = "clear"
    /\ UNCHANGED <<config, ready, running, prio, ipc, ie, dma, phase, stat, owed, clc, job, leg>>

Off ==
    /\ at = "off"
    /\ spi' = spi \ {leg} /\ at' = "clear"
    /\ clc' = IF clc = leg THEN Nobody ELSE clc
    /\ UNCHANGED <<config, ready, running, prio, ipc, ie, dma, phase, stat, owed, job, leg>>

Clear ==
    /\ at = "clear"
    /\ ClearStatus(leg) /\ owed' = [owed EXCEPT ![leg] = 0] /\ at' = "ready"
    /\ UNCHANGED <<config, ready, running, prio, ipc, ie, dma, spi, phase, clc, job, leg>>

-----------------------------------------------------------------------------
(* The clock, the DMA and the interrupt. *)

ClockChange ==
    /\ ready' = ~ready
    /\ UNCHANGED <<config, running, prio, ipc, hardware, job, at, leg>>

\* A domain with a master of ours has a clock while that leg's module is on;
\* any other domain is clocked from outside.
Clocked(d) == Masters(d) \subseteq spi
Listening(d) == Members(d) \cap spi \cap dma

\* One block of time: the half each channel worked on is complete.
Tick(d) ==
    /\ Clocked(d) /\ Listening(d) # {}
    /\ phase' = [l \in Legs |-> IF l \in Listening(d) THEN 1 - phase[l] ELSE phase[l]]
    /\ stat' = [l \in Legs |-> IF l \in Listening(d)
                               THEN stat[l] \cup {IF phase[l] = 0 THEN "HALF" ELSE "DONE"}
                               ELSE stat[l]]
    /\ owed' = [l \in Legs |-> IF l \in Listening(d) /\ owed[l] < 2
                               THEN owed[l] + 1 ELSE owed[l]]
    /\ UNCHANGED <<config, ready, running, prio, ipc, ie, dma, spi, clc, job, at, leg>>

\* nora_dma_half_from_status: the receive half to read, DONE before HALF
SrcHalf(l) == IF "DONE" \in stat[l] THEN 1 ELSE 0
\* tdm_get_dest_ptr: the transmit half the DMA is not reading now
FillHalf(l) == 1 - phase[l]
\* diag_check_deadline: both flags mean the interrupt is a whole block late
Late(l) == {"HALF", "DONE"} \subseteq stat[l]

\* tdm_rx_block: the snapshot clears the flag and the status
Isr(l) ==
    /\ l \in ie /\ stat[l] # {}
    /\ ClearStatus(l) /\ owed' = [owed EXCEPT ![l] = 0]
    /\ UNCHANGED <<config, ready, running, prio, ipc, ie, dma, spi, phase, clc, job, at, leg>>

-----------------------------------------------------------------------------
Configure ==
    \/ \E t \in Tables : ConfigureSystem(t.stream, t.domain)
    \/ \E s \in Streams : InstConfigure(s)
    \/ Open \/ Close
    \/ \E l \in Longer \cup {Nobody} : SetPriorities(l)
    \/ \E l \in Legs : GateIrq(l)

Calls ==
    \/ InstStart \/ StartAll \/ InstStop \/ StopAll
    \/ \E d \in Domains : StartDomain(d) \/ StopDomain(d)
    \/ NextDomain \/ Return

Stores ==
    \/ \E l \in Legs : Arm(l) \/ ArmFails(l) \/ Go(l) \/ StopLeg(l)
    \/ Mark \/ Mask \/ Halt \/ Off \/ Clear

Outside ==
    \/ ClockChange
    \/ \E d \in Domains : Tick(d)
    \/ \E l \in Legs : Isr(l)

Next == Configure \/ Calls \/ Stores \/ Outside

Spec == Init /\ [][Next]_vars

-----------------------------------------------------------------------------
(* Properties. *)

\* A start call that succeeds leaves running what ran before and what it was
\* asked for; one that fails, at whichever leg of whichever domain and although
\* the clock comes and goes meanwhile, leaves exactly what ran before; a stop
\* leaves the rest running (two passes and newly_started_mask, the rollbacks in
\* tdm_inst_arm and start_domain).
CallsAreAtomic ==
    [][call # "none" /\ call' = "none" =>
         running' = IF call = "stop" THEN before \ want
                    ELSE IF failed THEN before ELSE before \cup want]_vars

\* A start call never touches a leg that ran when it began, not even to restart
\* it: no store of its arming, rollback or teardown reaches that leg's hardware
\* (start_all_domains: "can never tear down a domain that was ALREADY running").
Undisturbed ==
    [][call = "start" => /\ before \subseteq running' \cap spi' \cap dma'
                         /\ before \cap ie' = before \cap ie]_vars

\* Between calls no leg is half up: the running mark, the DMA channels and the
\* SPI module agree, a stopped leg cannot interrupt, nothing runs behind a closed
\* port, and every sync domain of a committed system is wholly up or wholly down
\* with one master, so start's "partial" and "invalid" rejections never happen.
AtRest ==
    Idle => /\ running = dma /\ running = spi /\ ie \subseteq running
            /\ \A l \in running : opened /\ stream[l] # NoStream
            /\ mode = "system" =>
                 \A l \in Legs : Classify(domain[l]) \in {"stopped", "all_running"}

\* Two legs of a domain one of them clocks always work on the same half of their
\* buffers: they latched the same first frame (slaves released before the master).
InStep ==
    \A d \in Domains : Masters(d) # {} =>
        \A l, m \in Listening(d) : phase[l] = phase[m]

\* The receive status tells the truth about this run of the leg: the interrupt
\* counts a missed deadline exactly when it owes more than one block, and when it
\* is on time the half it reads and the half it may fill are the one the DMA has
\* just left (nothing pending from before a stop reaches the next run).
HalvesAgree ==
    \A l \in dma : stat[l] # {} =>
        /\ Late(l) <=> owed[l] > 1
        /\ ~Late(l) => SrcHalf(l) = FillHalf(l)

\* CLC10 makes the frame sync of the leg that needs it for as long as that leg's
\* module is on, and between calls belongs to nobody else.
ClcOwned ==
    /\ \A l \in spi : NeedsClc(l) => clc = l
    /\ Idle /\ clc # Nobody => clc \in running /\ NeedsClc(clc)

\* The rate-monotonic map survives restarts: an enabled block interrupt has the
\* priority recorded on its leg.
PrioritiesInForce == \A l \in ie : ipc[l] = prio[l]
=============================================================================
