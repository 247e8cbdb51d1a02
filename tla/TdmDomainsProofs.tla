-------------------------- MODULE TdmDomainsProofs --------------------------
(***************************************************************************)
(* Safety of the transport engine, for every number of legs, every set of  *)
(* domains, every table a board may offer, and any moment of a clock loss, *)
(* a failed arming, a tick or an interrupt.                                *)
(***************************************************************************)
EXTENDS TdmDomains, WellFoundedInduction, TLAPS

\* The phases of a call.
Starting == call = "start" /\ ~failed
Undoing == call = "start" /\ failed
Marked == IF at = "mark" THEN {leg} ELSE {}
Ending == at \in {"mask", "halt", "off", "clear"}

\* The worklists belong to their phase.
Shape ==
    /\ toArm \subseteq toGo
    /\ ~Starting => toGo = {} /\ plan = {} /\ at # "mark"
    /\ toStop # {} \/ Ending => call = "stop" \/ Undoing
    /\ at = "mark" => leg \notin toGo /\ toArm = {}
    /\ Ending => leg \notin toStop
    /\ failed => call = "start"
    /\ call = "stop" => newly = {}
    /\ Idle => newly = {} /\ before = {} /\ want = {}

\* How far each leg's hardware is up: mark, module, channels and interrupt go
\* down in that order, and only a leg the call works on is in between.
Powered ==
    /\ running \subseteq spi \cap dma /\ ie \subseteq dma
    /\ toGo \cap spi = {} /\ toArm \cap dma = {} /\ toGo \ toArm \subseteq dma
    /\ \A l \in spi \ running : l = leg /\ at \in {"mark", "mask", "halt", "off"}
    /\ \A l \in spi \ dma : l = leg /\ at = "off"
    /\ \A l \in dma \ spi : l \in toGo \/ l \in toStop
                            \/ (l = leg /\ at \in {"mask", "halt"})
    /\ Ending => leg \notin running
    /\ at \in {"halt", "off", "clear"} => leg \notin ie
    /\ at \in {"off", "clear"} => leg \notin dma
    /\ at = "clear" => leg \notin spi
    /\ at = "mark" => leg \in spi /\ leg \in dma

\* What was committed, and what a live or starting leg may rely on.
Committed ==
    /\ mode = "system" => Coherent(stream, domain) /\ \A l \in Legs : stream[l] # NoStream
    /\ mode = "single" => \A l \in Legs : stream[l] # NoStream => l = Primary
    /\ mode = "none" => \A l \in Legs : stream[l] = NoStream
    /\ \A l \in running \cup toGo \cup Marked : opened /\ stream[l] # NoStream
    /\ call = "start" => opened /\ mode # "none"
    /\ call = "start" /\ mode = "single" =>
          want = {Primary} /\ stream[Primary] # NoStream /\ before = {} /\ plan = {}
    /\ call = "stop" => mode # "none"

\* The legs a start call has begun.
Begun == IF mode = "single" THEN {Primary} ELSE MembersOf(newly)

\* What runs, against what ran when the call began and what it was asked for.
Account ==
    /\ Starting => /\ running = (before \cup Begun) \ (toGo \cup Marked)
                   /\ before \cap Begun = {} /\ toGo \cup Marked \subseteq Begun
                   /\ plan \cap newly = {} /\ before \cap MembersOf(plan) = {}
                   /\ before \cup want = before \cup Begun \cup MembersOf(plan)
    /\ Undoing => /\ before \subseteq running /\ running \ before \subseteq toStop
                  /\ before \cap toStop = {}
                  /\ Ending => leg \notin before
    /\ call = "stop" => /\ running \ want = before \ want
                        /\ running \cap want \subseteq toStop /\ toStop \subseteq want
                        /\ Ending => leg \in want

\* A set of legs that holds every domain wholly or not at all.
Whole(S) == \A l, m \in Legs : domain[l] = domain[m] /\ l \in S => m \in S
Wholes == mode = "system" => /\ Idle => Whole(running)
                             /\ Whole(before) /\ Whole(want)

\* While the master of a domain is still to be released its clock stands, and
\* whoever listens already has not left the first half.
Aligned ==
    /\ \A l \in toGo \ toArm : phase[l] = 0
    /\ \A d \in Domains : Members(d) \cap toGo # {} => Masters(d) \subseteq toGo
    /\ \A d \in Domains : Masters(d) \cap toGo # {} =>
           \A l \in Listening(d) : phase[l] = 0
    /\ InStep

\* The status and the blocks owed tell the same.
Owed ==
    \A l \in Legs : /\ owed[l] = 0 => stat[l] = {}
                    /\ owed[l] = 1 => stat[l] = {IF phase[l] = 1 THEN "HALF" ELSE "DONE"}
                    /\ owed[l] = 2 => stat[l] = {"HALF", "DONE"}

Generator ==
    /\ \A l \in spi \cup (toGo \ toArm) : NeedsClc(l) => clc = l
    /\ clc # Nobody => /\ NeedsClc(clc)
                       /\ \/ clc \in running \cup toStop
                          \/ clc \in toGo \ toArm
                          \/ clc = leg /\ at \in {"mark", "mask", "halt", "off"}

Inv == TypeOK /\ Shape /\ Powered /\ Committed /\ Account /\ Wholes
       /\ Aligned /\ Owed /\ Generator /\ PrioritiesInForce

-----------------------------------------------------------------------------
(* Types.                                                                  *)

CommitOK == /\ mode \in {"none", "single", "system"}
            /\ opened \in BOOLEAN /\ ready \in BOOLEAN
            /\ stream \in [Legs -> Streams \cup {NoStream}]
            /\ domain \in [Legs -> Domains]
LevelOK == /\ prio \in [Legs -> {"base", "low"}]
           /\ ipc \in [Legs -> {"reset", "base", "low"}]
LegsOK == running \subseteq Legs /\ ie \subseteq Legs /\ dma \subseteq Legs /\ spi \subseteq Legs
BlockOK == /\ phase \in [Legs -> 0..1]
           /\ stat \in [Legs -> SUBSET {"HALF", "DONE"}]
           /\ owed \in [Legs -> 0..2]
StageOK == /\ clc \in Legs \cup {Nobody}
           /\ call \in {"none", "start", "stop"}
           /\ at \in {"ready", "mark", "mask", "halt", "off", "clear"}
           /\ leg \in Legs /\ failed \in BOOLEAN
WorkOK == /\ toArm \subseteq Legs /\ toGo \subseteq Legs /\ toStop \subseteq Legs
          /\ before \subseteq Legs /\ want \subseteq Legs
          /\ plan \subseteq Domains /\ newly \subseteq Domains

LEMMA TypeParts ==
  TypeOK <=> CommitOK /\ LevelOK /\ LegsOK /\ BlockOK /\ StageOK /\ WorkOK
BY DEF TypeOK, CommitOK, LevelOK, LegsOK, BlockOK, StageOK, WorkOK

LEMMA PrimaryIsLeg == Primary \in Legs /\ Nobody \notin Legs
BY LegsAssumption DEF Primary, Nobody, Legs

\* The next domain of a plan is one of it.
LEMMA MinInPlan == ASSUME NEW P \in SUBSET Domains, P # {} PROVE Min(P) \in P
<1>1. P \in SUBSET Nat
  BY DomainsAssumption
<1>2. IsWellFoundedOn(OpToRel(<, Nat), Nat)
  BY NatLessThanWellFounded
<1>3. PICK m \in P : \A k \in P : ~ (<<k, m>> \in OpToRel(<, Nat))
  BY <1>1, <1>2, WFMin
<1>4. \A k \in P : ~ (k < m)
  BY <1>1, <1>3 DEF OpToRel
<1>5. \A k \in P : m <= k
  BY <1>1, <1>4
<1> QED BY <1>5 DEF Min

LEMMA MembersAreLegs ==
  /\ \A d : Members(d) \subseteq Legs /\ Masters(d) \subseteq Members(d)
  /\ \A D : MembersOf(D) \subseteq Legs
BY DEF Members, MembersOf, Masters

LEMMA RunningIsUp == TypeOK => running \subseteq Legs
BY DEF TypeOK

\* Every step keeps the committed configuration's types.
LEMMA CommitStep == ASSUME CommitOK, [Next]_vars PROVE CommitOK'
<1>1. CASE Configure
  <2>1. ASSUME NEW t \in Tables, ConfigureSystem(t.stream, t.domain) PROVE CommitOK'
    <3>1. t.stream \in [Legs -> Streams \cup {NoStream}] /\ t.domain \in [Legs -> Domains]
      BY TablesAssumption
    <3> QED BY <2>1, <3>1 DEF CommitOK, ConfigureSystem
  <2>2. ASSUME NEW s \in Streams, InstConfigure(s) PROVE CommitOK'
    BY <2>2 DEF CommitOK, InstConfigure
  <2>3. CASE Open
    BY <2>3 DEF CommitOK, Open
  <2>4. CASE Close
    BY <2>4 DEF CommitOK, Close
  <2>5. ASSUME NEW l \in Longer \cup {Nobody}, SetPriorities(l) PROVE CommitOK'
    BY <2>5 DEF CommitOK, SetPriorities, config
  <2>6. ASSUME NEW l \in Legs, GateIrq(l) PROVE CommitOK'
    BY <2>6 DEF CommitOK, GateIrq, config
  <2> QED BY <1>1, <2>1, <2>2, <2>3, <2>4, <2>5, <2>6 DEF Configure
<1>2. CASE ClockChange
  BY <1>2 DEF CommitOK, ClockChange, config
<1>3. CASE UNCHANGED <<config, ready>>
  BY <1>3 DEF CommitOK, config
<1>4. Next /\ ~Configure /\ ~ClockChange => UNCHANGED <<config, ready>>
  BY DEF Next, Calls, InstStart, StartAll, InstStop, StopAll, StartDomain, StopDomain,
     NextDomain, Return, Begin, Stores, Arm, ArmFails, Go, StopLeg, Mark, Mask, Halt, Off,
     Clear, Outside, Tick, Isr
<1> QED BY <1>1, <1>2, <1>3, <1>4 DEF vars

\* Clearing, arming.
LEMMA ClearTypes ==
  ASSUME BlockOK, NEW l \in Legs, ClearStatus(l)
  PROVE  stat' \in [Legs -> SUBSET {"HALF", "DONE"}]
BY DEF ClearStatus, BlockOK

LEMMA LevelStep == ASSUME LevelOK, [Next]_vars PROVE LevelOK'
<1>1. ASSUME NEW l \in Longer \cup {Nobody}, SetPriorities(l) PROVE LevelOK'
  BY <1>1 DEF SetPriorities, LevelOK
<1>2. ASSUME NEW l \in Legs, Arm(l) PROVE LevelOK'
  BY <1>2 DEF Arm, ArmDma, LegPriority, LevelOK
<1>3. ASSUME NEW l \in Legs, ArmFails(l) PROVE LevelOK'
  BY <1>3 DEF ArmFails, LegPriority, LevelOK
<1>4. CASE UNCHANGED <<prio, ipc>>
  BY <1>4 DEF LevelOK
<1>5. ASSUME Next,
             ~ \E l \in Longer \cup {Nobody} : SetPriorities(l),
             ~ \E l \in Legs : Arm(l) \/ ArmFails(l)
      PROVE  UNCHANGED <<prio, ipc>>
  BY <1>5 DEF Next, Configure, ConfigureSystem, InstConfigure, Open, Close, GateIrq,
     Calls, InstStart, StartAll, InstStop, StopAll, StartDomain, StopDomain,
     NextDomain, Return, Begin, Stores, Go, StopLeg, Mark, Mask, Halt, Off,
     Clear, Outside, ClockChange, Tick, Isr
<1> QED BY <1>1, <1>2, <1>3, <1>4, <1>5 DEF vars

LEMMA LegsStep == ASSUME LegsOK, StageOK, [Next]_vars PROVE LegsOK'
<1>1. ASSUME NEW l \in Legs,
             Arm(l) \/ ArmFails(l) \/ Go(l) \/ StopLeg(l) \/ GateIrq(l)
      PROVE  LegsOK'
  BY <1>1 DEF Arm, ArmDma, ArmFails, Go, StopLeg, GateIrq, LegsOK, hardware
<1>2. CASE Mark \/ Mask \/ Halt \/ Off \/ Clear
  BY <1>2 DEF Mark, Mask, Halt, Off, Clear, LegsOK, StageOK, hardware
<1>3. CASE UNCHANGED <<running, ie, dma, spi>>
  BY <1>3 DEF LegsOK
<1>4. ASSUME Next, ~ (Mark \/ Mask \/ Halt \/ Off \/ Clear),
             ~ \E l \in Legs : Arm(l) \/ ArmFails(l) \/ Go(l) \/ StopLeg(l) \/ GateIrq(l)
      PROVE  UNCHANGED <<running, ie, dma, spi>>
  BY <1>4 DEF Next, Configure, ConfigureSystem, InstConfigure, Open, Close, SetPriorities,
     Calls, InstStart, StartAll, InstStop, StopAll, StartDomain, StopDomain,
     NextDomain, Return, Begin, Stores, Outside, ClockChange, Tick, Isr, hardware
<1> QED BY <1>1, <1>2, <1>3, <1>4 DEF vars, hardware

LEMMA BlockStep == ASSUME BlockOK, StageOK, [Next]_vars PROVE BlockOK'
<1>1. ASSUME NEW l \in Legs, Arm(l) PROVE BlockOK'
  BY <1>1, ClearTypes DEF Arm, ArmDma, BlockOK
<1>2. ASSUME NEW l \in Legs, ArmFails(l) \/ Isr(l) PROVE BlockOK'
  BY <1>2, ClearTypes DEF ArmFails, Isr, BlockOK
<1>3. CASE Clear
  BY <1>3, ClearTypes DEF Clear, BlockOK, StageOK
<1>4. ASSUME NEW d \in Domains, Tick(d) PROVE BlockOK'
  <2>1. phase' \in [Legs -> 0..1]
    BY <1>4 DEF Tick, BlockOK
  <2>2. owed' \in [Legs -> 0..2]
    BY <1>4 DEF Tick, BlockOK
  <2>3. stat' \in [Legs -> SUBSET {"HALF", "DONE"}]
    <3>1. \A l \in Legs : stat[l] \cup {IF phase[l] = 0 THEN "HALF" ELSE "DONE"}
                          \in SUBSET {"HALF", "DONE"}
      BY DEF BlockOK
    <3> QED BY <1>4, <3>1 DEF Tick, BlockOK
  <2> QED BY <2>1, <2>2, <2>3 DEF BlockOK
<1>5. CASE UNCHANGED <<phase, stat, owed>>
  BY <1>5 DEF BlockOK
<1>6. ASSUME Next, ~Clear, ~ \E l \in Legs : Arm(l) \/ ArmFails(l) \/ Isr(l),
             ~ \E d \in Domains : Tick(d)
      PROVE  UNCHANGED <<phase, stat, owed>>
  BY <1>6 DEF Next, Configure, ConfigureSystem, InstConfigure, Open, Close, SetPriorities,
     GateIrq, Calls, InstStart, StartAll, InstStop, StopAll, StartDomain, StopDomain,
     NextDomain, Return, Begin, Stores, Go, StopLeg, Mark, Mask, Halt, Off,
     Outside, ClockChange, hardware
<1> QED BY <1>1, <1>2, <1>3, <1>4, <1>5, <1>6 DEF vars, hardware

LEMMA StageStep == ASSUME StageOK, [Next]_vars PROVE StageOK'
<1>1. ASSUME NEW l \in Legs, Arm(l) PROVE StageOK'
  BY <1>1 DEF Arm, StageOK
<1>2. ASSUME NEW l \in Legs, ArmFails(l) PROVE StageOK'
  BY <1>2 DEF ArmFails, StageOK
<1>3. ASSUME NEW l \in Legs, Go(l) PROVE StageOK'
  BY <1>3 DEF Go, StageOK
<1>4. ASSUME NEW l \in Legs, StopLeg(l) PROVE StageOK'
  BY <1>4 DEF StopLeg, StageOK, hardware
<1>5. CASE Mark \/ Mask \/ Halt \/ Off \/ Clear
  BY <1>5 DEF Mark, Mask, Halt, Off, Clear, StageOK, hardware, job
<1>6. ASSUME NEW k \in {"start", "stop"}, NEW S, Begin(k, S) PROVE StageOK'
  BY <1>6 DEF Begin, StageOK, hardware
<1>7. CASE InstStart \/ StartAll \/ InstStop \/ StopAll
  BY <1>6, <1>7 DEF InstStart, StartAll, InstStop, StopAll
<1>8. ASSUME NEW d \in Domains, StartDomain(d) \/ StopDomain(d) PROVE StageOK'
  BY <1>6, <1>8 DEF StartDomain, StopDomain
<1>9. CASE NextDomain
  <2>1. failed' \in BOOLEAN /\ UNCHANGED <<clc, call, at, leg>>
    BY <1>9 DEF NextDomain, StageOK, hardware
  <2> QED BY <2>1 DEF StageOK
<1>10. CASE Return
  BY <1>10, PrimaryIsLeg DEF Return, StageOK, hardware
<1>11. CASE UNCHANGED <<clc, call, at, leg, failed>>
  BY <1>11 DEF StageOK
<1>12. ASSUME Configure \/ Outside PROVE UNCHANGED <<clc, call, at, leg, failed>>
  BY <1>12 DEF Configure, ConfigureSystem, InstConfigure, Open, Close, SetPriorities,
     GateIrq, Outside, ClockChange, Tick, Isr, hardware, job
<1> QED BY <1>1, <1>2, <1>3, <1>4, <1>5, <1>7, <1>8, <1>9, <1>10, <1>11, <1>12
        DEF vars, hardware, job, Next, Calls, Stores

LEMMA WorkStep == ASSUME WorkOK, LegsOK, CommitOK, [Next]_vars PROVE WorkOK'
<1>0. Primary \in Legs
  BY PrimaryIsLeg
<1>1. ASSUME NEW l \in Legs, Arm(l) PROVE WorkOK'
  BY <1>1 DEF Arm, WorkOK
<1>2. ASSUME NEW l \in Legs, ArmFails(l) PROVE WorkOK'
  BY <1>2, MembersAreLegs DEF ArmFails, RollBack, WorkOK
<1>3. ASSUME NEW l \in Legs, Go(l) PROVE WorkOK'
  BY <1>3 DEF Go, WorkOK
<1>4. ASSUME NEW l \in Legs, StopLeg(l) PROVE WorkOK'
  BY <1>4 DEF StopLeg, WorkOK
<1>5. CASE InstStart
  BY <1>0, <1>5 DEF InstStart, Begin, WorkOK, LegsOK
<1>6. CASE StartAll
  <2>1. plan' \subseteq Domains
    BY <1>6 DEF StartAll, CommitOK
  <2> QED BY <1>6, <2>1 DEF StartAll, Begin, WorkOK, LegsOK
<1>7. CASE InstStop
  BY <1>0, <1>7 DEF InstStop, Begin, WorkOK, LegsOK
<1>8. CASE StopAll
  BY <1>8 DEF StopAll, Begin, WorkOK, LegsOK
<1>9. ASSUME NEW d \in Domains, StartDomain(d) PROVE WorkOK'
  BY <1>9, MembersAreLegs DEF StartDomain, Begin, WorkOK, LegsOK
<1>10. ASSUME NEW d \in Domains, StopDomain(d) PROVE WorkOK'
  BY <1>10, MembersAreLegs DEF StopDomain, Begin, WorkOK, LegsOK
<1>11. CASE NextDomain
  <2>1. Min(plan) \in Domains
    BY <1>11, MinInPlan DEF NextDomain, WorkOK
  <2>2. CASE ready
    BY <1>11, <2>1, <2>2, MembersAreLegs DEF NextDomain, WorkOK
  <2>3. CASE ~ready
    BY <1>11, <2>3, MembersAreLegs DEF NextDomain, RollBack, WorkOK
  <2> QED BY <2>2, <2>3
<1>12. CASE Return
  BY <1>12 DEF Return, WorkOK
<1>13. CASE UNCHANGED job
  BY <1>13 DEF WorkOK, job
<1>14. ASSUME Configure \/ Outside \/ Mark \/ Mask \/ Halt \/ Off \/ Clear
       PROVE  UNCHANGED job
  BY <1>14 DEF Configure, ConfigureSystem, InstConfigure, Open, Close, SetPriorities,
     GateIrq, Outside, ClockChange, Tick, Isr, Mark, Mask, Halt, Off, Clear
<1> QED BY <1>1, <1>2, <1>3, <1>4, <1>5, <1>6, <1>7, <1>8, <1>9, <1>10, <1>11, <1>12,
           <1>13, <1>14 DEF vars, Next, Calls, Stores

LEMMA TypeStep == ASSUME TypeOK, [Next]_vars PROVE TypeOK'
<1>1. CommitOK /\ LevelOK /\ LegsOK /\ BlockOK /\ StageOK /\ WorkOK
  BY TypeParts
<1>2. CommitOK' /\ LevelOK' /\ LegsOK' /\ BlockOK' /\ StageOK' /\ WorkOK'
  BY <1>1, CommitStep, LevelStep, LegsStep, BlockStep, StageStep, WorkStep
<1> QED BY <1>2, TypeParts, PTL

-----------------------------------------------------------------------------
(* The shape of a call. *)

LEMMA ShapeSame ==
  ASSUME Shape, UNCHANGED <<job, at, leg>> PROVE Shape'
BY DEF Shape, Starting, Undoing, Ending, Idle, job

\* What is neither a call nor one of its stores leaves the call alone.
LEMMA AsideKeepsJob ==
  ASSUME Configure \/ Outside PROVE UNCHANGED <<job, at, leg>>
BY DEF Configure, ConfigureSystem, InstConfigure, Open, Close, SetPriorities,
   GateIrq, Outside, ClockChange, Tick, Isr

LEMMA ShapeStep == ASSUME StageOK, Shape, [Next]_vars PROVE Shape'
<1>0. StageOK'
  BY StageStep
<1>. USE DEF Shape, Starting, Undoing, Ending, Idle
<1>1. ASSUME NEW l \in Legs, Arm(l) PROVE Shape'
  BY <1>1 DEF Arm
<1>2. ASSUME NEW l \in Legs, ArmFails(l) PROVE Shape'
  BY <1>2, StageStep DEF ArmFails, StageOK
<1>3. ASSUME NEW l \in Legs, Go(l) PROVE Shape'
  BY <1>3 DEF Go, StageOK
<1>4. ASSUME NEW l \in Legs, StopLeg(l) PROVE Shape'
  BY <1>4 DEF StopLeg, hardware
<1>5. CASE Mark
  BY <1>5 DEF Mark, job
<1>6. CASE Mask \/ Halt \/ Off \/ Clear
  BY <1>6 DEF Mask, Halt, Off, Clear, job
<1>7. CASE InstStart \/ StartAll \/ InstStop \/ StopAll
  BY <1>7 DEF InstStart, StartAll, InstStop, StopAll, Begin
<1>8. ASSUME NEW d \in Domains, StartDomain(d) \/ StopDomain(d) PROVE Shape'
  BY <1>8 DEF StartDomain, StopDomain, Begin
<1>9. CASE NextDomain
  <2>1. CASE ready
    BY <1>9, <2>1 DEF NextDomain, Quiet
  <2>2. CASE ~ready
    BY <1>9, <2>2 DEF NextDomain, Quiet
  <2> QED BY <2>1, <2>2
<1>10. CASE Return
  BY <1>10 DEF Return, Quiet
<1>11. CASE Configure \/ Outside \/ UNCHANGED vars
  BY <1>11, AsideKeepsJob, ShapeSame DEF vars
<1>. HIDE DEF Shape, Starting, Undoing, Ending, Idle
<1> QED BY <1>1, <1>2, <1>3, <1>4, <1>5, <1>6, <1>7, <1>8, <1>9, <1>10, <1>11
        DEF Next, Calls, Stores

-----------------------------------------------------------------------------
(* The hardware of the legs. *)

\* No leg of a domain that is still planned has anything on.
LEMMA PlannedAreDown ==
  ASSUME Shape, Powered, Committed, Account, call = "start", Quiet,
         NEW d \in plan, NEW l \in Members(d)
  PROVE  Starting /\ l \notin running /\ l \notin dma /\ l \notin spi /\ l \notin before
<1>1. Starting
  BY DEF Shape, Starting, Undoing
<1>2. l \in MembersOf(plan) /\ l \in Legs /\ domain[l] = d
  BY DEF Members, MembersOf
<1>3. l \notin before
  BY <1>1, <1>2 DEF Account
<1>4. l \notin Begun
  <2>1. mode # "single"
    BY DEF Committed
  <2>2. d \notin newly
    BY <1>1 DEF Account
  <2> QED BY <1>2, <2>1, <2>2 DEF Begun, MembersOf
<1>5. l \notin running
  BY <1>1, <1>3, <1>4 DEF Account
<1>6. l \notin spi
  BY <1>5 DEF Powered, Quiet
<1>7. l \notin dma
  BY <1>6 DEF Powered, Quiet
<1> QED BY <1>1, <1>3, <1>5, <1>6, <1>7

LEMMA PoweredSame ==
  ASSUME Powered, UNCHANGED <<running, ie, dma, spi, toArm, toGo, toStop, at, leg>>
  PROVE  Powered'
BY DEF Powered, Ending

LEMMA PoweredStep ==
  ASSUME TypeOK, Shape, Powered, Committed, Account, [Next]_vars PROVE Powered'
<1>0. StageOK
  BY TypeParts
<1>1. ASSUME NEW l \in Legs, Arm(l) PROVE Powered'
  BY <1>1 DEF Arm, ArmDma, Powered, Ending, Shape
<1>2. ASSUME NEW l \in Legs, ArmFails(l) PROVE Powered'
  <2>1. at = "ready" /\ Starting /\ l \in toGo
    BY <1>2 DEF ArmFails, Shape, Starting
  <2>2. toGo \ {l} \subseteq RollBack
    <3>1. toGo \subseteq Begun
      BY <2>1 DEF Account
    <3>2. CASE mode = "single"
      BY <3>1, <3>2, <2>1 DEF Begun
    <3>3. CASE mode # "single"
      BY <3>1, <3>3 DEF Begun, RollBack
    <3> QED BY <3>2, <3>3
  <2>3. toStop = {}
    BY <2>1 DEF Shape, Starting, Undoing
  <2>4. /\ ie' = ie \ {l} /\ dma' = dma \ {l} /\ spi' = spi \ {l}
        /\ running' = running \ {l} /\ toArm' = {} /\ toGo' = {} /\ toStop' = RollBack
        /\ UNCHANGED <<at, leg>>
    BY <1>2 DEF ArmFails
  <2> QED BY <2>1, <2>2, <2>3, <2>4 DEF Powered, Ending
<1>3. ASSUME NEW l \in Legs, Go(l) PROVE Powered'
  BY <1>3 DEF Go, Powered, Ending, Shape
<1>4. ASSUME NEW l \in Legs, StopLeg(l) PROVE Powered'
  BY <1>4 DEF StopLeg, Powered, Ending, Shape, Starting, Undoing, hardware
<1>5. CASE Mark
  BY <1>5 DEF Mark, Powered, Ending, Shape, Starting, Undoing, hardware, job
<1>6. CASE Mask
  BY <1>6 DEF Mask, Powered, Ending, Shape, Starting, Undoing, job
<1>7. CASE Halt
  BY <1>7 DEF Halt, Powered, Ending, Shape, Starting, Undoing, job
<1>8. CASE Off
  BY <1>8 DEF Off, Powered, Ending, Shape, Starting, Undoing, job
<1>9. CASE Clear
  BY <1>9 DEF Clear, Powered, Ending, Shape, Starting, Undoing, job
<1>10. CASE InstStart
  BY <1>10, PrimaryIsLeg DEF InstStart, Begin, Powered, Ending, Shape, Starting, Undoing,
     Idle, hardware
<1>11. CASE StartAll
  BY <1>11, PoweredSame DEF StartAll, Begin, hardware
<1>12. CASE InstStop \/ StopAll
  BY <1>12 DEF InstStop, StopAll, Begin, Powered, Ending, Shape, Starting, Undoing,
     Idle, hardware
<1>13. ASSUME NEW d \in Domains, StartDomain(d) PROVE Powered'
  BY <1>13, PoweredSame DEF StartDomain, Begin, hardware
<1>14. ASSUME NEW d \in Domains, StopDomain(d) PROVE Powered'
  BY <1>14 DEF StopDomain, Begin, Powered, Ending, Shape, Starting, Undoing,
     Idle, hardware
<1>15. CASE NextDomain
  <2>1. CASE ready
    <3>1. PICK d \in plan : toArm' = Members(d) /\ toGo' = Members(d)
      BY <1>15, <2>1, TypeParts, MinInPlan DEF NextDomain, WorkOK
    <3>2. \A l \in Members(d) : l \notin dma /\ l \notin spi
      BY <1>15, PlannedAreDown DEF NextDomain
    <3>3. Quiet /\ UNCHANGED <<running, ie, dma, spi, toStop, at, leg>>
      BY <1>15, <2>1 DEF NextDomain, hardware
    <3> QED BY <3>1, <3>2, <3>3 DEF Powered, Ending, Quiet
  <2>2. CASE ~ready
    BY <1>15, <2>2 DEF NextDomain, Quiet, Powered, Ending, hardware
  <2> QED BY <2>1, <2>2
<1>16. CASE Return
  BY <1>16, PrimaryIsLeg DEF Return, Quiet, Powered, Ending, hardware
<1>17. ASSUME NEW l \in Legs, GateIrq(l) PROVE Powered'
  BY <1>17, AsideKeepsJob DEF GateIrq, Powered, Ending, job, Configure
<1>18. ASSUME Outside \/ UNCHANGED vars
              \/ (Configure /\ ~ \E l \in Legs : GateIrq(l))
       PROVE  Powered'
  <2>1. UNCHANGED <<running, ie, dma, spi>>
    BY <1>18 DEF vars, hardware, Outside, ClockChange, Tick, Isr, Configure, ConfigureSystem,
       InstConfigure, Open, Close, SetPriorities
  <2> QED BY <1>18, <2>1, AsideKeepsJob, PoweredSame DEF vars, job
<1> QED BY <1>1, <1>2, <1>3, <1>4, <1>5, <1>6, <1>7, <1>8, <1>9, <1>10, <1>11, <1>12,
           <1>13, <1>14, <1>15, <1>16, <1>17, <1>18 DEF Next, Calls, Stores, Configure

-----------------------------------------------------------------------------
(* The committed configuration. *)

LEMMA CommittedSame ==
  ASSUME Committed,
         UNCHANGED <<mode, opened, stream, domain, running, toGo, call, at, leg, want,
                     before, plan>>
  PROVE  Committed'
BY DEF Committed, Marked, Coherent

LEMMA NoStreamIsNone == NoStream \notin Streams
BY DEF NoStream, Streams

\* Under the single-leg interface nothing but the primary can run.
LEMMA SingleRuns ==
  ASSUME Committed, LegsOK, CommitOK, mode # "system", Primary \notin running
  PROVE  running = {}
<1>1. CASE mode = "single"
  BY <1>1 DEF Committed, LegsOK
<1>2. CASE mode = "none"
  BY <1>2 DEF Committed, LegsOK
<1> QED BY <1>1, <1>2 DEF CommitOK

LEMMA CommittedStep ==
  ASSUME TypeOK, Shape, Powered, Committed, Account, [Next]_vars PROVE Committed'
<1>0. CommitOK /\ LegsOK /\ StageOK /\ WorkOK /\ Primary \in Legs
  BY TypeParts, PrimaryIsLeg
<1>1. ASSUME NEW t \in Tables, ConfigureSystem(t.stream, t.domain) PROVE Committed'
  <2>1. t.stream \in [Legs -> Streams]
    BY TablesAssumption
  <2>2. \A l \in Legs : t.stream[l] # NoStream
    BY <2>1, NoStreamIsNone
  <2>3. running' = {} /\ toGo' = {} /\ Marked' = {} /\ call' = "none"
    BY <1>1 DEF ConfigureSystem, Shape, Starting, Idle, Marked, job
  <2>4. mode' = "system" /\ Coherent(stream', domain') /\ stream' = t.stream
    BY <1>1 DEF ConfigureSystem
  <2> QED BY <2>2, <2>3, <2>4 DEF Committed, Coherent
<1>2. ASSUME NEW s \in Streams, InstConfigure(s) PROVE Committed'
  <2>1. running = {}
    BY <1>0, <1>2, SingleRuns DEF InstConfigure
  <2>2. running' = {} /\ toGo' = {} /\ Marked' = {} /\ call' = "none"
    BY <1>2, <2>1 DEF InstConfigure, Shape, Starting, Idle, Marked, job
  <2>3. mode' = "single" /\ stream' = [stream EXCEPT ![Primary] = s] /\ mode # "system"
    BY <1>2 DEF InstConfigure
  <2>4. \A l \in Legs : stream'[l] # NoStream => l = Primary
    BY <1>0, <2>3 DEF Committed, CommitOK
  <2> QED BY <2>2, <2>3, <2>4 DEF Committed
<1>3. CASE Open
  BY <1>3 DEF Open, Committed, Marked, Coherent, job
<1>4. CASE Close
  <2>1. running = {} /\ toGo = {} /\ Marked = {} /\ Idle
    BY <1>4 DEF Close, Shape, Starting, Idle, Marked
  <2> QED BY <1>4, <2>1 DEF Close, Committed, Marked, Coherent, job, Idle
<1>5. CASE InstStart
  <2>1. running = {}
    BY <1>0, <1>5, SingleRuns DEF InstStart
  <2>2. /\ call' = "start" /\ toGo' = {Primary} /\ want' = {Primary} /\ before' = {}
        /\ plan' = {} /\ running' = {} /\ Marked' = {}
        /\ opened /\ stream[Primary] # NoStream /\ mode = "single"
    BY <1>5, <2>1 DEF InstStart, Begin, Shape, Starting, Idle, Marked, hardware
  <2>3. UNCHANGED config
    BY <1>5 DEF InstStart, Begin
  <2> QED BY <2>2, <2>3 DEF Committed, Coherent, config
<1>6. ASSUME StartAll \/ (\E d \in Domains : StartDomain(d)) PROVE Committed'
  <2>1. UNCHANGED <<config, running, toGo, at, leg>> /\ call' = "start"
        /\ mode = "system" /\ opened
    BY <1>6 DEF StartAll, StartDomain, Begin
  <2> QED BY <2>1 DEF Committed, Marked, Coherent, config
<1>7. ASSUME InstStop \/ StopAll \/ (\E d \in Domains : StopDomain(d)) PROVE Committed'
  <2>1. UNCHANGED <<config, running, toGo, at, leg>> /\ call' = "stop" /\ mode # "none"
    BY <1>7 DEF InstStop, StopAll, StopDomain, Begin
  <2> QED BY <2>1 DEF Committed, Marked, Coherent, config
<1>8. CASE NextDomain
  <2>1. mode = "system" /\ opened /\ call = "start"
    BY <1>0, <1>8 DEF NextDomain, Committed, CommitOK
  <2>2. toGo' \subseteq Legs
    BY <1>8, WorkStep, <1>0 DEF WorkOK, Next, Calls
  <2>3. UNCHANGED <<config, running, at, leg, call>>
    BY <1>8 DEF NextDomain
  <2> QED BY <1>0, <2>1, <2>2, <2>3 DEF Committed, Marked, Coherent, config, StageOK
<1>9. CASE Return
  <2>1. UNCHANGED <<config, running, toGo, at>> /\ call' = "none" /\ at = "ready"
    BY <1>9 DEF Return, Quiet
  <2> QED BY <2>1 DEF Committed, Marked, Coherent, config
<1>10. ASSUME NEW l \in Legs, Arm(l) PROVE Committed'
  BY <1>10, CommittedSame DEF Arm, config
<1>11. ASSUME NEW l \in Legs, ArmFails(l) PROVE Committed'
  <2>1. /\ UNCHANGED <<config, at, leg, call, want, before>> /\ running' = running \ {l}
        /\ toGo' = {} /\ plan' = {}
    BY <1>11 DEF ArmFails
  <2> QED BY <2>1 DEF Committed, Marked, Coherent, config
<1>12. ASSUME NEW l \in Legs, Go(l) PROVE Committed'
  <2>1. /\ UNCHANGED <<config, running, call, want, before, plan>>
        /\ l \in toGo /\ toGo' = toGo \ {l} /\ at' = "mark" /\ leg' = l
    BY <1>12 DEF Go
  <2> QED BY <2>1 DEF Committed, Marked, Coherent, config
<1>13. CASE Mark
  <2>1. /\ UNCHANGED <<config, toGo, call, want, before, plan, leg>>
        /\ at = "mark" /\ at' = "ready" /\ running' = running \cup {leg}
    BY <1>13 DEF Mark, job
  <2> QED BY <2>1 DEF Committed, Marked, Coherent, config
<1>14. ASSUME NEW l \in Legs, StopLeg(l) PROVE Committed'
  <2>1. /\ UNCHANGED <<config, call, want, before, plan, toGo>>
        /\ at' = "mask" /\ running' = running \ {l}
    BY <1>14 DEF StopLeg
  <2> QED BY <2>1 DEF Committed, Marked, Coherent, config
<1>15. CASE Mask \/ Halt \/ Off \/ Clear
  <2>1. /\ UNCHANGED <<config, running, call, want, before, plan, toGo>>
        /\ at # "mark" /\ at' # "mark"
    BY <1>15 DEF Mask, Halt, Off, Clear, job
  <2> QED BY <2>1 DEF Committed, Marked, Coherent, config
<1>16. ASSUME (\E l \in Legs : GateIrq(l)) \/ (\E l \in Longer \cup {Nobody} : SetPriorities(l))
              \/ Outside \/ UNCHANGED vars
       PROVE  Committed'
  <2>1. UNCHANGED <<config, running>>
    BY <1>16 DEF GateIrq, SetPriorities, Outside, ClockChange, Tick, Isr, vars
  <2>2. UNCHANGED <<job, at, leg>>
    BY <1>16, AsideKeepsJob DEF Configure, vars
  <2> QED BY <2>1, <2>2, CommittedSame DEF config, job
<1> QED BY <1>1, <1>2, <1>3, <1>4, <1>5, <1>6, <1>7, <1>8, <1>9, <1>10, <1>11, <1>12,
           <1>13, <1>14, <1>15, <1>16 DEF Next, Calls, Stores, Configure

-----------------------------------------------------------------------------
(* What a call has started and stopped so far. *)

LEMMA AccountSame ==
  ASSUME Account,
         UNCHANGED <<mode, domain, running, before, want, toGo, toStop, plan, newly,
                     call, failed, at, leg>>
  PROVE  Account'
BY DEF Account, Starting, Undoing, Ending, Marked, Begun, MembersOf

\* Outside a call there is nothing to account for.
LEMMA AccountIdle == ASSUME call' = "none" PROVE Account'
BY DEF Account, Starting, Undoing

\* A call that has just begun to start domains.
LEMMA AccountBegins ==
  ASSUME Shape, Begin("start", want'), UNCHANGED <<toGo, newly>>, mode = "system",
         before' \cap MembersOf(plan') = {},
         before' \cup want' = before' \cup MembersOf(plan')
  PROVE  Account'
<1>1. newly = {} /\ toGo = {} /\ at # "mark"
  BY DEF Shape, Begin, Starting, Idle
<1>2. /\ call' = "start" /\ ~failed' /\ newly' = {} /\ toGo' = {} /\ at' # "mark"
      /\ running' = before' /\ mode' = "system"
  BY <1>1 DEF Begin, config
<1>3. Starting' /\ ~Undoing' /\ Begun' = {} /\ Marked' = {}
  BY <1>2 DEF Starting, Undoing, Begun, MembersOf, Marked
<1>4. MembersOf(plan)' = MembersOf(plan')
  BY DEF MembersOf, Begin, config
<1> QED BY <1>2, <1>3, <1>4 DEF Account

LEMMA AccountStep ==
  ASSUME TypeOK, Shape, Powered, Committed, Account, [Next]_vars PROVE Account'
<1>0. CommitOK /\ LegsOK /\ StageOK /\ WorkOK /\ Primary \in Legs
  BY TypeParts, PrimaryIsLeg
<1>1. CASE InstStart
  <2>1. running = {}
    BY <1>0, <1>1, SingleRuns DEF InstStart
  <2>2. /\ call' = "start" /\ ~failed' /\ toGo' = {Primary} /\ want' = {Primary}
        /\ before' = {} /\ plan' = {} /\ running' = {} /\ mode' = "single"
    BY <1>1, <2>1 DEF InstStart, Begin, Shape, Starting, Idle, hardware, config
  <2>3. Marked' = {}
    BY <1>1 DEF InstStart, Begin, Shape, Starting, Idle, Marked
  <2>4. Starting' /\ ~Undoing' /\ Begun' = {Primary} /\ MembersOf(plan)' = {}
    BY <2>2 DEF Starting, Undoing, Begun, MembersOf
  <2> QED BY <2>2, <2>3, <2>4 DEF Account
<1>2. CASE StartAll
  <2>1. /\ before' = running /\ want' = Legs /\ mode = "system"
        /\ UNCHANGED <<toGo, newly, domain>> /\ Begin("start", want')
    BY <1>2 DEF StartAll, Begin, config
  <2>2. running \cap MembersOf(plan') = {}
    BY <1>2 DEF StartAll, Classify, MembersOf, Members
  <2>3. Legs \subseteq running \cup MembersOf(plan')
    <3>1. SUFFICES ASSUME NEW l \in Legs, l \notin running PROVE l \in MembersOf(plan')
      OBVIOUS
    <3>2. l \in Members(domain[l])
      BY DEF Members
    <3>3. Classify(domain[l]) # "all_running"
      BY <3>1, <3>2 DEF Classify
    <3>4. Classify(domain[l]) = "stopped"
      BY <1>2, <3>3 DEF StartAll
    <3> QED BY <1>2, <3>4 DEF StartAll, MembersOf
  <2>4. running \subseteq Legs /\ MembersOf(plan') \subseteq Legs
    BY <1>0, MembersAreLegs DEF LegsOK
  <2>5. before' \cup want' = before' \cup MembersOf(plan')
    BY <2>1, <2>3, <2>4
  <2>6. before' \cap MembersOf(plan') = {}
    BY <2>1, <2>2
  <2> QED BY <2>1, <2>5, <2>6, AccountBegins
<1>3. ASSUME NEW d \in Domains, StartDomain(d) PROVE Account'
  <2>1. /\ before' = running /\ want' = Members(d) /\ mode = "system" /\ plan' = {d}
        /\ UNCHANGED <<toGo, newly, domain>> /\ Begin("start", want')
    BY <1>3 DEF StartDomain, Begin, config
  <2>2. MembersOf(plan') = Members(d)
    BY <2>1 DEF MembersOf, Members
  <2>3. running \cap Members(d) = {}
    BY <1>3 DEF StartDomain, Classify
  <2>4. before' \cup want' = before' \cup MembersOf(plan')
    BY <2>1, <2>2
  <2>5. before' \cap MembersOf(plan') = {}
    BY <2>1, <2>2, <2>3
  <2> QED BY <2>1, <2>4, <2>5, AccountBegins
<1>4. ASSUME InstStop \/ StopAll \/ (\E d \in Domains : StopDomain(d)) PROVE Account'
  <2>1. /\ call' = "stop" /\ before' = running /\ running' = running /\ toStop' = want'
        /\ UNCHANGED at /\ Idle
    BY <1>4 DEF InstStop, StopAll, StopDomain, Begin
  <2>2. ~Ending
    BY <1>0, <2>1 DEF Shape, Undoing, Idle
  <2> QED BY <2>1, <2>2 DEF Account, Starting, Undoing, Ending
<1>5. CASE NextDomain
  <2>1. mode = "system" /\ call = "start" /\ Quiet /\ Starting
    BY <1>0, <1>5 DEF NextDomain, Committed, CommitOK, Shape, Starting
  <2>2. running = before \cup MembersOf(newly) /\ Marked = {} /\ Begun = MembersOf(newly)
    BY <2>1 DEF Account, Marked, Begun, Quiet
  <2>3. UNCHANGED <<mode, domain, running, before, want, call, at, leg>>
    BY <1>5 DEF NextDomain, config
  <2>4. CASE ready
    <3>1. PICK d \in plan : /\ toGo' = Members(d) /\ plan' = plan \ {d}
                            /\ newly' = newly \cup {d}
      BY <1>0, <1>5, <2>4, MinInPlan DEF NextDomain, WorkOK
    <3>2. /\ \A l \in Members(d) : l \notin before /\ l \notin running
      BY <1>5, <2>1, PlannedAreDown
    <3>3. /\ MembersOf(newly') = MembersOf(newly) \cup Members(d)
          /\ MembersOf(plan) = MembersOf(plan') \cup Members(d)
      BY <3>1 DEF MembersOf, Members
    <3>4. /\ plan \cap newly = {} /\ before \cap MembersOf(plan) = {}
          /\ before \cap MembersOf(newly) = {}
          /\ before \cup want = before \cup MembersOf(newly) \cup MembersOf(plan)
      BY <2>1, <2>2 DEF Account
    <3>5. failed' = failed
      BY <1>5, <2>4 DEF NextDomain
    <3>6. Starting' /\ ~Undoing' /\ call' # "stop"
      BY <2>1, <2>3, <3>5 DEF Starting, Undoing
    <3>7. Marked' = {} /\ Begun' = MembersOf(newly') /\ MembersOf(plan)' = MembersOf(plan')
      BY <2>1, <2>2, <2>3 DEF Marked, Begun, MembersOf
    <3>8. running' = (before' \cup Begun') \ (toGo' \cup Marked')
      BY <2>2, <2>3, <3>1, <3>2, <3>3, <3>7
    <3>9. before' \cap Begun' = {} /\ toGo' \cup Marked' \subseteq Begun'
      BY <2>3, <3>1, <3>2, <3>3, <3>4, <3>7
    <3>10. plan' \cap newly' = {} /\ before' \cap MembersOf(plan)' = {}
      BY <2>3, <3>1, <3>3, <3>4, <3>7
    <3>11. before' \cup want' = before' \cup Begun' \cup MembersOf(plan)'
      BY <2>3, <3>3, <3>4, <3>7
    <3> QED BY <3>6, <3>8, <3>9, <3>10, <3>11 DEF Account
  <2>5. CASE ~ready
    <3>1. failed' /\ toStop' = MembersOf(newly)
      BY <1>5, <2>5 DEF NextDomain, RollBack
    <3>2. before \cap MembersOf(newly) = {}
      BY <2>1, <2>2 DEF Account
    <3>3. ~Starting' /\ call' # "stop" /\ ~Ending'
      BY <2>1, <2>3, <3>1 DEF Starting, Ending, Quiet
    <3> QED BY <2>2, <2>3, <3>1, <3>2, <3>3 DEF Account
  <2> QED BY <2>4, <2>5
<1>6. CASE Return
  BY <1>6, AccountIdle DEF Return
<1>7. ASSUME NEW l \in Legs, Arm(l) PROVE Account'
  BY <1>7, AccountSame DEF Arm, config
<1>8. ASSUME NEW l \in Legs, ArmFails(l) PROVE Account'
  <2>1. at = "ready" /\ Starting /\ l \in toGo /\ l \in toArm
    BY <1>8 DEF ArmFails, Shape, Starting
  <2>2. /\ failed' /\ toStop' = MembersOf(newly) /\ running' = running \ {l}
        /\ UNCHANGED <<mode, domain, before, call, at, leg>>
    BY <1>8 DEF ArmFails, RollBack, config
  <2>3. /\ running = (before \cup Begun) \ toGo /\ before \cap Begun = {}
        /\ toGo \subseteq Begun
    BY <2>1 DEF Account, Marked
  <2>4. before \subseteq running /\ l \notin before /\ l \notin running
    BY <2>1, <2>3
  <2>5. running \ before \subseteq MembersOf(newly)
    <3>1. CASE mode = "single"
      BY <2>1, <2>3, <3>1 DEF Begun
    <3>2. CASE mode # "single"
      BY <2>3, <3>2 DEF Begun
    <3> QED BY <3>1, <3>2
  <2>6. before \cap MembersOf(newly) = {}
    <3>1. CASE mode = "single"
      BY <2>1, <3>1 DEF Committed, Starting
    <3>2. CASE mode # "single"
      BY <2>3, <3>2 DEF Begun
    <3> QED BY <3>1, <3>2
  <2>7. ~Starting' /\ call' # "stop" /\ ~Ending'
    BY <2>1, <2>2 DEF Starting, Ending
  <2> QED BY <2>2, <2>4, <2>5, <2>6, <2>7 DEF Account
<1>9. ASSUME NEW l \in Legs, Go(l) PROVE Account'
  <2>1. Starting /\ Marked = {} /\ at = "ready"
    BY <1>9 DEF Go, Shape, Starting, Marked
  <2>2. /\ UNCHANGED <<mode, domain, running, before, want, toStop, plan, newly, call, failed>>
        /\ l \in toGo /\ toGo' = toGo \ {l} /\ Marked' = {l}
    BY <1>9 DEF Go, config, Marked
  <2>3. toGo' \cup Marked' = toGo \cup Marked
    BY <2>1, <2>2
  <2>4. Begun' = Begun /\ MembersOf(plan)' = MembersOf(plan)
    BY <2>2 DEF Begun, MembersOf
  <2>5. Starting' /\ ~Undoing' /\ call' # "stop"
    BY <2>1, <2>2 DEF Starting, Undoing
  <2> QED BY <2>1, <2>2, <2>3, <2>4, <2>5 DEF Account
<1>10. CASE Mark
  <2>1. Starting /\ Marked = {leg} /\ leg \notin toGo
    BY <1>10 DEF Mark, Shape, Marked, Starting
  <2>2. /\ UNCHANGED <<mode, domain, before, want, toGo, toStop, plan, newly, call, failed>>
        /\ running' = running \cup {leg} /\ Marked' = {}
    BY <1>10 DEF Mark, config, job, Marked
  <2>3. Begun' = Begun /\ MembersOf(plan)' = MembersOf(plan)
    BY <2>2 DEF Begun, MembersOf
  <2>4. Starting' /\ ~Undoing' /\ call' # "stop"
    BY <2>1, <2>2 DEF Starting, Undoing
  <2>5. running' = (before' \cup Begun') \ (toGo' \cup Marked')
    BY <2>1, <2>2, <2>3 DEF Account
  <2> QED BY <2>1, <2>2, <2>3, <2>4, <2>5 DEF Account
<1>11. ASSUME NEW l \in Legs, StopLeg(l) PROVE Account'
  <2>1. ~Starting
    BY <1>11 DEF StopLeg, Shape, Starting, Undoing
  <2>2. /\ UNCHANGED <<before, want, call, failed>>
        /\ l \in toStop /\ toStop' = toStop \ {l} /\ running' = running \ {l} /\ leg' = l
    BY <1>11 DEF StopLeg
  <2>3. ~Starting'
    BY <2>1, <2>2 DEF Starting
  <2>4. CASE Undoing
    BY <2>2, <2>3, <2>4 DEF Account, Undoing
  <2>5. CASE call = "stop"
    BY <2>2, <2>3, <2>5 DEF Account, Undoing
  <2> QED BY <2>1, <2>2, <2>3, <2>4, <2>5 DEF Account, Undoing
<1>12. CASE Mask \/ Halt \/ Off \/ Clear
  <2>1. Ending /\ ~Starting
    BY <1>12 DEF Mask, Halt, Off, Clear, Ending, Shape, Starting, Undoing
  <2>2. UNCHANGED <<before, want, call, failed, running, toStop, leg>>
    BY <1>12 DEF Mask, Halt, Off, Clear, job
  <2> QED BY <2>1, <2>2 DEF Account, Starting, Undoing
<1>13. CASE Configure
  BY <1>13, AccountIdle DEF Configure, ConfigureSystem, InstConfigure, Open, Close,
     SetPriorities, GateIrq, Idle, job
<1>14. CASE Outside \/ UNCHANGED vars
  BY <1>14, AccountSame DEF Outside, ClockChange, Tick, Isr, vars, job, config
<1> QED BY <1>1, <1>2, <1>3, <1>4, <1>5, <1>6, <1>7, <1>8, <1>9, <1>10, <1>11, <1>12,
           <1>13, <1>14 DEF Next, Calls, Stores

-----------------------------------------------------------------------------
(* Whole domains. *)

LEMMA WholesSame ==
  ASSUME Wholes, UNCHANGED <<mode, domain, running, before, want, call>> PROVE Wholes'
BY DEF Wholes, Whole, Idle

\* A call inherits whole domains and is asked for whole domains.
LEMMA WholesBegin ==
  ASSUME Wholes, NEW kind \in {"start", "stop"}, NEW S, Begin(kind, S), Whole(S)
  PROVE  Wholes'
BY DEF Wholes, Whole, Idle, Begin, config

LEMMA WholesStep ==
  ASSUME TypeOK, Shape, Committed, Account, Wholes, [Next]_vars PROVE Wholes'
<1>1. ASSUME NEW t \in Tables, ConfigureSystem(t.stream, t.domain) PROVE Wholes'
  <2>1. running' = {} /\ before' = {} /\ want' = {}
    BY <1>1 DEF ConfigureSystem, Shape, Idle, job
  <2> QED BY <2>1 DEF Wholes, Whole
<1>2. ASSUME (\E s \in Streams : InstConfigure(s)) \/ InstStart \/ InstStop PROVE Wholes'
  <2>1. mode' # "system"
    BY <1>2 DEF InstConfigure, InstStart, InstStop, Begin, config
  <2> QED BY <2>1 DEF Wholes
<1>3. CASE StartAll \/ StopAll
  <2>1. Whole(Legs)
    BY DEF Whole
  <2> QED BY <1>3, <2>1, WholesBegin DEF StartAll, StopAll
<1>4. ASSUME NEW d \in Domains, StartDomain(d) \/ StopDomain(d) PROVE Wholes'
  <2>1. Whole(Members(d))
    BY DEF Whole, Members
  <2> QED BY <1>4, <2>1, WholesBegin DEF StartDomain, StopDomain
<1>5. CASE Return
  <2>1. /\ UNCHANGED <<mode, domain, running>> /\ before' = {} /\ want' = {}
        /\ Quiet /\ plan = {} /\ call # "none"
    BY <1>5 DEF Return, config
  <2>2. ASSUME mode = "system" PROVE Whole(running)
    <3>1. Whole(before) /\ Whole(want)
      BY <2>2 DEF Wholes
    <3>2. CASE call = "stop"
      <4>1. running = before \ want
        BY <2>1, <3>2 DEF Account, Quiet
      <4> QED BY <3>1, <4>1 DEF Whole
    <3>3. CASE Undoing
      <4>1. running = before
        BY <2>1, <3>3 DEF Account, Quiet
      <4> QED BY <3>1, <4>1
    <3>4. CASE Starting
      <4>1. running = before \cup want
        BY <2>1, <3>4 DEF Account, Quiet, Marked, MembersOf
      <4> QED BY <3>1, <4>1 DEF Whole
    <3>5. call \in {"none", "start", "stop"} /\ failed \in BOOLEAN
      BY DEF TypeOK
    <3> QED BY <2>1, <3>2, <3>3, <3>4, <3>5 DEF Starting, Undoing
  <2> QED BY <2>1, <2>2 DEF Wholes, Whole
<1>6. ASSUME NextDomain \/ Mark \/ Mask \/ Halt \/ Off \/ Clear
             \/ \E l \in Legs : Arm(l) \/ ArmFails(l) \/ Go(l) \/ StopLeg(l)
      PROVE  Wholes'
  <2>1. ~Idle
    BY <1>6 DEF NextDomain, Mark, Mask, Halt, Off, Clear, Arm, ArmFails, Go, StopLeg, Idle,
       Shape, Starting, Undoing, Ending
  <2>2. UNCHANGED <<mode, domain, before, want, call>>
    BY <1>6 DEF NextDomain, Mark, Mask, Halt, Off, Clear, Arm, ArmFails, Go, StopLeg,
       config, job
  <2> QED BY <2>1, <2>2 DEF Wholes, Whole, Idle
<1>7. ASSUME Outside \/ UNCHANGED vars \/ Open \/ Close
             \/ (\E l \in Longer \cup {Nobody} : SetPriorities(l))
             \/ (\E l \in Legs : GateIrq(l))
      PROVE  Wholes'
  BY <1>7, WholesSame DEF Outside, ClockChange, Tick, Isr, Open, Close, SetPriorities,
     GateIrq, vars, config, job
<1> QED BY <1>1, <1>2, <1>3, <1>4, <1>5, <1>6, <1>7 DEF Next, Calls, Stores, Configure

-----------------------------------------------------------------------------
(* The status, the priorities. *)

LEMMA OwedStep == ASSUME BlockOK, StageOK, Owed, [Next]_vars PROVE Owed'
<1>1. ASSUME NEW l \in Legs, Arm(l) PROVE Owed'
  BY <1>1 DEF Arm, ArmDma, ClearStatus, BlockOK, Owed
<1>2. ASSUME NEW l \in Legs, ArmFails(l) \/ Isr(l) PROVE Owed'
  BY <1>2 DEF ArmFails, Isr, ClearStatus, BlockOK, Owed
<1>3. CASE Clear
  BY <1>3 DEF Clear, ClearStatus, BlockOK, StageOK, Owed
<1>4. ASSUME NEW d \in Domains, Tick(d) PROVE Owed'
  <2>1. SUFFICES ASSUME NEW l \in Legs
                 PROVE  /\ owed'[l] = 0 => stat'[l] = {}
                        /\ owed'[l] = 1 => stat'[l] = {IF phase'[l] = 1 THEN "HALF" ELSE "DONE"}
                        /\ owed'[l] = 2 => stat'[l] = {"HALF", "DONE"}
    BY DEF Owed
  <2>2. CASE l \notin Listening(d)
    <3>1. phase'[l] = phase[l] /\ stat'[l] = stat[l] /\ owed'[l] = owed[l]
      BY <1>4, <2>2 DEF Tick
    <3> QED BY <3>1 DEF Owed
  <2>3. CASE l \in Listening(d)
    <3>1. /\ phase'[l] = 1 - phase[l]
          /\ stat'[l] = stat[l] \cup {IF phase[l] = 0 THEN "HALF" ELSE "DONE"}
          /\ owed'[l] = IF owed[l] < 2 THEN owed[l] + 1 ELSE owed[l]
      BY <1>4, <2>3 DEF Tick
    <3>2. phase[l] \in 0..1 /\ owed[l] \in 0..2
      BY DEF BlockOK
    <3>3. CASE owed[l] = 0
      BY <3>1, <3>2, <3>3 DEF Owed
    <3>4. CASE owed[l] = 1
      BY <3>1, <3>2, <3>4 DEF Owed
    <3>5. CASE owed[l] = 2
      BY <3>1, <3>2, <3>5 DEF Owed
    <3> QED BY <3>2, <3>3, <3>4, <3>5
  <2> QED BY <2>2, <2>3
<1>5. CASE UNCHANGED <<phase, stat, owed>>
  BY <1>5 DEF Owed
<1>6. ASSUME Next, ~Clear, ~ \E l \in Legs : Arm(l) \/ ArmFails(l) \/ Isr(l),
             ~ \E d \in Domains : Tick(d)
      PROVE  UNCHANGED <<phase, stat, owed>>
  BY <1>6 DEF Next, Configure, ConfigureSystem, InstConfigure, Open, Close, SetPriorities,
     GateIrq, Calls, InstStart, StartAll, InstStop, StopAll, StartDomain, StopDomain,
     NextDomain, Return, Begin, Stores, Go, StopLeg, Mark, Mask, Halt, Off,
     Outside, ClockChange, hardware
<1> QED BY <1>1, <1>2, <1>3, <1>4, <1>5, <1>6 DEF vars, hardware

LEMMA PrioritiesStep ==
  ASSUME LevelOK, LegsOK, PrioritiesInForce, [Next]_vars PROVE PrioritiesInForce'
<1>1. ASSUME NEW l \in Longer \cup {Nobody}, SetPriorities(l) PROVE PrioritiesInForce'
  BY <1>1 DEF SetPriorities, PrioritiesInForce
<1>2. ASSUME NEW l \in Legs, Arm(l) PROVE PrioritiesInForce'
  BY <1>2 DEF Arm, ArmDma, LegPriority, PrioritiesInForce, LevelOK
<1>3. ASSUME NEW l \in Legs, ArmFails(l) PROVE PrioritiesInForce'
  BY <1>3 DEF ArmFails, LegPriority, PrioritiesInForce, LevelOK
<1>4. CASE ie' \subseteq ie /\ UNCHANGED <<prio, ipc>>
  BY <1>4 DEF PrioritiesInForce
<1>5. ASSUME Next,
             ~ \E l \in Longer \cup {Nobody} : SetPriorities(l),
             ~ \E l \in Legs : Arm(l) \/ ArmFails(l)
      PROVE  ie' \subseteq ie /\ UNCHANGED <<prio, ipc>>
  BY <1>5 DEF Next, Configure, ConfigureSystem, InstConfigure, Open, Close, GateIrq,
     Calls, InstStart, StartAll, InstStop, StopAll, StartDomain, StopDomain,
     NextDomain, Return, Begin, Stores, Go, StopLeg, Mark, Mask, Halt, Off,
     Clear, Outside, ClockChange, Tick, Isr, hardware
<1> QED BY <1>1, <1>2, <1>3, <1>4, <1>5 DEF vars, hardware

-----------------------------------------------------------------------------
(* The frame sync generator. *)

LEMMA GeneratorSame ==
  ASSUME Generator,
         UNCHANGED <<stream, spi, clc, running, toArm, toGo, toStop, at, leg>>
  PROVE  Generator'
BY DEF Generator, NeedsClc

\* Nothing runs: nobody holds the generator.
LEMMA GeneratorFree ==
  ASSUME TypeOK, Shape, Powered, Generator, Idle, running = {},
         UNCHANGED <<running, hardware, job, at, leg>>
  PROVE  Generator'
<1>1. spi = {} /\ toGo = {} /\ toStop = {} /\ at = "ready"
  BY DEF TypeOK, Shape, Powered, Idle, Starting, Undoing, Ending
<1>2. clc = Nobody
  BY <1>1 DEF Generator
<1> QED BY <1>1, <1>2 DEF Generator, hardware, job

LEMMA GeneratorStep ==
  ASSUME TypeOK, Shape, Powered, Committed, Account, Generator, [Next]_vars PROVE Generator'
<1>0. StageOK /\ LegsOK /\ CommitOK /\ Primary \in Legs
  BY TypeParts, PrimaryIsLeg
<1>1. ASSUME NEW t \in Tables, ConfigureSystem(t.stream, t.domain) PROVE Generator'
  BY <1>1, GeneratorFree DEF ConfigureSystem
<1>2. ASSUME NEW s \in Streams, InstConfigure(s) PROVE Generator'
  BY <1>0, <1>2, SingleRuns, GeneratorFree DEF InstConfigure
<1>3. ASSUME NEW l \in Legs, Arm(l) PROVE Generator'
  <2>1. /\ NeedsClc(l) => clc \in {Nobody, l}
        /\ clc' = IF NeedsClc(l) THEN l ELSE IF clc = l THEN Nobody ELSE clc
        /\ toArm' = toArm \ {l} /\ l \in toArm
        /\ UNCHANGED <<stream, spi, running, toGo, toStop, at, leg>>
    BY <1>3 DEF Arm, config
  <2>2. l \in toGo /\ l \notin spi /\ l \in Legs /\ l # Nobody
    BY <2>1, PrimaryIsLeg DEF Shape, Powered
  <2>3. \A m : NeedsClc(m)' = NeedsClc(m)
    BY <2>1 DEF NeedsClc
  <2>4. CASE NeedsClc(l)
    <3>1. clc' = l
      BY <2>1, <2>4
    <3>2. \A m \in spi' \cup (toGo' \ toArm') : NeedsClc(m) => clc' = m
      BY <2>1, <2>2, <2>4, <3>1, PrimaryIsLeg DEF Generator, TypeOK
    <3>3. clc' \in toGo' \ toArm' /\ NeedsClc(clc')
      BY <2>1, <2>2, <2>4, <3>1
    <3> QED BY <2>3, <3>2, <3>3 DEF Generator
  <2>5. CASE ~NeedsClc(l)
    <3>1. clc # l
      BY <2>2, <2>5 DEF Generator
    <3>2. clc' = clc
      BY <2>1, <2>5, <3>1
    <3> QED BY <2>1, <2>2, <2>3, <2>5, <3>2 DEF Generator
  <2> QED BY <2>4, <2>5
<1>4. ASSUME NEW l \in Legs, ArmFails(l) PROVE Generator'
  <2>1. at = "ready" /\ Starting /\ l \in toGo /\ l \in toArm
    BY <1>4 DEF ArmFails, Shape, Starting
  <2>2. /\ UNCHANGED <<stream, clc, at, leg>> /\ spi' = spi \ {l} /\ toGo' = {}
        /\ toStop' = MembersOf(newly) /\ running' = running \ {l}
    BY <1>4 DEF ArmFails, config, RollBack
  <2>3. l \notin running /\ toStop = {}
    BY <2>1 DEF Powered, Shape, Starting, Undoing
  <2>4. toGo \ toArm \subseteq MembersOf(newly)
    <3>1. toGo \subseteq Begun
      BY <2>1 DEF Account
    <3>2. CASE mode = "single"
      BY <2>1, <3>1, <3>2 DEF Begun
    <3>3. CASE mode # "single"
      BY <3>1, <3>3 DEF Begun
    <3> QED BY <3>2, <3>3
  <2>5. \A m : NeedsClc(m)' = NeedsClc(m)
    BY <2>2 DEF NeedsClc
  <2>6. clc # Nobody => clc \in running' \cup toStop'
    BY <2>1, <2>2, <2>3, <2>4 DEF Generator
  <2>7. \A m \in spi' : NeedsClc(m) => clc' = m
    BY <2>2 DEF Generator
  <2>8. clc # Nobody => NeedsClc(clc)
    BY DEF Generator
  <2> QED BY <2>2, <2>5, <2>6, <2>7, <2>8 DEF Generator
<1>5. ASSUME NEW l \in Legs, Go(l) PROVE Generator'
  <2>1. /\ UNCHANGED <<stream, clc, running, toStop>> /\ spi' = spi \cup {l}
        /\ toGo' = toGo \ {l} /\ toArm' = {} /\ toArm = {} /\ l \in toGo
        /\ at = "ready" /\ at' = "mark" /\ leg' = l
    BY <1>5 DEF Go, config
  <2> QED BY <2>1 DEF Generator, NeedsClc
<1>6. CASE Mark
  <2>1. /\ UNCHANGED <<stream, clc, spi, toGo, toArm, toStop, leg>>
        /\ at = "mark" /\ at' = "ready" /\ running' = running \cup {leg}
    BY <1>6 DEF Mark, config, hardware, job
  <2> QED BY <2>1 DEF Generator, NeedsClc
<1>7. ASSUME NEW l \in Legs, StopLeg(l) PROVE Generator'
  <2>1. /\ UNCHANGED <<stream, clc, spi, toGo, toArm>> /\ toStop' = toStop \ {l}
        /\ running' = running \ {l} /\ at = "ready" /\ at' = "mask" /\ leg' = l
    BY <1>7 DEF StopLeg, config, hardware
  <2> QED BY <2>1 DEF Generator, NeedsClc
<1>8. CASE Mask \/ Halt
  <2>1. /\ UNCHANGED <<stream, clc, spi, running, toGo, toArm, toStop, leg>>
        /\ at \in {"mask", "halt"} /\ at' \in {"halt", "off"}
    BY <1>8 DEF Mask, Halt, config, job
  <2> QED BY <2>1 DEF Generator, NeedsClc
<1>9. CASE Off
  <2>1. /\ UNCHANGED <<stream, running, toGo, toArm, toStop, leg>>
        /\ spi' = spi \ {leg} /\ at = "off"
        /\ clc' = IF clc = leg THEN Nobody ELSE clc
    BY <1>9 DEF Off, config, job
  <2>2. toGo = {} /\ leg # Nobody
    BY <1>0, <2>1, PrimaryIsLeg DEF Shape, Ending, Starting, Undoing, StageOK
  <2>3. CASE clc = leg
    BY <2>1, <2>2, <2>3 DEF Generator, NeedsClc
  <2>4. CASE clc # leg
    BY <2>1, <2>2, <2>4 DEF Generator, NeedsClc
  <2> QED BY <2>3, <2>4
<1>10. CASE Clear
  <2>1. /\ UNCHANGED <<stream, clc, spi, running, toGo, toArm, toStop, leg>>
        /\ at = "clear" /\ at' = "ready"
    BY <1>10 DEF Clear, config, job
  <2> QED BY <2>1 DEF Generator, NeedsClc
<1>11. ASSUME InstStart \/ StartAll \/ InstStop \/ StopAll
              \/ (\E d \in Domains : StartDomain(d) \/ StopDomain(d))
       PROVE  Generator'
  <2>1. /\ UNCHANGED <<stream, clc, spi, running, at, leg>> /\ Idle
        /\ \/ UNCHANGED <<toArm, toGo>>
           \/ toArm' = toGo'
    BY <1>11 DEF InstStart, StartAll, InstStop, StopAll, StartDomain, StopDomain, Begin,
       config, hardware
  <2>2. toArm = {} /\ toGo = {} /\ toStop = {} /\ at = "ready"
    BY <2>1, <1>0 DEF Shape, Idle, Starting, Undoing, Ending, StageOK
  <2> QED BY <2>1, <2>2 DEF Generator, NeedsClc
<1>12. CASE NextDomain
  <2>1. /\ UNCHANGED <<stream, clc, spi, running, at, leg>>
        /\ toArm = {} /\ toGo = {} /\ toStop = {} /\ at = "ready"
        /\ \/ UNCHANGED <<toArm, toGo>>
           \/ toArm' = toGo'
    BY <1>12 DEF NextDomain, config, hardware, Quiet
  <2> QED BY <2>1 DEF Generator, NeedsClc
<1>13. CASE Return
  <2>1. /\ UNCHANGED <<stream, clc, spi, running, at, toArm, toGo, toStop>>
        /\ at = "ready"
    BY <1>13 DEF Return, config, hardware, Quiet
  <2> QED BY <2>1 DEF Generator, NeedsClc
<1>14. ASSUME Outside \/ UNCHANGED vars \/ Open \/ Close
              \/ (\E l \in Longer \cup {Nobody} : SetPriorities(l))
              \/ (\E l \in Legs : GateIrq(l))
       PROVE  Generator'
  BY <1>14, GeneratorSame DEF Outside, ClockChange, Tick, Isr, Open, Close, SetPriorities,
     GateIrq, vars, config, job, hardware
<1> QED BY <1>1, <1>2, <1>3, <1>4, <1>5, <1>6, <1>7, <1>8, <1>9, <1>10, <1>11, <1>12,
           <1>13, <1>14 DEF Next, Calls, Stores, Configure

-----------------------------------------------------------------------------
(* The blocks of a domain. *)

LEMMA AlignedSame ==
  ASSUME Aligned, UNCHANGED <<stream, domain, dma, spi, phase, toArm, toGo>>
  PROVE  Aligned'
BY DEF Aligned, InStep, Listening, Members, Masters

\* Fewer listeners, none to come.
LEMMA AlignedFewer ==
  ASSUME Aligned, toGo' = {}, dma' \subseteq dma, spi' \subseteq spi,
         UNCHANGED <<stream, domain, phase>>
  PROVE  Aligned'
<1>1. \A d : Listening(d)' \subseteq Listening(d) /\ Masters(d)' = Masters(d)
  BY DEF Listening, Members, Masters
<1>2. InStep'
  BY <1>1 DEF Aligned, InStep
<1> QED BY <1>2 DEF Aligned

LEMMA AlignedSilent ==
  ASSUME spi' = {}, toGo' = toArm',
         \A d \in Domains : Members(d)' \cap toGo' # {} => Masters(d)' \subseteq toGo'
  PROVE  Aligned'
<1>1. \A d : Listening(d)' = {}
  BY DEF Listening
<1> QED BY <1>1 DEF Aligned, InStep

LEMMA SilentWhenDown ==
  ASSUME StageOK, LegsOK, Shape, Powered, Idle, running = {}
  PROVE  spi = {} /\ toGo = {} /\ toArm = {}
BY DEF StageOK, LegsOK, Shape, Powered, Idle, Starting, Undoing, Ending

LEMMA AlignedStep ==
  ASSUME TypeOK, Shape, Powered, Committed, Account, Aligned, [Next]_vars PROVE Aligned'
<1>0. StageOK /\ LegsOK /\ CommitOK /\ BlockOK /\ WorkOK /\ Primary \in Legs
  BY TypeParts, PrimaryIsLeg
<1>1. ASSUME NEW t \in Tables, ConfigureSystem(t.stream, t.domain) PROVE Aligned'
  <2>1. spi' = {} /\ toGo' = {} /\ toArm' = {}
    BY <1>0, <1>1, SilentWhenDown DEF ConfigureSystem, hardware, job
  <2> QED BY <2>1, AlignedSilent
<1>2. ASSUME NEW s \in Streams, InstConfigure(s) PROVE Aligned'
  <2>1. running = {}
    BY <1>0, <1>2, SingleRuns DEF InstConfigure
  <2>2. spi' = {} /\ toGo' = {} /\ toArm' = {}
    BY <1>0, <1>2, <2>1, SilentWhenDown DEF InstConfigure, hardware, job
  <2> QED BY <2>2, AlignedSilent
<1>3. CASE InstStart
  <2>1. running = {}
    BY <1>0, <1>3, SingleRuns DEF InstStart
  <2>2. spi' = {} /\ toGo' = {Primary} /\ toArm' = {Primary}
    BY <1>0, <1>3, <2>1, SilentWhenDown DEF InstStart, Begin, hardware
  <2>3. \A l \in Legs : l # Primary => stream[l].role # "master"
    BY <1>3 DEF InstStart, Committed, NoStream
  <2>4. UNCHANGED <<stream, domain>>
    BY <1>3 DEF InstStart, Begin, config
  <2>5. \A d \in Domains : Masters(d)' \subseteq toGo'
    BY <2>2, <2>3, <2>4 DEF Masters, Members
  <2> QED BY <2>2, <2>5, AlignedSilent
<1>4. CASE NextDomain
  <2>1. CASE ready
    <3>1. PICK d \in plan : toArm' = Members(d) /\ toGo' = Members(d)
      BY <1>0, <1>4, <2>1, MinInPlan DEF NextDomain, WorkOK
    <3>2. UNCHANGED <<stream, domain, dma, spi, phase>> /\ Quiet
      BY <1>4, <2>1 DEF NextDomain, hardware, config
    <3>3. \A l \in Members(d) : l \notin spi
      BY <1>4, PlannedAreDown DEF NextDomain
    <3>4. \A e : /\ Listening(e)' = Listening(e) /\ Masters(e)' = Masters(e)
                 /\ Members(e)' = Members(e) /\ Masters(e) \subseteq Members(e)
                 /\ Members(e) \cap Members(d) # {} => e = d
      BY <3>2 DEF Listening, Masters, Members
    <3>5. Listening(d) = {}
      BY <3>3 DEF Listening
    <3>6. \A e \in Domains : Members(e)' \cap toGo' # {} => Masters(e)' \subseteq toGo'
      BY <3>1, <3>4
    <3>8. \A e \in Domains : Masters(e)' \cap toGo' # {} =>
              \A m \in Listening(e)' : phase'[m] = 0
      BY <3>1, <3>4, <3>5
    <3>7. InStep'
      BY <3>2, <3>4 DEF Aligned, InStep
    <3> QED BY <3>1, <3>6, <3>7, <3>8 DEF Aligned
  <2>2. CASE ~ready
    BY <1>4, <2>2, AlignedSame DEF NextDomain, hardware, config
  <2> QED BY <2>1, <2>2
<1>5. ASSUME NEW l \in Legs, Arm(l) PROVE Aligned'
  <2>1. /\ UNCHANGED <<stream, domain, spi, toGo>> /\ dma' = dma \cup {l}
        /\ phase' = [phase EXCEPT ![l] = 0] /\ toArm' = toArm \ {l} /\ l \in toArm
    BY <1>5 DEF Arm, ArmDma, config
  <2>2. l \notin spi /\ \A m \in toGo : m \notin spi
    BY <2>1 DEF Shape, Powered
  <2>3. \A d : /\ Listening(d)' = Listening(d) /\ Masters(d)' = Masters(d)
               /\ Members(d)' = Members(d) /\ l \notin Listening(d)
    BY <2>1, <2>2 DEF Listening, Masters, Members
  <2>4. \A m \in Legs : m # l => phase'[m] = phase[m]
    BY <1>0, <2>1 DEF BlockOK
  <2>5. phase'[l] = 0
    BY <1>0, <2>1 DEF BlockOK
  <2>6. \A d : \A m \in Listening(d) : phase'[m] = phase[m]
    BY <2>3, <2>4 DEF Listening, Members
  <2>7. \A m \in toGo' \ toArm' : phase'[m] = 0
    BY <1>0, <2>1, <2>4, <2>5 DEF Aligned, WorkOK
  <2>8. InStep'
    BY <2>3, <2>6 DEF Aligned, InStep
  <2>9. \A d \in Domains : Members(d)' \cap toGo' # {} => Masters(d)' \subseteq toGo'
    BY <2>1, <2>3 DEF Aligned
  <2>10. \A d \in Domains : Masters(d)' \cap toGo' # {} =>
             \A m \in Listening(d)' : phase'[m] = 0
    BY <2>1, <2>3, <2>6 DEF Aligned
  <2> QED BY <2>7, <2>8, <2>9, <2>10 DEF Aligned
<1>6. ASSUME NEW l \in Legs, ArmFails(l) PROVE Aligned'
  BY <1>6, AlignedFewer DEF ArmFails, config
<1>7. ASSUME NEW l \in Legs, Go(l) PROVE Aligned'
  <2>1. /\ UNCHANGED <<stream, domain, dma, phase>> /\ spi' = spi \cup {l}
        /\ toArm = {} /\ toArm' = {} /\ l \in toGo /\ toGo' = toGo \ {l}
        /\ stream[l].role = "master" => toGo = {l}
    BY <1>7 DEF Go, config, hardware, MayRelease
  <2>2. \A d : /\ Masters(d)' = Masters(d) /\ Members(d)' = Members(d)
               /\ Listening(d)' \subseteq Listening(d) \cup {l}
    BY <2>1 DEF Listening, Masters, Members
  <2>0. PICK e \in Domains : domain[l] = e
    BY <1>0 DEF CommitOK
  <2>3. \A d : l \in Listening(d)' => d = e
    BY <2>0, <2>1 DEF Listening, Members
  <2>4. phase[l] = 0 /\ Masters(e) \subseteq toGo
    <3>1. l \in Members(e)
      BY <2>0 DEF Members
    <3> QED BY <2>1, <3>1 DEF Aligned
  <2>6. Masters(e) # {} => \A m \in Listening(e)' : phase[m] = 0
    <3>1. Masters(e) # {} => \A m \in Listening(e) : phase[m] = 0
      BY <2>4 DEF Aligned
    <3> QED BY <2>2, <2>4, <3>1
  <2>7. InStep'
    <3>1. SUFFICES ASSUME NEW d \in Domains, Masters(d) # {},
                          NEW k \in Listening(d)', NEW m \in Listening(d)'
                   PROVE  phase[k] = phase[m]
      BY <2>1, <2>2 DEF InStep
    <3>2. CASE d = e
      BY <2>6, <3>1, <3>2
    <3>3. CASE d # e
      <4>1. k \in Listening(d) /\ m \in Listening(d)
        BY <2>2, <2>3, <3>3
      <4> QED BY <3>1, <4>1 DEF Aligned, InStep
    <3> QED BY <3>2, <3>3
  <2>8. \A d \in Domains : Masters(d)' \cap toGo' # {} =>
             \A m \in Listening(d)' : phase'[m] = 0
    <3>1. SUFFICES ASSUME NEW d \in Domains, Masters(d) \cap toGo # {},
                          NEW m \in Listening(d)'
                   PROVE  phase[m] = 0
      BY <2>1, <2>2
    <3>2. CASE d = e
      BY <2>6, <3>1, <3>2
    <3>3. CASE d # e
      <4>1. m \in Listening(d)
        BY <2>2, <2>3, <3>3
      <4> QED BY <3>1, <4>1 DEF Aligned
    <3> QED BY <3>2, <3>3
  <2>9. \A d \in Domains : Members(d)' \cap toGo' # {} => Masters(d)' \subseteq toGo'
    <3>1. CASE stream[l].role = "master"
      BY <2>1, <3>1
    <3>2. CASE stream[l].role # "master"
      <4>1. \A d : l \notin Masters(d)
        BY <3>2 DEF Masters
      <4> QED BY <2>1, <2>2, <4>1 DEF Aligned
    <3> QED BY <3>1, <3>2
  <2>10. \A m \in toGo' \ toArm' : phase'[m] = 0
    BY <2>1 DEF Aligned
  <2> QED BY <2>7, <2>8, <2>9, <2>10 DEF Aligned
<1>8. CASE Halt \/ Off
  <2>1. toGo = {}
    BY <1>8 DEF Halt, Off, Shape, Ending, Starting, Undoing
  <2> QED BY <1>8, <2>1, AlignedFewer DEF Halt, Off, config, job
<1>9. ASSUME Mark \/ Mask \/ Clear \/ StartAll \/ InstStop \/ StopAll \/ Return
             \/ (\E l \in Legs : StopLeg(l))
             \/ (\E d \in Domains : StartDomain(d) \/ StopDomain(d))
      PROVE  Aligned'
  <2>1. UNCHANGED <<stream, domain, dma, spi, phase, toArm, toGo>>
    BY <1>9 DEF Mark, Mask, Clear, StartAll, InstStop, StopAll, Return, StopLeg,
       StartDomain, StopDomain, Begin, config, hardware, job
  <2> QED BY <2>1, AlignedSame
<1>10. ASSUME NEW d \in Domains, Tick(d) PROVE Aligned'
  <2>1. /\ UNCHANGED <<stream, domain, dma, spi, toArm, toGo>> /\ Masters(d) \subseteq spi
        /\ \A l \in Legs : phase'[l] = IF l \in Listening(d) THEN 1 - phase[l] ELSE phase[l]
    BY <1>10 DEF Tick, Clocked, config, job
  <2>2. \A e : /\ Listening(e)' = Listening(e) /\ Masters(e)' = Masters(e)
               /\ Members(e)' = Members(e)
    BY <2>1 DEF Listening, Masters, Members
  <2>3. \A e : \A l \in Listening(e) : l \in Legs /\ (e # d => l \notin Listening(d))
    BY DEF Listening, Members
  <2>4. \A l \in toGo : l \in Legs /\ l \notin Listening(d)
    BY <1>0 DEF Powered, Listening, WorkOK
  <2>5. Masters(d) \cap toGo = {}
    BY <2>1 DEF Powered
  <2>6. InStep'
    <3>1. SUFFICES ASSUME NEW e \in Domains, Masters(e) # {},
                          NEW l \in Listening(e), NEW m \in Listening(e)
                   PROVE  phase'[l] = phase'[m]
      BY <2>2 DEF InStep
    <3>2. phase[l] = phase[m]
      BY <3>1 DEF Aligned, InStep
    <3>3. CASE e = d
      BY <2>1, <2>3, <3>2, <3>3
    <3>4. CASE e # d
      BY <2>1, <2>3, <3>2, <3>4
    <3> QED BY <3>3, <3>4
  <2>7. \A e \in Domains : Masters(e) \cap toGo # {} =>
             \A m \in Listening(e) : phase'[m] = 0
    BY <2>1, <2>3, <2>5 DEF Aligned
  <2>8. \A l \in toGo \ toArm : phase'[l] = 0
    BY <2>1, <2>4 DEF Aligned
  <2> QED BY <2>1, <2>2, <2>6, <2>7, <2>8 DEF Aligned
<1>11. ASSUME ClockChange \/ (\E l \in Legs : Isr(l)) \/ UNCHANGED vars \/ Open \/ Close
              \/ (\E l \in Longer \cup {Nobody} : SetPriorities(l))
              \/ (\E l \in Legs : GateIrq(l))
       PROVE  Aligned'
  BY <1>11, AlignedSame DEF ClockChange, Isr, Open, Close, SetPriorities,
     GateIrq, vars, config, job, hardware
<1> QED BY <1>1, <1>2, <1>3, <1>4, <1>5, <1>6, <1>7, <1>8, <1>9, <1>10, <1>11
        DEF Next, Calls, Stores, Configure, Outside

-----------------------------------------------------------------------------
(* The invariant. *)

LEMMA InitInv == Init => Inv
<1>. SUFFICES ASSUME Init PROVE Inv
  OBVIOUS
<1>1. /\ mode = "none" /\ opened = FALSE /\ ready \in BOOLEAN
      /\ stream = [l \in Legs |-> NoStream] /\ domain = [l \in Legs |-> SeedDomain]
      /\ running = {} /\ ie = {} /\ dma = {} /\ spi = {}
      /\ prio = [l \in Legs |-> "base"] /\ ipc = [l \in Legs |-> "reset"]
      /\ phase = [l \in Legs |-> 0] /\ stat = [l \in Legs |-> {}] /\ owed = phase
      /\ clc = Nobody /\ call = "none" /\ at = "ready" /\ leg = Primary
      /\ toArm = {} /\ toGo = {} /\ toStop = {} /\ plan = {} /\ newly = {}
      /\ failed = FALSE /\ before = {} /\ want = {}
  BY DEF Init
<1>2. CommitOK
  BY <1>1, DomainsAssumption DEF CommitOK
<1>3. LevelOK /\ LegsOK /\ BlockOK /\ WorkOK
  BY <1>1 DEF LevelOK, LegsOK, BlockOK, WorkOK
<1>4. StageOK
  BY <1>1, PrimaryIsLeg DEF StageOK
<1>5. TypeOK
  BY <1>2, <1>3, <1>4, TypeParts
<1>6. Shape /\ Powered
  BY <1>1 DEF Shape, Powered, Starting, Undoing, Ending, Idle
<1>7. Committed
  BY <1>1 DEF Committed, Marked
<1>8. Account /\ Wholes
  BY <1>1 DEF Account, Wholes, Starting, Undoing
<1>9. Aligned
  BY <1>1 DEF Aligned, InStep, Listening
<1>10. Owed /\ PrioritiesInForce
  BY <1>1 DEF Owed, PrioritiesInForce
<1>11. Generator
  BY <1>1 DEF Generator
<1> QED BY <1>5, <1>6, <1>7, <1>8, <1>9, <1>10, <1>11 DEF Inv

\* The strengthening is inductive: no store of a call, no failed arming, no clock
\* that goes, no tick and no interrupt leaves it.
THEOREM TdmInvariant == Spec => []Inv
<1>1. Inv /\ [Next]_vars => Inv'
  <2>. SUFFICES ASSUME Inv, [Next]_vars PROVE Inv'
    OBVIOUS
  <2>1. /\ TypeOK /\ Shape /\ Powered /\ Committed /\ Account /\ Wholes
        /\ Aligned /\ Owed /\ Generator /\ PrioritiesInForce
    BY DEF Inv
  <2>2. CommitOK /\ LevelOK /\ LegsOK /\ BlockOK /\ StageOK /\ WorkOK
    BY <2>1, TypeParts
  <2>3. TypeOK' /\ Shape' /\ Powered' /\ Committed'
    BY <2>1, <2>2, TypeStep, ShapeStep, PoweredStep, CommittedStep
  <2>4. Account' /\ Wholes' /\ Aligned'
    BY <2>1, AccountStep, WholesStep, AlignedStep
  <2>5. Owed' /\ Generator' /\ PrioritiesInForce'
    BY <2>1, <2>2, OwedStep, GeneratorStep, PrioritiesStep
  <2> QED BY <2>3, <2>4, <2>5 DEF Inv
<1> QED BY <1>1, InitInv, PTL DEF Spec

\* The variables keep their types.
THEOREM TdmTypes == Spec => []TypeOK
<1>1. Inv => TypeOK
  BY DEF Inv
<1> QED BY <1>1, TdmInvariant, PTL

\* A domain of a coherent, configured table that runs wholly or not at all is
\* never classified as invalid or partial.
LEMMA Classified ==
  ASSUME Coherent(stream, domain), \A l \in Legs : stream[l] # NoStream, Whole(running),
         NEW d, Members(d) # {}
  PROVE  Classify(d) \in {"stopped", "all_running"}
<1>1. ~ \E l \in Members(d) : stream[l] = NoStream
  BY DEF Members
<1>2. ~ \E l, m \in Members(d) : l # m /\ {l, m} \subseteq Masters(d)
  BY DEF Members, Masters, Coherent
<1>3. ~ \E l, m \in Members(d) : stream[l].frame # stream[m].frame
  BY DEF Members, Coherent
<1>4. Members(d) \cap running # {} => Members(d) \subseteq running
  BY DEF Members, Whole
<1> QED BY <1>1, <1>2, <1>3, <1>4 DEF Classify

\* Between calls no leg is half up and no domain is half running: the "partial"
\* and "invalid" rejections of a start never happen.
THEOREM TdmAtRest == Spec => []AtRest
<1>1. Inv => AtRest
  <2>. SUFFICES ASSUME Inv, Idle PROVE AtRest
    BY DEF AtRest
  <2>1. /\ TypeOK /\ Shape /\ Powered /\ Committed /\ Wholes
    BY DEF Inv
  <2>2. toGo = {} /\ toStop = {} /\ at = "ready"
    BY <2>1 DEF TypeOK, Shape, Idle, Starting, Undoing, Ending
  <2>3. running = dma /\ running = spi /\ ie \subseteq running
    BY <2>1, <2>2 DEF Powered
  <2>4. \A l \in running : opened /\ stream[l] # NoStream
    BY <2>1 DEF Committed
  <2>5. ASSUME mode = "system", NEW l \in Legs
        PROVE  Classify(domain[l]) \in {"stopped", "all_running"}
    <3>1. Members(domain[l]) # {}
      BY DEF Members
    <3> QED BY <2>1, <2>5, <3>1, Classified DEF Committed, Wholes
  <2> QED BY <2>3, <2>4, <2>5 DEF AtRest
<1> QED BY <1>1, TdmInvariant, PTL

\* Two legs of a domain that one of them clocks work on the same half, from the
\* release of the first slave on.
THEOREM TdmInStep == Spec => []InStep
<1>1. Inv => InStep
  BY DEF Inv, Aligned
<1> QED BY <1>1, TdmInvariant, PTL

\* The receive status counts the blocks owed and names the half that was left.
THEOREM TdmHalvesAgree == Spec => []HalvesAgree
<1>1. Inv => HalvesAgree
  <2>. SUFFICES ASSUME Inv, NEW l \in Legs, stat[l] # {}
                PROVE  (Late(l) <=> owed[l] > 1) /\ (~Late(l) => SrcHalf(l) = FillHalf(l))
    BY DEF HalvesAgree, Inv, TypeOK
  <2>1. phase[l] \in 0..1 /\ owed[l] \in 0..2
    BY DEF Inv, TypeOK
  <2>2. owed[l] # 0
    BY DEF Inv, Owed
  <2>3. CASE owed[l] = 1
    <3>1. stat[l] = {IF phase[l] = 1 THEN "HALF" ELSE "DONE"}
      BY <2>3 DEF Inv, Owed
    <3>2. CASE phase[l] = 1
      BY <2>3, <3>1, <3>2 DEF Late, SrcHalf, FillHalf
    <3>3. CASE phase[l] = 0
      BY <2>3, <3>1, <3>3 DEF Late, SrcHalf, FillHalf
    <3> QED BY <2>1, <3>2, <3>3
  <2>4. CASE owed[l] = 2
    <3>1. stat[l] = {"HALF", "DONE"}
      BY <2>4 DEF Inv, Owed
    <3> QED BY <2>4, <3>1 DEF Late
  <2> QED BY <2>1, <2>2, <2>3, <2>4
<1> QED BY <1>1, TdmInvariant, PTL

\* CLC10 belongs to the leg whose frame sync it makes for as long as that leg's
\* module is on, and between calls to no leg that does not run.
THEOREM TdmClcOwned == Spec => []ClcOwned
<1>1. Inv => ClcOwned
  <2>. SUFFICES ASSUME Inv PROVE ClcOwned
    OBVIOUS
  <2>1. \A l \in spi : NeedsClc(l) => clc = l
    BY DEF Inv, Generator
  <2>2. ASSUME Idle, clc # Nobody PROVE clc \in running /\ NeedsClc(clc)
    <3>1. toGo = {} /\ toStop = {} /\ at = "ready"
      BY <2>2 DEF Inv, TypeOK, Shape, Idle, Starting, Undoing, Ending
    <3> QED BY <2>2, <3>1 DEF Inv, Generator
  <2> QED BY <2>1, <2>2 DEF ClcOwned
<1> QED BY <1>1, TdmInvariant, PTL

\* An enabled block interrupt has the priority recorded on its leg, across every
\* start and restart.
THEOREM TdmPriorities == Spec => []PrioritiesInForce
<1>1. Inv => PrioritiesInForce
  BY DEF Inv
<1> QED BY <1>1, TdmInvariant, PTL

\* A start adds exactly what it was asked for or nothing, a stop removes exactly
\* what it was asked for.
THEOREM TdmAtomic == Spec => CallsAreAtomic
<1>1. Inv /\ [Next]_vars =>
        [call # "none" /\ call' = "none" =>
           running' = IF call = "stop" THEN before \ want
                      ELSE IF failed THEN before ELSE before \cup want]_vars
  <2>. SUFFICES ASSUME Inv, Next, call # "none", call' = "none"
                PROVE  running' = IF call = "stop" THEN before \ want
                                  ELSE IF failed THEN before ELSE before \cup want
    OBVIOUS
  <2>1. Return
    BY DEF Next, Configure, ConfigureSystem, InstConfigure, Open, Close, SetPriorities,
       GateIrq, Calls, InstStart, StartAll, InstStop, StopAll, StartDomain, StopDomain,
       NextDomain, Begin, Stores, Arm, ArmFails, Go, StopLeg, Mark, Mask, Halt, Off, Clear,
       Outside, ClockChange, Tick, Isr, Idle, job
  <2>2. Quiet /\ plan = {} /\ running' = running /\ Account /\ StageOK
    BY <2>1, TypeParts DEF Return, Inv
  <2>3. CASE call = "stop"
    BY <2>2, <2>3 DEF Account, Quiet
  <2>4. CASE Undoing
    BY <2>2, <2>4 DEF Account, Quiet, Undoing
  <2>5. CASE Starting
    BY <2>2, <2>5 DEF Account, Quiet, Starting, Marked, MembersOf
  <2> QED BY <2>2, <2>3, <2>4, <2>5 DEF Starting, Undoing, StageOK
<1> QED BY <1>1, TdmInvariant, PTL DEF Spec, CallsAreAtomic

\* No store of a starting call, of its rollback or of its teardown reaches a leg
\* that ran when the call began.
THEOREM TdmUndisturbed == Spec => Undisturbed
<1>1. Inv /\ Inv' /\ [Next]_vars =>
        [call = "start" => /\ before \subseteq running' \cap spi' \cap dma'
                           /\ before \cap ie' = before \cap ie]_vars
  <2>. SUFFICES ASSUME Inv, Inv', Next, call = "start"
                PROVE  /\ before \subseteq running' \cap spi' \cap dma'
                       /\ before \cap ie' = before \cap ie
    OBVIOUS
  <2>1. /\ TypeOK /\ Shape /\ Powered /\ Committed /\ Account /\ ~Idle
        /\ call \in {"none", "start", "stop"} /\ failed \in BOOLEAN
    BY DEF Inv, TypeOK, Idle
  <2>2. before \subseteq running
    BY <2>1 DEF Account, Starting, Undoing
  <2>3. running' \subseteq spi' \cap dma'
    BY DEF Inv, Powered
  <2>4. ASSUME NEW l \in Legs, Arm(l) \/ ArmFails(l)
        PROVE  l \notin before
    <3>1. Starting /\ l \in toGo
      BY <2>4 DEF Arm, ArmFails, Inv, Shape, Starting
    <3> QED BY <2>1, <3>1 DEF Account
  <2>5. ASSUME NEW l \in Legs, StopLeg(l) PROVE l \notin before
    <3>1. Undoing /\ l \in toStop
      BY <2>1, <2>5 DEF StopLeg, Shape, Undoing
    <3> QED BY <2>1, <3>1 DEF Account
  <2>6. ASSUME Mask PROVE leg \notin before
    <3>1. Undoing /\ Ending
      BY <2>1, <2>6 DEF Mask, Shape, Undoing, Ending
    <3> QED BY <2>1, <3>1 DEF Account
  <2>7. before \subseteq running' /\ before \cap ie' = before \cap ie
    <3>1. ASSUME NEW l \in Legs, Arm(l) \/ ArmFails(l)
          PROVE  before \subseteq running' /\ before \cap ie' = before \cap ie
      <4>1. l \notin before
        BY <2>4, <3>1
      <4>2. CASE Arm(l)
        BY <2>2, <4>1, <4>2 DEF Arm, ArmDma
      <4>3. CASE ArmFails(l)
        BY <2>2, <4>1, <4>3 DEF ArmFails
      <4> QED BY <3>1, <4>2, <4>3
    <3>2. ASSUME NEW l \in Legs, StopLeg(l)
          PROVE  before \subseteq running' /\ before \cap ie' = before \cap ie
      BY <2>2, <2>5, <3>2 DEF StopLeg, hardware
    <3>3. CASE Mask
      BY <2>2, <2>6, <3>3 DEF Mask
    <3>4. CASE running \subseteq running' /\ ie' = ie
      BY <2>2, <3>4
    <3>5. ASSUME ~Mask, ~ \E l \in Legs : Arm(l) \/ ArmFails(l) \/ StopLeg(l)
          PROVE  running \subseteq running' /\ ie' = ie
      BY <2>1, <3>5 DEF Next, Configure, ConfigureSystem, InstConfigure, Open, Close,
         SetPriorities, GateIrq, Calls, InstStart, StartAll, InstStop, StopAll, StartDomain,
         StopDomain, NextDomain, Return, Begin, Stores, Go, Mark, Halt, Off, Clear,
         Outside, ClockChange, Tick, Isr, hardware
    <3> QED BY <3>1, <3>2, <3>3, <3>4, <3>5
  <2> QED BY <2>3, <2>7
<1> QED BY <1>1, TdmInvariant, PTL DEF Spec, Undisturbed
=============================================================================
