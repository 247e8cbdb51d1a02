---------------------------- MODULE PwmAudioProofs ----------------------------
(***************************************************************************)
(* Safety of the PWM output, for every FIFO, every half and any number of  *)
(* commands and failures: what the stage does at each step of a start and  *)
(* a stop, and the block FIFO as a queue.                                   *)
(***************************************************************************)
EXTENDS PwmAudio, TLAPS

-----------------------------------------------------------------------------
(* A ring of n slots with one slot free (module SlotRing).                 *)

\* Indices wrap within the ring.
LEMMA NextSlotInRing ==
    ASSUME NEW n \in Nat \ {0}, NEW i \in 0..(n - 1)
    PROVE  NextSlot(i, n) \in 0..(n - 1)
BY DEF NextSlot

\* A ring never holds n items, and holds none exactly if the indices meet.
LEMMA LevelInRing ==
    ASSUME NEW n \in Nat \ {0}, NEW h \in 0..(n - 1), NEW t \in 0..(n - 1)
    PROVE  /\ Level(h, t, n) \in 0..(n - 1)
           /\ Level(h, t, n) = 0 <=> h = t
BY DEF Level

\* Filling one slot raises the level, unless the ring was full; a ring whose
\* next slot is the tail holds n - 1 items.
LEMMA LevelAfterPut ==
    ASSUME NEW n \in Nat \ {0}, NEW h \in 0..(n - 1), NEW t \in 0..(n - 1)
    PROVE  /\ NextSlot(h, n) # t
                => Level(NextSlot(h, n), t, n) = Level(h, t, n) + 1
           /\ NextSlot(h, n) = t <=> Level(h, t, n) = n - 1
BY DEF Level, NextSlot

LEMMA LevelAfterGet ==
    ASSUME NEW n \in Nat \ {0}, NEW h \in 0..(n - 1), NEW t \in 0..(n - 1), h # t
    PROVE  Level(h, NextSlot(t, n), n) = Level(h, t, n) - 1
BY DEF Level, NextSlot

\* The filled slots lie in the ring, and the head's is not one of them.
LEMMA SlotAtInRing ==
    ASSUME NEW n \in Nat \ {0}, NEW h \in 0..(n - 1), NEW t \in 0..(n - 1),
           NEW k \in 1..Level(h, t, n)
    PROVE  /\ SlotAt(t, k - 1, n) \in 0..(n - 1)
           /\ SlotAt(t, k - 1, n) # h
BY DEF SlotAt, Level

LEMMA SlotAtLevel ==
    ASSUME NEW n \in Nat \ {0}, NEW h \in 0..(n - 1), NEW t \in 0..(n - 1)
    PROVE  SlotAt(t, Level(h, t, n), n) = h
BY DEF SlotAt, Level

\* What a ring holds is a sequence of its items.
LEMMA ContentsType ==
    ASSUME NEW n \in Nat \ {0}, NEW h \in 0..(n - 1), NEW t \in 0..(n - 1),
           NEW S, NEW f \in [0..(n - 1) -> S]
    PROVE  /\ Contents(f, h, t, n) \in Seq(S)
           /\ Len(Contents(f, h, t, n)) = Level(h, t, n)
<1>1. Level(h, t, n) \in Nat
  BY LevelInRing
<1>2. \A k \in 1..Level(h, t, n) : f[SlotAt(t, k - 1, n)] \in S
  BY SlotAtInRing
<1>. QED BY <1>1, <1>2 DEF Contents

\* Writing the free slot does not touch what the ring holds.
LEMMA ContentsAfterFill ==
    ASSUME NEW n \in Nat \ {0}, NEW h \in 0..(n - 1), NEW t \in 0..(n - 1),
           NEW S, NEW f \in [0..(n - 1) -> S], NEW x
    PROVE  Contents([f EXCEPT ![h] = x], h, t, n) = Contents(f, h, t, n)
<1>1. \A k \in 1..Level(h, t, n) :
          [f EXCEPT ![h] = x][SlotAt(t, k - 1, n)] = f[SlotAt(t, k - 1, n)]
  BY SlotAtInRing
<1>. QED BY <1>1 DEF Contents

\* Publishing the slot appends it.
LEMMA ContentsAfterPut ==
    ASSUME NEW n \in Nat \ {0}, NEW h \in 0..(n - 1), NEW t \in 0..(n - 1),
           NEW S, NEW f \in [0..(n - 1) -> S], NextSlot(h, n) # t
    PROVE  Contents(f, NextSlot(h, n), t, n) = Append(Contents(f, h, t, n), f[h])
<1>. DEFINE c == Contents(f, h, t, n)
            d == Contents(f, NextSlot(h, n), t, n)
            l == Level(h, t, n)
<1>1. l \in Nat /\ Level(NextSlot(h, n), t, n) = l + 1
  BY LevelInRing, LevelAfterPut
<1>2. c \in Seq(S) /\ Len(c) = l /\ f[h] \in S
  BY ContentsType
<1>3. Append(c, f[h]) = [k \in 1..(l + 1) |-> IF k = l + 1 THEN f[h] ELSE c[k]]
  BY <1>1, <1>2
<1>4. d = [k \in 1..(l + 1) |-> f[SlotAt(t, k - 1, n)]]
  BY <1>1 DEF Contents
<1>5. \A k \in 1..l : c[k] = f[SlotAt(t, k - 1, n)]
  BY DEF Contents
<1>6. f[SlotAt(t, (l + 1) - 1, n)] = f[h]
  BY <1>1, SlotAtLevel
<1>7. \A k \in 1..(l + 1) : f[SlotAt(t, k - 1, n)] = IF k = l + 1 THEN f[h] ELSE c[k]
  <2>. TAKE k \in 1..(l + 1)
  <2>1. CASE k = l + 1
    BY <2>1, <1>6
  <2>2. CASE k # l + 1
    BY <2>2, <1>1, <1>5
  <2>. QED BY <2>1, <2>2
<1>. HIDE DEF c, d, l
<1>. QED BY <1>3, <1>4, <1>7, SMTT(30)

\* Giving back the tail's slot removes the oldest item.
LEMMA ContentsAfterGet ==
    ASSUME NEW n \in Nat \ {0}, NEW h \in 0..(n - 1), NEW t \in 0..(n - 1),
           NEW S, NEW f \in [0..(n - 1) -> S], h # t
    PROVE  /\ Contents(f, h, t, n) # <<>>
           /\ Head(Contents(f, h, t, n)) = f[t]
           /\ Contents(f, h, NextSlot(t, n), n) = Tail(Contents(f, h, t, n))
<1>. DEFINE c == Contents(f, h, t, n)
            d == Contents(f, h, NextSlot(t, n), n)
            l == Level(h, t, n)
<1>1. l \in Nat \ {0} /\ Level(h, NextSlot(t, n), n) = l - 1
  BY LevelInRing, LevelAfterGet, SMTT(30)
<1>2. c \in Seq(S) /\ Len(c) = l
  BY ContentsType
<1>3. \A k \in 1..l : c[k] = f[SlotAt(t, k - 1, n)]
  BY DEF Contents
<1>4. c # <<>> /\ Head(c) = f[t]
  <2>1. c # <<>> /\ Head(c) = c[1] /\ 1 \in 1..l
    BY <1>1, <1>2
  <2>2. SlotAt(t, 1 - 1, n) = t
    BY DEF SlotAt
  <2>. QED BY <2>1, <2>2, <1>3
<1>5. Tail(c) = [k \in 1..(l - 1) |-> c[k + 1]]
  BY <1>1, <1>2, SMTT(30)
<1>6. d = [k \in 1..(l - 1) |-> f[SlotAt(NextSlot(t, n), k - 1, n)]]
  BY <1>1 DEF Contents
<1>7. \A k \in 1..(l - 1) : f[SlotAt(NextSlot(t, n), k - 1, n)] = c[k + 1]
  <2>. TAKE k \in 1..(l - 1)
  <2>1. k + 1 \in 1..l
    BY <1>1
  <2>2. SlotAt(NextSlot(t, n), k - 1, n) = SlotAt(t, (k + 1) - 1, n)
    BY <1>1 DEF SlotAt, NextSlot, Level
  <2>. QED BY <2>1, <2>2, <1>3
<1>. HIDE DEF c, d, l
<1>8. d = Tail(c)
  BY <1>5, <1>6, <1>7, SMTT(30)
<1>. QED BY <1>4, <1>8 DEF c, d

\* A ring whose indices meet holds nothing.
LEMMA ContentsEmpty ==
    ASSUME NEW n \in Nat \ {0}, NEW h \in 0..(n - 1), NEW f
    PROVE  Contents(f, h, h, n) = <<>>
<1>1. Level(h, h, n) = 0
  BY DEF Level
<1>. QED BY <1>1 DEF Contents

-----------------------------------------------------------------------------
(* The inductive invariant.                                                *)


AsleepAt == {"init", "start", "startBoard", "clock", "run", "hr", "check1",
             "wake"}
HeldLowAt == {"hr", "check1", "wake", "nfault", "check2", "release"}
PoweredAt == {"nfault", "check2", "release", "check3", "baseline", "check4",
              "running"}
TestedAt == {"release", "check3", "baseline", "check4", "running"}

\* Who owns the generator, the DMA channel and the run flag.
Owned ==
    /\ running => fg \in {"idle", "serviced"}
    /\ ~initialized => fg \in {"idle", "init", "serviced"} /\ ~awake /\ ~dmaOn
    /\ fg \in {"clock", "run", "hr", "check1", "wake", "fail"} \cup PoweredAt => hwUp
    /\ fg \in {"stopForce", "stopSleep", "stopDma"} => initialized
    /\ dmaOn => hwUp \/ fg \in {"stopForce", "stopSleep", "stopDma"}

\* Before the stage is woken: asleep, held low, and first of all not fed.
Asleep ==
    /\ fg \in AsleepAt => ~awake
    /\ fg \in {"init", "start", "startBoard", "clock", "run"} => ~dmaOn
    /\ fg \in {"start", "startBoard", "clock", "run"} => ~torn
    /\ fg \in HeldLowAt => forced = "low"
    /\ fg \in {"hr", "check1", "wake"} /\ fault = {} => dmaOn
    /\ fg = "wake" /\ fault # {} => ~dmaOn

\* From then on: on, unless an emergency stop came in between.
Powered ==
    /\ fg \in PoweredAt => IF fault = {} THEN awake /\ dmaOn ELSE ~dmaOn
    /\ fg \in TestedAt /\ fault # {} => ~awake
    /\ fg \in {"check3", "baseline", "check4", "running"} /\ fault = {}
        => forced = "none"
    /\ fg \in {"check4", "running"} /\ fault = {} => released

\* Between commands, and at the end of a stop.
Settled ==
    /\ fg = "stopDma" => ~awake
    /\ fg \in {"idle", "serviced"} =>
           /\ ~running \/ fault # {} => ~awake /\ ~dmaOn
           /\ running /\ fault = {} => Live

Stage == Owned /\ Asleep /\ Powered /\ Settled /\ NeverDrivenFaulted

\* The flag that the DMA raises as it enters the half that is refilled.
Entering == IF offset = 0 THEN "done" ELSE "half"

\* A refill overrun by the DMA shows in where the DMA is, or in its flags.
Overrun ==
    /\ torn /\ isr = "idle" => stat = {"half", "done"}
    /\ isr = "window" => ~torn
    /\ isr = "copy" /\ ~torn => CopyWindow(offset, FALSE)
    /\ torn /\ isr \in {"copy", "recheck"} =>
           \/ Entering \in stat /\ (pos < Half <=> offset = 0)
           \/ stat = {"half", "done"}

\* A block is being written, or being copied, only where the ring allows it.
Fifo ==
    /\ wr = "filled" => NextSlot(head, FifoBlocks) # tail
    /\ block # NoBlock => /\ isr = "copy"
                          /\ head # tail
                          /\ block = fifo[tail]

Inv == TypeOK /\ Stage /\ Overrun /\ Fifo

USE DEF core, board, stage, isrs, hist, bounds

\* Every step keeps the types.
LEMMA TypeStep == TypeOK /\ [Next]_vars => TypeOK'
<1>. SUFFICES ASSUME TypeOK, [Next]_vars PROVE TypeOK'
  OBVIOUS
<1>. USE FifoAssumption, PrimeAssumption, HalfAssumption, BlocksAssumption,
       BoundsAssumption DEF TypeOK, CoreOK, StageOK, ActorsOK, FgLabels,
       Categories
<1>0. 0 \in 0..(FifoBlocks - 1) /\ 0 \in 0..(2 * Half - 1)
  OBVIOUS
<1>1. CASE CommandInit
  <2>1. CoreOK'
    BY <1>1 DEF CommandInit, InForeground
  <2>2. StageOK'
    BY <1>1, ZenonT(60) DEF CommandInit, InForeground
  <2>3. ActorsOK'
    BY <1>1 DEF CommandInit, InForeground
  <2>4. (fg \in FgLabels)'
    BY <1>1 DEF CommandInit, InForeground
  <2>. QED BY <2>1, <2>2, <2>3, <2>4
<1>2. CASE CommandStop
  <2>1. CoreOK'
    BY <1>2 DEF CommandStop, InForeground
  <2>2. StageOK'
    BY <1>2, ZenonT(60) DEF CommandStop, InForeground
  <2>3. ActorsOK'
    BY <1>2 DEF CommandStop, InForeground
  <2>4. (fg \in FgLabels)'
    BY <1>2 DEF CommandStop, InForeground
  <2>. QED BY <2>1, <2>2, <2>3, <2>4
<1>3. CASE CoreInit
  <2>1. CoreOK'
    <3>1. CASE initialized'
      BY <1>3, <1>0, <3>1 DEF CoreInit
    <3>2. CASE ~(initialized')
      BY <1>3, <1>0, <3>2 DEF CoreInit
    <3>. QED BY <3>1, <3>2
  <2>2. StageOK'
    BY <1>3 DEF CoreInit, InForeground
  <2>3. ActorsOK'
    BY <1>3 DEF CoreInit, InForeground
  <2>4. (fg \in FgLabels)'
    BY <1>3 DEF CoreInit, InForeground
  <2>. QED BY <2>1, <2>2, <2>3, <2>4
<1>4. CASE CoreStart
  <2>1. CoreOK'
    <3>1. CASE fault = {}
      BY <1>4, <1>0, <3>1 DEF CoreStart
    <3>2. CASE ~(fault = {})
      BY <1>4, <1>0, <3>2 DEF CoreStart
    <3>. QED BY <3>1, <3>2
  <2>2. StageOK'
    BY <1>4 DEF CoreStart, InForeground
  <2>3. ActorsOK'
    BY <1>4 DEF CoreStart, InForeground
  <2>4. (fg \in FgLabels)'
    BY <1>4 DEF CoreStart, InForeground
  <2>. QED BY <2>1, <2>2, <2>3, <2>4
<1>5. CASE StartBoard
  <2>1. CoreOK'
    BY <1>5 DEF StartBoard, InForeground
  <2>2. StageOK'
    BY <1>5 DEF StartBoard, InForeground
  <2>3. ActorsOK'
    BY <1>5 DEF StartBoard, InForeground
  <2>4. (fg \in FgLabels)'
    BY <1>5 DEF StartBoard, InForeground
  <2>. QED BY <2>1, <2>2, <2>3, <2>4
<1>6. CASE Pass("clock", health # "unclocked", "run")
  <2>1. CoreOK'
    BY <1>6 DEF Pass, InForeground
  <2>2. StageOK'
    BY <1>6 DEF Pass, InForeground
  <2>3. ActorsOK'
    BY <1>6 DEF Pass, InForeground
  <2>4. (fg \in FgLabels)'
    BY <1>6 DEF Pass, InForeground
  <2>. QED BY <2>1, <2>2, <2>3, <2>4
<1>7. CASE Fail("clock", health = "unclocked", "clock", "stop")
  <2>1. CoreOK'
    BY <1>7 DEF Fail, InForeground, EmergencySafe, CoreFault, OutsideFault
  <2>2. StageOK'
    BY <1>7 DEF Fail, InForeground, EmergencySafe, CoreFault, OutsideFault
  <2>3. ActorsOK'
    BY <1>7 DEF Fail, InForeground, EmergencySafe, CoreFault, OutsideFault
  <2>4. (fg \in FgLabels)'
    BY <1>7 DEF Fail, InForeground, EmergencySafe, CoreFault, OutsideFault
  <2>. QED BY <2>1, <2>2, <2>3, <2>4
<1>8. CASE StartRun
  <2>1. CoreOK'
    BY <1>8 DEF StartRun, InForeground
  <2>2. StageOK'
    <3>1. CASE fg' = "hr"
      BY <1>8, <1>0, <3>1 DEF StartRun
    <3>2. CASE ~(fg' = "hr")
      BY <1>8, <1>0, <3>2 DEF StartRun
    <3>. QED BY <3>1, <3>2
  <2>3. ActorsOK'
    BY <1>8 DEF StartRun, InForeground
  <2>4. (fg \in FgLabels)'
    BY <1>8 DEF StartRun, InForeground
  <2>. QED BY <2>1, <2>2, <2>3, <2>4
<1>9. CASE Pass("hr", health # "unclocked", "check1")
  <2>1. CoreOK'
    BY <1>9 DEF Pass, InForeground
  <2>2. StageOK'
    BY <1>9 DEF Pass, InForeground
  <2>3. ActorsOK'
    BY <1>9 DEF Pass, InForeground
  <2>4. (fg \in FgLabels)'
    BY <1>9 DEF Pass, InForeground
  <2>. QED BY <2>1, <2>2, <2>3, <2>4
<1>10. CASE Fail("hr", health = "unclocked", "clock", "fail")
  <2>1. CoreOK'
    BY <1>10 DEF Fail, InForeground, EmergencySafe, CoreFault, OutsideFault
  <2>2. StageOK'
    BY <1>10 DEF Fail, InForeground, EmergencySafe, CoreFault, OutsideFault
  <2>3. ActorsOK'
    BY <1>10 DEF Fail, InForeground, EmergencySafe, CoreFault, OutsideFault
  <2>4. (fg \in FgLabels)'
    BY <1>10 DEF Fail, InForeground, EmergencySafe, CoreFault, OutsideFault
  <2>. QED BY <2>1, <2>2, <2>3, <2>4
<1>11. CASE FaultTest("check1", "wake", "fail")
  <2>1. CoreOK'
    BY <1>11 DEF FaultTest, InForeground
  <2>2. StageOK'
    BY <1>11 DEF FaultTest, InForeground
  <2>3. ActorsOK'
    BY <1>11 DEF FaultTest, InForeground
  <2>4. (fg \in FgLabels)'
    BY <1>11 DEF FaultTest, InForeground
  <2>. QED BY <2>1, <2>2, <2>3, <2>4
<1>12. CASE StartWake
  <2>1. CoreOK'
    BY <1>12 DEF StartWake, InForeground
  <2>2. StageOK'
    BY <1>12 DEF StartWake, InForeground
  <2>3. ActorsOK'
    BY <1>12 DEF StartWake, InForeground
  <2>4. (fg \in FgLabels)'
    BY <1>12 DEF StartWake, InForeground
  <2>. QED BY <2>1, <2>2, <2>3, <2>4
<1>13. CASE Pass("nfault", ~StageFault, "check2")
  <2>1. CoreOK'
    BY <1>13 DEF Pass, InForeground
  <2>2. StageOK'
    BY <1>13 DEF Pass, InForeground
  <2>3. ActorsOK'
    BY <1>13 DEF Pass, InForeground
  <2>4. (fg \in FgLabels)'
    BY <1>13 DEF Pass, InForeground
  <2>. QED BY <2>1, <2>2, <2>3, <2>4
<1>14. CASE Fail("nfault", StageFault, "stage", "fail")
  <2>1. CoreOK'
    BY <1>14 DEF Fail, InForeground, EmergencySafe, CoreFault, OutsideFault
  <2>2. StageOK'
    BY <1>14 DEF Fail, InForeground, EmergencySafe, CoreFault, OutsideFault
  <2>3. ActorsOK'
    BY <1>14 DEF Fail, InForeground, EmergencySafe, CoreFault, OutsideFault
  <2>4. (fg \in FgLabels)'
    BY <1>14 DEF Fail, InForeground, EmergencySafe, CoreFault, OutsideFault
  <2>. QED BY <2>1, <2>2, <2>3, <2>4
<1>15. CASE FaultTest("check2", "release", "fail")
  <2>1. CoreOK'
    BY <1>15 DEF FaultTest, InForeground
  <2>2. StageOK'
    BY <1>15 DEF FaultTest, InForeground
  <2>3. ActorsOK'
    BY <1>15 DEF FaultTest, InForeground
  <2>4. (fg \in FgLabels)'
    BY <1>15 DEF FaultTest, InForeground
  <2>. QED BY <2>1, <2>2, <2>3, <2>4
<1>16. CASE StartRelease
  <2>1. CoreOK'
    BY <1>16 DEF StartRelease, InForeground
  <2>2. StageOK'
    BY <1>16 DEF StartRelease, InForeground
  <2>3. ActorsOK'
    BY <1>16 DEF StartRelease, InForeground
  <2>4. (fg \in FgLabels)'
    BY <1>16 DEF StartRelease, InForeground
  <2>. QED BY <2>1, <2>2, <2>3, <2>4
<1>17. CASE FaultTest("check3", "baseline", "fail")
  <2>1. CoreOK'
    BY <1>17 DEF FaultTest, InForeground
  <2>2. StageOK'
    BY <1>17 DEF FaultTest, InForeground
  <2>3. ActorsOK'
    BY <1>17 DEF FaultTest, InForeground
  <2>4. (fg \in FgLabels)'
    BY <1>17 DEF FaultTest, InForeground
  <2>. QED BY <2>1, <2>2, <2>3, <2>4
<1>18. CASE StartBaseline
  <2>1. CoreOK'
    BY <1>18 DEF StartBaseline, InForeground
  <2>2. StageOK'
    BY <1>18 DEF StartBaseline, InForeground
  <2>3. ActorsOK'
    BY <1>18 DEF StartBaseline, InForeground
  <2>4. (fg \in FgLabels)'
    BY <1>18 DEF StartBaseline, InForeground
  <2>. QED BY <2>1, <2>2, <2>3, <2>4
<1>19. CASE FaultTest("check4", "running", "stop")
  <2>1. CoreOK'
    BY <1>19 DEF FaultTest, InForeground
  <2>2. StageOK'
    BY <1>19 DEF FaultTest, InForeground
  <2>3. ActorsOK'
    BY <1>19 DEF FaultTest, InForeground
  <2>4. (fg \in FgLabels)'
    BY <1>19 DEF FaultTest, InForeground
  <2>. QED BY <2>1, <2>2, <2>3, <2>4
<1>20. CASE StartRunning
  <2>1. CoreOK'
    BY <1>20 DEF StartRunning, InForeground
  <2>2. StageOK'
    BY <1>20 DEF StartRunning, InForeground
  <2>3. ActorsOK'
    BY <1>20 DEF StartRunning, InForeground
  <2>4. (fg \in FgLabels)'
    BY <1>20 DEF StartRunning, InForeground
  <2>. QED BY <2>1, <2>2, <2>3, <2>4
<1>21. CASE StartFail
  <2>1. CoreOK'
    BY <1>21 DEF StartFail, InForeground, EmergencySafe
  <2>2. StageOK'
    BY <1>21 DEF StartFail, InForeground, EmergencySafe
  <2>3. ActorsOK'
    BY <1>21 DEF StartFail, InForeground, EmergencySafe
  <2>4. (fg \in FgLabels)'
    BY <1>21 DEF StartFail, InForeground, EmergencySafe
  <2>. QED BY <2>1, <2>2, <2>3, <2>4
<1>22. CASE Stop
  <2>1. CoreOK'
    BY <1>22 DEF Stop, InForeground, Back
  <2>2. StageOK'
    BY <1>22 DEF Stop, InForeground, Back
  <2>3. ActorsOK'
    BY <1>22 DEF Stop, InForeground, Back
  <2>4. (fg \in FgLabels)'
    BY <1>22 DEF Stop, InForeground, Back
  <2>. QED BY <2>1, <2>2, <2>3, <2>4
<1>23. CASE StopForce
  <2>1. CoreOK'
    BY <1>23 DEF StopForce, InForeground
  <2>2. StageOK'
    BY <1>23 DEF StopForce, InForeground
  <2>3. ActorsOK'
    BY <1>23 DEF StopForce, InForeground
  <2>4. (fg \in FgLabels)'
    BY <1>23 DEF StopForce, InForeground
  <2>. QED BY <2>1, <2>2, <2>3, <2>4
<1>24. CASE StopSleep
  <2>1. CoreOK'
    BY <1>24 DEF StopSleep, InForeground
  <2>2. StageOK'
    BY <1>24 DEF StopSleep, InForeground
  <2>3. ActorsOK'
    BY <1>24 DEF StopSleep, InForeground
  <2>4. (fg \in FgLabels)'
    BY <1>24 DEF StopSleep, InForeground
  <2>. QED BY <2>1, <2>2, <2>3, <2>4
<1>25. CASE StopDma
  <2>1. CoreOK'
    BY <1>25 DEF StopDma, InForeground, Back
  <2>2. StageOK'
    BY <1>25 DEF StopDma, InForeground, Back
  <2>3. ActorsOK'
    BY <1>25 DEF StopDma, InForeground, Back
  <2>4. (fg \in FgLabels)'
    BY <1>25 DEF StopDma, InForeground, Back
  <2>. QED BY <2>1, <2>2, <2>3, <2>4
<1>26. CASE Serviced
  <2>1. CoreOK'
    BY <1>26 DEF Serviced, InForeground
  <2>2. StageOK'
    BY <1>26 DEF Serviced, InForeground
  <2>3. ActorsOK'
    BY <1>26 DEF Serviced, InForeground
  <2>4. (fg \in FgLabels)'
    BY <1>26 DEF Serviced, InForeground
  <2>. QED BY <2>1, <2>2, <2>3, <2>4
<1>27. CASE WriteFill
  <2>1. CoreOK'
    BY <1>27 DEF WriteFill, CanWrite, Fill, OutsideWrite
  <2>2. StageOK'
    BY <1>27 DEF WriteFill, CanWrite, Fill, OutsideWrite
  <2>3. ActorsOK'
    BY <1>27 DEF WriteFill, CanWrite, Fill, OutsideWrite
  <2>4. (fg \in FgLabels)'
    BY <1>27 DEF WriteFill, CanWrite, Fill, OutsideWrite
  <2>. QED BY <2>1, <2>2, <2>3, <2>4
<1>28. CASE WritePublish
  <2>1. CoreOK'
    <3>1. NextSlot(head, FifoBlocks) \in 0..(FifoBlocks - 1)
      BY NextSlotInRing, SMTT(30)
    <3>. QED BY <1>28, <3>1 DEF WritePublish, Publish, OutsideWrite
  <2>2. StageOK'
    BY <1>28 DEF WritePublish, Publish, OutsideWrite
  <2>3. ActorsOK'
    BY <1>28 DEF WritePublish, Publish, OutsideWrite
  <2>4. (fg \in FgLabels)'
    BY <1>28 DEF WritePublish, Publish, OutsideWrite
  <2>. QED BY <2>1, <2>2, <2>3, <2>4
<1>29. CASE WriteNested
  <2>1. CoreOK'
    BY <1>29, NextSlotInRing DEF WriteNested, CanWrite, Fill, Publish,
         OutsideWrite
  <2>2. StageOK'
    BY <1>29, NextSlotInRing DEF WriteNested, CanWrite, Fill, Publish,
         OutsideWrite
  <2>3. ActorsOK'
    BY <1>29, NextSlotInRing DEF WriteNested, CanWrite, Fill, Publish,
         OutsideWrite
  <2>4. (fg \in FgLabels)'
    BY <1>29, NextSlotInRing DEF WriteNested, CanWrite, Fill, Publish,
         OutsideWrite
  <2>. QED BY <2>1, <2>2, <2>3, <2>4
<1>30. CASE IsrEnter
  <2>1. CoreOK'
    BY <1>30 DEF IsrEnter, IsrFault, EmergencySafe, CoreFault, OutsideFault
  <2>2. StageOK'
    BY <1>30 DEF IsrEnter, IsrFault, EmergencySafe, CoreFault, OutsideFault
  <2>3. ActorsOK'
    BY <1>30 DEF IsrEnter, IsrFault, EmergencySafe, CoreFault, OutsideFault
  <2>4. (fg \in FgLabels)'
    BY <1>30 DEF IsrEnter, IsrFault, EmergencySafe, CoreFault, OutsideFault
  <2>. QED BY <2>1, <2>2, <2>3, <2>4
<1>31. CASE IsrTake
  <2>1. CoreOK'
    <3>1. primed' \in BOOLEAN
      <4>1. CASE running /\ primed
        BY <1>31, <4>1 DEF IsrTake
      <4>2. CASE running /\ ~primed
        BY <1>31, <4>2 DEF IsrTake
      <4>3. CASE ~running
        BY <1>31, <4>3 DEF IsrTake
      <4>. QED BY <4>1, <4>2, <4>3
    <3>. QED BY <1>31, <3>1 DEF IsrTake
  <2>2. StageOK'
    BY <1>31 DEF IsrTake
  <2>3. ActorsOK'
    BY <1>31 DEF IsrTake
  <2>4. (fg \in FgLabels)'
    BY <1>31 DEF IsrTake
  <2>. QED BY <2>1, <2>2, <2>3, <2>4
<1>32. CASE IsrGiveUp
  <2>1. CoreOK'
    BY <1>32 DEF IsrGiveUp, IsrFault, EmergencySafe, CoreFault, OutsideFault
  <2>2. StageOK'
    BY <1>32 DEF IsrGiveUp, IsrFault, EmergencySafe, CoreFault, OutsideFault
  <2>3. ActorsOK'
    BY <1>32 DEF IsrGiveUp, IsrFault, EmergencySafe, CoreFault, OutsideFault
  <2>4. (fg \in FgLabels)'
    BY <1>32 DEF IsrGiveUp, IsrFault, EmergencySafe, CoreFault, OutsideFault
  <2>. QED BY <2>1, <2>2, <2>3, <2>4
<1>33. CASE IsrRelease
  <2>1. CoreOK'
    <3>1. tail' \in 0..(FifoBlocks - 1)
      BY <1>33, NextSlotInRing, SMTT(30) DEF IsrRelease
    <3>2. UNCHANGED <<initialized, running, primed, fault, head, fifo>>
      BY <1>33 DEF IsrRelease
    <3>. QED BY <3>1, <3>2
  <2>2. StageOK'
    <3>1. UNCHANGED <<board, stage>>
      BY <1>33 DEF IsrRelease
    <3>. QED BY <3>1
  <2>3. ActorsOK'
    BY <1>33, NextSlotInRing, SMTT(30) DEF IsrRelease
  <2>4. (fg \in FgLabels)'
    BY <1>33, NextSlotInRing DEF IsrRelease
  <2>. QED BY <2>1, <2>2, <2>3, <2>4
<1>34. CASE IsrRecheck
  <2>1. CoreOK'
    BY <1>34 DEF IsrRecheck, IsrFault, EmergencySafe, CoreFault, OutsideFault
  <2>2. StageOK'
    <3>1. CASE UNCHANGED <<board, stage>>
      BY <3>1
    <3>2. CASE IsrFault /\ UNCHANGED <<moved, stat>>
      BY <3>2 DEF IsrFault, EmergencySafe, CoreFault, OutsideFault
    <3>. QED BY <1>34, <3>1, <3>2 DEF IsrRecheck
  <2>3. ActorsOK'
    BY <1>34 DEF IsrRecheck, IsrFault, EmergencySafe, CoreFault, OutsideFault
  <2>4. (fg \in FgLabels)'
    BY <1>34 DEF IsrRecheck, IsrFault, EmergencySafe, CoreFault, OutsideFault
  <2>. QED BY <2>1, <2>2, <2>3, <2>4
<1>35. CASE DmaMoves
  <2>1. CoreOK'
    BY <1>35, NextSlotInRing DEF DmaMoves
  <2>2. StageOK'
    BY <1>35, NextSlotInRing DEF DmaMoves
  <2>3. ActorsOK'
    BY <1>35, NextSlotInRing DEF DmaMoves
  <2>4. (fg \in FgLabels)'
    BY <1>35, NextSlotInRing DEF DmaMoves
  <2>. QED BY <2>1, <2>2, <2>3, <2>4
<1>36. CASE Breaks
  <2>1. CoreOK'
    BY <1>36 DEF Breaks
  <2>2. StageOK'
    BY <1>36 DEF Breaks
  <2>3. ActorsOK'
    BY <1>36 DEF Breaks
  <2>4. (fg \in FgLabels)'
    BY <1>36 DEF Breaks
  <2>. QED BY <2>1, <2>2, <2>3, <2>4
<1>37. CASE Mends
  <2>1. CoreOK'
    BY <1>37 DEF Mends
  <2>2. StageOK'
    BY <1>37 DEF Mends
  <2>3. ActorsOK'
    BY <1>37 DEF Mends
  <2>4. (fg \in FgLabels)'
    BY <1>37 DEF Mends
  <2>. QED BY <2>1, <2>2, <2>3, <2>4
<1>38. ASSUME NEW late \in BOOLEAN, Service(late) PROVE TypeOK'
  <2>1. CoreOK'
    BY <1>38 DEF Service, InForeground, EmergencySafe, CoreFault
  <2>2. StageOK'
    BY <1>38 DEF Service, InForeground, EmergencySafe, CoreFault
  <2>3. ActorsOK'
    BY <1>38 DEF Service, InForeground, EmergencySafe, CoreFault
  <2>4. (fg \in FgLabels)'
    BY <1>38 DEF Service, InForeground, EmergencySafe, CoreFault
  <2>. QED BY <2>1, <2>2, <2>3, <2>4
<1>39. CASE UNCHANGED vars
  BY <1>39 DEF vars
<1>. QED
  BY <1>1, <1>2, <1>3, <1>4, <1>5, <1>6, <1>7, <1>8, <1>9, <1>10,
     <1>11, <1>12, <1>13, <1>14, <1>15, <1>16, <1>17, <1>18, <1>19, <1>20,
     <1>21, <1>22, <1>23, <1>24, <1>25, <1>26, <1>27, <1>28, <1>29, <1>30,
     <1>31, <1>32, <1>33, <1>34, <1>35, <1>36, <1>37, <1>38, <1>39
  DEF Next, MainLoop, Foreground, StartClock, StartHr, StartNFault, Write, Isr

\* Every step keeps the stage under control.
LEMMA StageStep == TypeOK /\ Stage /\ [Next]_vars => Stage'
<1>. SUFFICES ASSUME TypeOK, Stage, [Next]_vars PROVE Stage'
  OBVIOUS
<1>. USE DEF Stage, Owned, Asleep, Powered, Settled, NeverDrivenFaulted, Live,
       AsleepAt, HeldLowAt, PoweredAt, TestedAt
<1>0. back \in {"idle", "init", "again"}
  BY DEF TypeOK, ActorsOK
<1>1. CASE CommandInit
  BY <1>1 DEF CommandInit, InForeground
<1>2. CASE CommandStop
  BY <1>2 DEF CommandStop, InForeground
<1>3. CASE CoreInit
  BY <1>3 DEF CoreInit, InForeground
<1>4. CASE CoreStart
  BY <1>4 DEF CoreStart, InForeground
<1>5. CASE StartBoard
  BY <1>5 DEF StartBoard, InForeground
<1>6. CASE Pass("clock", health # "unclocked", "run")
  BY <1>6 DEF Pass, InForeground
<1>7. CASE Fail("clock", health = "unclocked", "clock", "stop")
  BY <1>7 DEF Fail, InForeground, EmergencySafe, CoreFault, OutsideFault
<1>8. CASE StartRun
  BY <1>8 DEF StartRun, InForeground
<1>9. CASE Pass("hr", health # "unclocked", "check1")
  BY <1>9 DEF Pass, InForeground
<1>10. CASE Fail("hr", health = "unclocked", "clock", "fail")
  BY <1>10 DEF Fail, InForeground, EmergencySafe, CoreFault, OutsideFault
<1>11. CASE FaultTest("check1", "wake", "fail")
  BY <1>11 DEF FaultTest, InForeground
<1>12. CASE StartWake
  BY <1>12 DEF StartWake, InForeground
<1>13. CASE Pass("nfault", ~StageFault, "check2")
  BY <1>13 DEF Pass, InForeground
<1>14. CASE Fail("nfault", StageFault, "stage", "fail")
  BY <1>14 DEF Fail, InForeground, EmergencySafe, CoreFault, OutsideFault
<1>15. CASE FaultTest("check2", "release", "fail")
  BY <1>15 DEF FaultTest, InForeground
<1>16. CASE StartRelease
  BY <1>16 DEF StartRelease, InForeground
<1>17. CASE FaultTest("check3", "baseline", "fail")
  BY <1>17 DEF FaultTest, InForeground
<1>18. CASE StartBaseline
  BY <1>18 DEF StartBaseline, InForeground
<1>19. CASE FaultTest("check4", "running", "stop")
  BY <1>19 DEF FaultTest, InForeground
<1>20. CASE StartRunning
  BY <1>20 DEF StartRunning, InForeground
<1>21. CASE StartFail
  BY <1>21 DEF StartFail, InForeground, EmergencySafe
<1>22. CASE Stop
  BY <1>22, <1>0 DEF Stop, InForeground, Back
<1>23. CASE StopForce
  BY <1>23 DEF StopForce, InForeground
<1>24. CASE StopSleep
  BY <1>24 DEF StopSleep, InForeground
<1>25. CASE StopDma
  BY <1>25, <1>0 DEF StopDma, InForeground, Back
<1>26. CASE Serviced
  BY <1>26 DEF Serviced, InForeground
<1>27. CASE WriteFill
  BY <1>27 DEF WriteFill, CanWrite, Fill, OutsideWrite
<1>28. CASE WritePublish
  BY <1>28 DEF WritePublish, Publish, OutsideWrite
<1>29. CASE WriteNested
  BY <1>29 DEF WriteNested, CanWrite, Fill, Publish, OutsideWrite
<1>30. CASE IsrEnter
  BY <1>30 DEF IsrEnter, IsrFault, EmergencySafe, CoreFault, OutsideFault
<1>31. CASE IsrTake
  BY <1>31 DEF IsrTake
<1>32. CASE IsrGiveUp
  BY <1>32 DEF IsrGiveUp, IsrFault, EmergencySafe, CoreFault, OutsideFault
<1>33. CASE IsrRelease
  BY <1>33 DEF IsrRelease
<1>34. CASE IsrRecheck
  <2>1. CASE CopyWindow(offset, FALSE)
    <3>1. UNCHANGED <<initialized, running, fault, hwUp, released, awake, forced,
                      dmaOn, torn>> /\ fg' = fg
      BY <1>34, <2>1 DEF IsrRecheck
    <3>. QED BY <3>1
  <2>2. CASE ~CopyWindow(offset, FALSE)
    BY <1>34, <2>2 DEF IsrRecheck, IsrFault, EmergencySafe, CoreFault, OutsideFault
  <2>. QED BY <2>1, <2>2
<1>35. CASE DmaMoves
  BY <1>35 DEF DmaMoves
<1>36. CASE Breaks
  BY <1>36 DEF Breaks
<1>37. CASE Mends
  BY <1>37 DEF Mends
<1>38. ASSUME NEW late \in BOOLEAN, Service(late) PROVE Stage'
  <2>. fg = "idle" /\ fg' = "serviced"
    BY <1>38 DEF Service, InForeground
  <2>1. CASE ~released
    <3>1. UNCHANGED <<initialized, running, fault, hwUp, released, awake, forced,
                      dmaOn, torn>>
      BY <1>38, <2>1 DEF Service
    <3>. QED BY <3>1
  <2>2. CASE released /\ EmergencySafe /\ fault' # {}
    BY <1>38, <2>2 DEF Service, InForeground, EmergencySafe, CoreFault
  <2>3. CASE released /\ UNCHANGED <<released, awake, forced, dmaOn, running, fault, torn>>
    <3>1. UNCHANGED <<initialized, running, fault, hwUp, released, awake, forced,
                      dmaOn, torn>>
      BY <1>38, <2>3 DEF Service
    <3>. QED BY <3>1
  <2>. QED BY <1>38, <2>1, <2>2, <2>3 DEF Service, CoreFault
<1>39. CASE UNCHANGED vars
  BY <1>39 DEF vars
<1>. QED
  BY <1>1, <1>2, <1>3, <1>4, <1>5, <1>6, <1>7, <1>8, <1>9, <1>10,
     <1>11, <1>12, <1>13, <1>14, <1>15, <1>16, <1>17, <1>18, <1>19, <1>20,
     <1>21, <1>22, <1>23, <1>24, <1>25, <1>26, <1>27, <1>28, <1>29, <1>30,
     <1>31, <1>32, <1>33, <1>34, <1>35, <1>36, <1>37, <1>38, <1>39
  DEF Next, MainLoop, Foreground, StartClock, StartHr, StartNFault, Write, Isr

\* Every step keeps an overrun refill visible.
LEMMA OverrunStep == TypeOK /\ Stage /\ Overrun /\ [Next]_vars => Overrun'
<1>. SUFFICES ASSUME TypeOK, Stage, Overrun, [Next]_vars PROVE Overrun'
  OBVIOUS
<1>. USE DEF Overrun, Entering, CopyWindow
<1>1. CASE CommandInit
  BY <1>1 DEF CommandInit, InForeground
<1>2. CASE CommandStop
  BY <1>2 DEF CommandStop, InForeground
<1>3. CASE CoreInit
  BY <1>3 DEF CoreInit, InForeground
<1>4. CASE CoreStart
  BY <1>4 DEF CoreStart, InForeground
<1>5. CASE StartBoard
  BY <1>5 DEF StartBoard, InForeground
<1>6. CASE Pass("clock", health # "unclocked", "run")
  BY <1>6 DEF Pass, InForeground
<1>7. CASE Fail("clock", health = "unclocked", "clock", "stop")
  BY <1>7 DEF Fail, InForeground, EmergencySafe, CoreFault, OutsideFault
<1>8. CASE StartRun
  BY <1>8 DEF StartRun, InForeground, Stage, Asleep
<1>9. CASE Pass("hr", health # "unclocked", "check1")
  BY <1>9 DEF Pass, InForeground
<1>10. CASE Fail("hr", health = "unclocked", "clock", "fail")
  BY <1>10 DEF Fail, InForeground, EmergencySafe, CoreFault, OutsideFault
<1>11. CASE FaultTest("check1", "wake", "fail")
  BY <1>11 DEF FaultTest, InForeground
<1>12. CASE StartWake
  BY <1>12 DEF StartWake, InForeground
<1>13. CASE Pass("nfault", ~StageFault, "check2")
  BY <1>13 DEF Pass, InForeground
<1>14. CASE Fail("nfault", StageFault, "stage", "fail")
  BY <1>14 DEF Fail, InForeground, EmergencySafe, CoreFault, OutsideFault
<1>15. CASE FaultTest("check2", "release", "fail")
  BY <1>15 DEF FaultTest, InForeground
<1>16. CASE StartRelease
  BY <1>16 DEF StartRelease, InForeground
<1>17. CASE FaultTest("check3", "baseline", "fail")
  BY <1>17 DEF FaultTest, InForeground
<1>18. CASE StartBaseline
  BY <1>18 DEF StartBaseline, InForeground
<1>19. CASE FaultTest("check4", "running", "stop")
  BY <1>19 DEF FaultTest, InForeground
<1>20. CASE StartRunning
  BY <1>20 DEF StartRunning, InForeground
<1>21. CASE StartFail
  BY <1>21 DEF StartFail, InForeground, EmergencySafe
<1>22. CASE Stop
  BY <1>22 DEF Stop, InForeground, Back
<1>23. CASE StopForce
  BY <1>23 DEF StopForce, InForeground
<1>24. CASE StopSleep
  BY <1>24 DEF StopSleep, InForeground
<1>25. CASE StopDma
  BY <1>25 DEF StopDma, InForeground, Back
<1>26. CASE Serviced
  BY <1>26 DEF Serviced, InForeground
<1>27. CASE WriteFill
  BY <1>27 DEF WriteFill, CanWrite, Fill, OutsideWrite
<1>28. CASE WritePublish
  BY <1>28 DEF WritePublish, Publish, OutsideWrite
<1>29. CASE WriteNested
  BY <1>29 DEF WriteNested, CanWrite, Fill, Publish, OutsideWrite
<1>30. CASE IsrEnter
  BY <1>30 DEF IsrEnter, IsrFault, EmergencySafe, CoreFault, OutsideFault
<1>31. CASE IsrTake
  BY <1>31 DEF IsrTake
<1>32. CASE IsrGiveUp
  BY <1>32 DEF IsrGiveUp, IsrFault, EmergencySafe, CoreFault, OutsideFault
<1>33. CASE IsrRelease
  BY <1>33 DEF IsrRelease
<1>34. CASE IsrRecheck
  BY <1>34 DEF IsrRecheck, IsrFault, EmergencySafe, CoreFault, OutsideFault
<1>35. CASE DmaMoves
  <2>. USE HalfAssumption DEF TypeOK, StageOK, ActorsOK
  <2>1. NextSlot(pos, 2 * Half) \in 0..(2 * Half - 1)
    BY DEF NextSlot
  <2>2. /\ pos' = NextSlot(pos, 2 * Half) /\ UNCHANGED <<isr, offset>>
        /\ stat \subseteq stat' /\ stat' \subseteq {"half", "done"}
        /\ pos' = Half => "half" \in stat'
        /\ pos' = 0 => "done" \in stat'
        /\ torn' => torn \/ (isr = "copy" /\ (pos' < Half) = (offset = 0))
    BY <1>35, <2>1 DEF DmaMoves
  <2>3. CASE isr \in {"idle", "window"}
    BY <2>2, <2>3
  <2>4. CASE isr \in {"copy", "recheck"} /\ torn' /\ torn
    <3>1. CASE stat = {"half", "done"}
      BY <2>2, <2>4, <3>1
    <3>2. CASE offset = 0 /\ "done" \in stat /\ pos < Half
      <4>1. pos' < Half \/ pos' = Half
        BY <2>2, <3>2 DEF NextSlot
      <4>. QED BY <2>2, <2>4, <3>2, <4>1
    <3>3. CASE offset # 0 /\ "half" \in stat /\ pos >= Half
      <4>1. (pos' >= Half /\ ~(pos' < Half)) \/ pos' = 0
        BY <2>2, <3>3 DEF NextSlot
      <4>. QED BY <2>2, <2>4, <3>3, <4>1
    <3>. QED BY <2>4, <3>1, <3>2, <3>3
  <2>5. CASE isr \in {"copy", "recheck"} /\ torn' /\ ~torn
    <3>1. isr = "copy" /\ (pos < Half) # (offset = 0)
      BY <2>2, <2>5
    <3>2. CASE offset = 0
      <4>1. pos' = 0
        BY <2>2, <2>5, <3>1, <3>2 DEF NextSlot
      <4>. QED BY <2>2, <2>5, <3>2, <4>1
    <3>3. CASE ~(offset = 0)
      <4>1. pos' = Half
        BY <2>2, <2>5, <3>1, <3>3 DEF NextSlot
      <4>. QED BY <2>2, <2>5, <3>3, <4>1
    <3>. HIDE DEF Overrun, Entering, CopyWindow
    <3>. QED BY <3>2, <3>3
  <2>6. CASE isr \in {"copy", "recheck"} /\ ~torn'
    <3>1. CASE isr = "recheck"
      BY <2>2, <2>6, <3>1
    <3>2. CASE isr = "copy"
      <4>1. ~torn /\ ~((pos' < Half) = (offset = 0))
        BY <1>35, <2>6, <3>2 DEF DmaMoves
      <4>. QED BY <2>2, <2>6, <3>2, <4>1
    <3>. HIDE DEF Overrun
    <3>. QED BY <2>6, <3>1, <3>2
  <2>7. isr \in {"idle", "window", "copy", "recheck"} /\ torn \in BOOLEAN
    BY DEF TypeOK, ActorsOK
  <2>. HIDE DEF Overrun
  <2>. QED BY <2>3, <2>4, <2>5, <2>6, <2>7
<1>36. CASE Breaks
  BY <1>36 DEF Breaks
<1>37. CASE Mends
  BY <1>37 DEF Mends
<1>38. ASSUME NEW late \in BOOLEAN, Service(late) PROVE Overrun'
  <2>1. CASE torn' = FALSE
    BY <1>38, <2>1 DEF Service, InForeground
  <2>2. CASE torn' = torn
    BY <1>38, <2>2 DEF Service, InForeground
  <2>. QED BY <1>38, <2>1, <2>2 DEF Service, CoreFault
<1>39. CASE UNCHANGED vars
  BY <1>39 DEF vars
<1>. QED
  BY <1>1, <1>2, <1>3, <1>4, <1>5, <1>6, <1>7, <1>8, <1>9, <1>10,
     <1>11, <1>12, <1>13, <1>14, <1>15, <1>16, <1>17, <1>18, <1>19, <1>20,
     <1>21, <1>22, <1>23, <1>24, <1>25, <1>26, <1>27, <1>28, <1>29, <1>30,
     <1>31, <1>32, <1>33, <1>34, <1>35, <1>36, <1>37, <1>38, <1>39
  DEF Next, MainLoop, Foreground, StartClock, StartHr, StartNFault, Write, Isr

\* Every step keeps the ring's two ends apart.
LEMMA FifoStep == TypeOK /\ Fifo /\ [Next]_vars => Fifo'
<1>. SUFFICES ASSUME TypeOK, Fifo, [Next]_vars PROVE Fifo'
  OBVIOUS
<1>. USE DEF Fifo
<1>1. CASE CommandInit
  BY <1>1 DEF CommandInit, InForeground
<1>2. CASE CommandStop
  BY <1>2 DEF CommandStop, InForeground
<1>3. CASE CoreInit
  BY <1>3 DEF CoreInit, InForeground
<1>4. CASE CoreStart
  BY <1>4 DEF CoreStart, InForeground
<1>5. CASE StartBoard
  BY <1>5 DEF StartBoard, InForeground
<1>6. CASE Pass("clock", health # "unclocked", "run")
  BY <1>6 DEF Pass, InForeground
<1>7. CASE Fail("clock", health = "unclocked", "clock", "stop")
  BY <1>7 DEF Fail, InForeground, EmergencySafe, CoreFault, OutsideFault
<1>8. CASE StartRun
  BY <1>8 DEF StartRun, InForeground
<1>9. CASE Pass("hr", health # "unclocked", "check1")
  BY <1>9 DEF Pass, InForeground
<1>10. CASE Fail("hr", health = "unclocked", "clock", "fail")
  BY <1>10 DEF Fail, InForeground, EmergencySafe, CoreFault, OutsideFault
<1>11. CASE FaultTest("check1", "wake", "fail")
  BY <1>11 DEF FaultTest, InForeground
<1>12. CASE StartWake
  BY <1>12 DEF StartWake, InForeground
<1>13. CASE Pass("nfault", ~StageFault, "check2")
  BY <1>13 DEF Pass, InForeground
<1>14. CASE Fail("nfault", StageFault, "stage", "fail")
  BY <1>14 DEF Fail, InForeground, EmergencySafe, CoreFault, OutsideFault
<1>15. CASE FaultTest("check2", "release", "fail")
  BY <1>15 DEF FaultTest, InForeground
<1>16. CASE StartRelease
  BY <1>16 DEF StartRelease, InForeground
<1>17. CASE FaultTest("check3", "baseline", "fail")
  BY <1>17 DEF FaultTest, InForeground
<1>18. CASE StartBaseline
  BY <1>18 DEF StartBaseline, InForeground
<1>19. CASE FaultTest("check4", "running", "stop")
  BY <1>19 DEF FaultTest, InForeground
<1>20. CASE StartRunning
  BY <1>20 DEF StartRunning, InForeground
<1>21. CASE StartFail
  BY <1>21 DEF StartFail, InForeground, EmergencySafe
<1>22. CASE Stop
  BY <1>22 DEF Stop, InForeground, Back
<1>23. CASE StopForce
  BY <1>23 DEF StopForce, InForeground
<1>24. CASE StopSleep
  BY <1>24 DEF StopSleep, InForeground
<1>25. CASE StopDma
  BY <1>25 DEF StopDma, InForeground, Back
<1>26. CASE Serviced
  BY <1>26 DEF Serviced, InForeground
<1>27. CASE WriteFill
  BY <1>27 DEF WriteFill, CanWrite, Fill, OutsideWrite
<1>28. CASE WritePublish
  BY <1>28 DEF WritePublish, Publish, OutsideWrite
<1>29. CASE WriteNested
  BY <1>29 DEF WriteNested, CanWrite, Fill, Publish, OutsideWrite
<1>30. CASE IsrEnter
  BY <1>30 DEF IsrEnter, IsrFault, EmergencySafe, CoreFault, OutsideFault
<1>31. CASE IsrTake
  <2>1. Level(head, tail, FifoBlocks) # 0 => head # tail
    <3>1. /\ FifoBlocks \in Nat \ {0}
          /\ head \in 0..(FifoBlocks - 1) /\ tail \in 0..(FifoBlocks - 1)
      BY FifoAssumption DEF TypeOK, CoreOK
    <3>. QED BY <3>1, LevelInRing
  <2>2. block' # NoBlock => block' = fifo[tail] /\ Level(head, tail, FifoBlocks) # 0
    BY <1>31, PrimeAssumption DEF IsrTake
  <2>. QED BY <1>31, <2>1, <2>2 DEF IsrTake
<1>32. CASE IsrGiveUp
  BY <1>32 DEF IsrGiveUp, IsrFault, EmergencySafe, CoreFault, OutsideFault
<1>33. CASE IsrRelease
  <2>1. /\ block' = NoBlock /\ UNCHANGED <<head, wr>>
        /\ (tail' = tail \/ (tail' = NextSlot(tail, FifoBlocks) /\ head # tail))
    <3>1. CASE block = NoBlock
      BY <1>33, <3>1 DEF IsrRelease
    <3>2. CASE block # NoBlock
      BY <1>33, <3>2 DEF IsrRelease
    <3>. QED BY <3>1, <3>2
  <2>2. NextSlot(head, FifoBlocks) = NextSlot(tail, FifoBlocks) => head = tail
    BY FifoAssumption DEF NextSlot, TypeOK, CoreOK
  <2>. QED BY <2>1, <2>2
<1>34. CASE IsrRecheck
  BY <1>34 DEF IsrRecheck, IsrFault, EmergencySafe, CoreFault, OutsideFault
<1>35. CASE DmaMoves
  BY <1>35 DEF DmaMoves
<1>36. CASE Breaks
  BY <1>36 DEF Breaks
<1>37. CASE Mends
  BY <1>37 DEF Mends
<1>38. ASSUME NEW late \in BOOLEAN, Service(late) PROVE Fifo'
  BY <1>38 DEF Service, InForeground, EmergencySafe, CoreFault
<1>39. CASE UNCHANGED vars
  BY <1>39 DEF vars
<1>. QED
  BY <1>1, <1>2, <1>3, <1>4, <1>5, <1>6, <1>7, <1>8, <1>9, <1>10,
     <1>11, <1>12, <1>13, <1>14, <1>15, <1>16, <1>17, <1>18, <1>19, <1>20,
     <1>21, <1>22, <1>23, <1>24, <1>25, <1>26, <1>27, <1>28, <1>29, <1>30,
     <1>31, <1>32, <1>33, <1>34, <1>35, <1>36, <1>37, <1>38, <1>39
  DEF Next, MainLoop, Foreground, StartClock, StartHr, StartNFault, Write, Isr

\* The initial states satisfy the invariant.
LEMMA InitInv == Init => Inv
<1>. SUFFICES ASSUME Init PROVE Inv
  OBVIOUS
<1>. USE FifoAssumption, HalfAssumption, BlocksAssumption, BoundsAssumption DEF Init
<1>0. 0 \in 0..(FifoBlocks - 1) /\ 0 \in 0..(2 * Half - 1)
  OBVIOUS
<1>1. CoreOK
  BY <1>0 DEF CoreOK
<1>2. StageOK
  BY <1>0 DEF StageOK
<1>3. ActorsOK /\ fg \in FgLabels
  <2>1. taken \in Blocks \X Blocks
    <3>1. PICK b \in Blocks : taken = <<b, b>>
      OBVIOUS
    <3>. QED BY <3>1
  <2>2. 0 \in 0..MaxCommands /\ 0 \in 0..MaxBreaks
    OBVIOUS
  <2>3. /\ back \in {"idle", "init", "again"}
        /\ isr \in {"idle", "window", "copy", "recheck"}
        /\ offset \in {0, Half} /\ block \in Blocks \cup {NoBlock}
        /\ wr \in {"idle", "filled"} /\ torn \in BOOLEAN /\ fg = "idle"
    OBVIOUS
  <2>4. cmds \in 0..MaxCommands /\ breaks \in 0..MaxBreaks
    BY <2>2
  <2>. HIDE DEF Init
  <2>. QED BY <2>1, <2>3, <2>4 DEF ActorsOK, FgLabels
<1>4. Stage
  BY DEF Stage, Owned, Asleep, Powered, Settled, NeverDrivenFaulted, AsleepAt,
         HeldLowAt, PoweredAt, TestedAt
<1>5. Overrun /\ Fifo
  BY DEF Overrun, Fifo
<1>. QED BY <1>1, <1>2, <1>3, <1>4, <1>5 DEF Inv, TypeOK

LEMMA Invariant == Spec => []Inv
<1>1. Inv /\ [Next]_vars => Inv'
  BY TypeStep, StageStep, OverrunStep, FifoStep DEF Inv
<1>. QED BY InitInv, <1>1, PTL DEF Spec

\* The variables keep their types.
THEOREM Types == Spec => []TypeOK
<1>1. Inv => TypeOK
  BY DEF Inv
<1>. QED BY Invariant, <1>1, PTL

\* The PWM never drives the stage with a fault latched, wherever in a start,
\* a stop or a refill the fault came.
THEOREM DriveSafety == Spec => []NeverDrivenFaulted
<1>1. Inv => NeverDrivenFaulted
  BY DEF Inv, Stage
<1>. QED BY Invariant, <1>1, PTL

\* Between commands the stage is on exactly while blocks are taken.
THEOREM RunningLive == Spec => []RunningIsLive
<1>1. Inv => RunningIsLive
  <2>. SUFFICES ASSUME Inv, fg = "idle"
                PROVE  /\ fault = {} => (running <=> Live)
                       /\ ~running => ~awake /\ ~dmaOn
    BY DEF RunningIsLive
  <2>1. /\ ~running \/ fault # {} => ~awake /\ ~dmaOn
        /\ running /\ fault = {} => Live
    BY DEF Inv, Stage, Settled
  <2>. QED BY <2>1 DEF Live
<1>. QED BY Invariant, <1>1, PTL

\* No half that was overrun goes unnoticed.
THEOREM TornCaught == Spec => []TornIsCaught
<1>1. Inv => TornIsCaught
  BY DEF Inv, Overrun, TornIsCaught
<1>. QED BY Invariant, <1>1, PTL

-----------------------------------------------------------------------------
(* The FIFO as a queue.                                                    *)

\* A step that leaves slots, indices and the last block alone is not seen.
LEMMA Unseen ==
    ASSUME UNCHANGED <<fifo, head, tail, taken>>
    PROVE  UNCHANGED Queue!vars
BY DEF Queue!vars, Contents

\* Each step that touches the FIFO puts a block, gets one, clears the queue,
\* or fills a slot the queue does not hold yet.
LEMMA FifoSteps ==
    ASSUME TypeOK, Stage, Fifo,
           CoreInit \/ CoreStart \/ Write \/ IsrRelease
    PROVE  [Queue!Next]_(Queue!vars)
<1>. USE FifoAssumption
<1>1. /\ FifoBlocks \in Nat \ {0}
      /\ head \in 0..(FifoBlocks - 1) /\ tail \in 0..(FifoBlocks - 1)
      /\ fifo \in [0..(FifoBlocks - 1) -> Blocks]
  BY DEF TypeOK, CoreOK
<1>2. 0 \in 0..(FifoBlocks - 1)
  OBVIOUS
<1>3. ASSUME head' = 0, tail' = 0, taken' = taken
      PROVE  Queue!Next
  <2>1. Contents(fifo, head, tail, FifoBlocks)' = <<>>
    <3>1. Contents(fifo', 0, 0, FifoBlocks) = <<>>
      BY <1>1, <1>2, ContentsEmpty
    <3>. QED BY <1>3, <3>1
  <2>. QED BY <1>3, <2>1 DEF Queue!Next, Queue!Clear
<1>4. CASE CoreInit
  <2>1. CASE initialized'
    BY <1>3, <1>4, <2>1 DEF CoreInit
  <2>2. CASE ~(initialized')
    BY <1>4, <2>2, Unseen DEF CoreInit
  <2>. QED BY <2>1, <2>2
<1>5. CASE CoreStart
  <2>1. CASE fault = {}
    BY <1>3, <1>5, <2>1 DEF CoreStart
  <2>2. CASE fault # {}
    BY <1>5, <2>2, Unseen DEF CoreStart
  <2>. QED BY <2>1, <2>2
<1>6. CASE WriteFill
  <2>1. PICK b \in Blocks : fifo' = [fifo EXCEPT ![head] = b]
    BY <1>6 DEF WriteFill, Fill
  <2>2. head' = head /\ tail' = tail /\ taken' = taken
    BY <1>6 DEF WriteFill, OutsideWrite
  <2>3. Contents(fifo', head, tail, FifoBlocks) = Contents(fifo, head, tail, FifoBlocks)
    BY <1>1, <2>1, ContentsAfterFill, ZenonT(60)
  <2>. QED BY <2>2, <2>3 DEF Queue!vars
<1>7. ASSUME NEW f \in [0..(FifoBlocks - 1) -> Blocks], f = fifo',
             Contents(f, head, tail, FifoBlocks) = Contents(fifo, head, tail, FifoBlocks),
             NextSlot(head, FifoBlocks) # tail,
             head' = NextSlot(head, FifoBlocks), tail' = tail, taken' = taken
      PROVE  Queue!Next
  <2>. DEFINE c == Contents(fifo, head, tail, FifoBlocks)
  <2>1. Contents(f, NextSlot(head, FifoBlocks), tail, FifoBlocks) = Append(c, f[head])
    BY <1>1, <1>7, ContentsAfterPut, ZenonT(60)
  <2>2. Len(c) < FifoBlocks - 1
    <3>1. Len(c) = Level(head, tail, FifoBlocks)
      <4>. HIDE <1>7
      <4>. QED BY <1>1, ContentsType
    <3>3. Level(head, tail, FifoBlocks) \in 0..(FifoBlocks - 1)
      BY <1>1, LevelInRing
    <3>2. Level(head, tail, FifoBlocks) # FifoBlocks - 1
      BY <1>1, <1>7, LevelAfterPut
    <3>. HIDE DEF c
    <3>. QED BY <3>1, <3>2, <3>3
  <2>3. f[head] \in Blocks
    BY <1>1
  <2>4. Queue!Put(f[head])
    BY <1>7, <2>1, <2>2 DEF Queue!Put
  <2>. QED BY <2>3, <2>4 DEF Queue!Next
<1>8. CASE WritePublish
  <2>1. /\ NextSlot(head, FifoBlocks) # tail /\ head' = NextSlot(head, FifoBlocks)
        /\ fifo' = fifo /\ tail' = tail /\ taken' = taken
    BY <1>8 DEF WritePublish, Publish, OutsideWrite, Fifo
  <2>. QED BY <1>1, <1>7, <2>1
<1>9. CASE WriteNested
  <2>1. PICK b \in Blocks : fifo' = [fifo EXCEPT ![head] = b]
    BY <1>9 DEF WriteNested, Fill
  <2>2. /\ NextSlot(head, FifoBlocks) # tail /\ head' = NextSlot(head, FifoBlocks)
        /\ tail' = tail /\ taken' = taken
    BY <1>9 DEF WriteNested, CanWrite, Publish, OutsideWrite
  <2>3. fifo' \in [0..(FifoBlocks - 1) -> Blocks]
    BY <1>1, <2>1
  <2>4. Contents(fifo', head, tail, FifoBlocks) = Contents(fifo, head, tail, FifoBlocks)
    BY <1>1, <2>1, ContentsAfterFill, ZenonT(60)
  <2>. QED BY <1>7, <2>2, <2>3, <2>4
<1>10. CASE IsrRelease
  <2>1. CASE block = NoBlock
    BY <1>10, <2>1, Unseen DEF IsrRelease
  <2>2. CASE block # NoBlock
    <3>. DEFINE c == Contents(fifo, head, tail, FifoBlocks)
    <3>1. /\ taken' = <<fifo[tail], fifo[tail]>>
          /\ tail' = NextSlot(tail, FifoBlocks) /\ head' = head /\ fifo' = fifo
      BY <1>10, <2>2 DEF IsrRelease, Fifo
    <3>2. /\ c # <<>> /\ Head(c) = fifo[tail]
          /\ Contents(fifo, head, NextSlot(tail, FifoBlocks), FifoBlocks) = Tail(c)
      BY <1>1, <2>2, ContentsAfterGet DEF Fifo
    <3>. QED BY <3>1, <3>2 DEF Queue!Next, Queue!Get
  <2>. QED BY <2>1, <2>2
<1>. QED
  BY <1>4, <1>5, <1>6, <1>8, <1>9, <1>10 DEF Write

\* Every step of the output is a step of the queue, or one it does not see.
LEMMA QueueStep == Inv /\ [Next]_vars => [Queue!Next]_(Queue!vars)
<1>. SUFFICES ASSUME Inv, [Next]_vars PROVE [Queue!Next]_(Queue!vars)
  OBVIOUS
<1>1. CASE CoreInit \/ CoreStart \/ Write \/ IsrRelease
  BY <1>1, FifoSteps DEF Inv
<1>2. ASSUME UNCHANGED <<fifo, head, tail, taken>> PROVE [Queue!Next]_(Queue!vars)
  BY <1>2, Unseen
<1>3. CASE CommandInit \/ CommandStop \/ StartBoard \/ StartRun \/ StartWake
  BY <1>2, <1>3 DEF CommandInit, CommandStop, StartBoard, StartRun, StartWake
<1>4. CASE StartClock \/ StartHr \/ StartNFault
  BY <1>2, <1>4 DEF StartClock, StartHr, StartNFault, Pass, Fail, OutsideFault
<1>5. ASSUME NEW at, NEW then, NEW otherwise, FaultTest(at, then, otherwise)
      PROVE  [Queue!Next]_(Queue!vars)
  BY <1>2, <1>5 DEF FaultTest
<1>6. CASE StartRelease \/ StartBaseline \/ StartRunning \/ StartFail
  BY <1>2, <1>6 DEF StartRelease, StartBaseline, StartRunning, StartFail
<1>7. CASE Stop \/ StopForce \/ StopSleep \/ StopDma \/ Serviced
  BY <1>2, <1>7 DEF Stop, StopForce, StopSleep, StopDma, Serviced
<1>8. CASE IsrEnter
  BY <1>2, <1>8 DEF IsrEnter, IsrFault, OutsideFault
<1>9. CASE IsrTake \/ IsrGiveUp
  BY <1>2, <1>9 DEF IsrTake, IsrGiveUp, IsrFault, OutsideFault
<1>10. CASE IsrRecheck
  BY <1>2, <1>10 DEF IsrRecheck, IsrFault, OutsideFault
<1>11. CASE DmaMoves \/ Breaks \/ Mends
  BY <1>2, <1>11 DEF DmaMoves, Breaks, Mends
<1>12. ASSUME NEW late \in BOOLEAN, Service(late) PROVE [Queue!Next]_(Queue!vars)
  BY <1>2, <1>12 DEF Service
<1>13. CASE UNCHANGED vars
  BY <1>2, <1>13 DEF vars
<1>. QED
  BY <1>1, <1>3, <1>4, <1>5, <1>6, <1>7, <1>8, <1>9, <1>10, <1>11, <1>12, <1>13
  DEF Next, MainLoop, Foreground, Isr

\* The FIFO is a queue of at most FifoBlocks - 1 blocks.
THEOREM FifoIsQueue == Spec => ImplementsQueue
<1>1. Init => Queue!Init
  <2>. SUFFICES ASSUME Init PROVE Queue!Init
    OBVIOUS
  <2>1. FifoBlocks \in Nat \ {0} /\ 0 \in 0..(FifoBlocks - 1)
    BY FifoAssumption
  <2>2. Contents(fifo, 0, 0, FifoBlocks) = <<>>
    BY <2>1, ContentsEmpty
  <2>3. taken \in Blocks \X Blocks
    BY DEF Init
  <2>4. head = 0 /\ tail = 0
    BY DEF Init
  <2>. QED BY <2>2, <2>3, <2>4 DEF Queue!Init
<1>. QED BY <1>1, Invariant, QueueStep, PTL DEF Spec, ImplementsQueue, Queue!Spec
=============================================================================
