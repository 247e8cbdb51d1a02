--------------------------- MODULE ResidentPipeProofs ---------------------------
(***************************************************************************)
(* ResidentPipe proved for all causes, counts, junk and patterns of decay. *)
(*                                                                         *)
(* The argument is about what the running function has stored so far: each *)
(* publisher voids its marker first and restores it last (Publishing), and *)
(* the wipe voids the version first (Wiped), so that the one store that    *)
(* makes a record readable finds everything else of it in place.           *)
(***************************************************************************)
EXTENDS ResidentPipe, TLAPS

\* The last store of a function.
LastOf(o) == IF o = "init" THEN 20
             ELSE IF o = "cause_publish" THEN 4
             ELSE IF o \in {"request_set", "launch_set"} THEN 3 ELSE 2

\* Functions run where their callers are, and inside their stores.
Placed ==
  /\ op = "init" => side = "cleared"
  /\ op \in Ops \ {"init"} => side \in {"boot", "app"}
  /\ op # "none" => at <= LastOf(op)
  /\ op = "cause_publish" => arg \in Causes
  /\ op = "launch_set" => arg \in 0..MaxCount

\* What the wipe has gone over is zero, but for the new version's complement.
Wiped ==
  op = "init" =>
    /\ \A i \in 1..9 : 2 * i < at /\ (i = 2 => at < 20) => ram[Fields[i]] = 0
    /\ at = 20 => ram["version_inv"] = Not(Version)

\* A marker is void until everything it vouches for is stored.
Publishing ==
  /\ op = "cause_publish" =>
       /\ at > 1 => ram["cause"] = 0
       /\ at > 2 => ram["cause_rcon"] = arg
       /\ at > 3 => ram["cause_inv"] = Not(CauseMarker)
  /\ op = "request_set" =>
       /\ at > 1 => ram["request"] = 0
       /\ at > 2 => ram["request_inv"] = Not(RequestMarker)
  /\ op = "launch_set" =>
       /\ at > 1 => ram["launch"] = 0
       /\ at > 2 => ram["launch_inv"] = Not(arg)

IInv == TypeOK /\ Placed /\ Wiped /\ Publishing /\ ReadyBehindInit

(***************************************************************************)
(* The stores one by one.                                                  *)
(***************************************************************************)
Wrote(cell, word) == ram' = [ram EXCEPT ![cell] = word]

LEMMA Constants == Junk \in Nat /\ MaxCount \in Nat /\ Causes \subseteq Nat
<1>1. Junk \in Nat /\ MaxCount \in Nat
  BY SMT, WordsAssumption
<1>2. Causes \subseteq Nat
  BY Zenon, CausesAssumption
<1> QED
  BY <1>1, <1>2

LEMMA CellsAre ==
  Cells = {"version", "version_inv", "request", "request_inv", "launch",
           "launch_inv", "cause", "cause_inv", "cause_rcon"}
BY DEF Cells, Fields

LEMMA StoresAre == op \in Ops => Stores = LastOf(op)
BY DEF Stores, Script, CausePublish, CauseTake, RequestSet, RequestTake,
   LaunchSet, LastOf, Ops

LEMMA CausePublishStore ==
  ASSUME TypeOK, Placed, Store, op = "cause_publish"
  PROVE  \/ at = 1 /\ Wrote("cause", 0)
         \/ at = 2 /\ Wrote("cause_rcon", arg)
         \/ at = 3 /\ Wrote("cause_inv", Not(CauseMarker))
         \/ at = 4 /\ Wrote("cause", CauseMarker)
<1>1. at \in {1, 2, 3, 4}
  BY DEF TypeOK, Placed, LastOf
<1>2. NextStore = CausePublish(arg)[at]
  BY DEF NextStore, Script
<1>3. CASE at = 1
  BY <1>2, <1>3 DEF Store, Wrote, CausePublish
<1>4. CASE at = 2
  BY <1>2, <1>4 DEF Store, Wrote, CausePublish
<1>5. CASE at = 3
  BY <1>2, <1>5 DEF Store, Wrote, CausePublish
<1>6. CASE at = 4
  BY <1>2, <1>6 DEF Store, Wrote, CausePublish
<1> QED
  BY <1>1, <1>3, <1>4, <1>5, <1>6

LEMMA TakeStore ==
  ASSUME TypeOK, Placed, Store, op \in {"cause_take", "request_take"}
  PROVE  \/ op = "cause_take" /\ at = 1 /\ Wrote("cause", 0)
         \/ op = "cause_take" /\ at = 2 /\ Wrote("cause_inv", 0)
         \/ op = "request_take" /\ at = 1 /\ Wrote("request", 0)
         \/ op = "request_take" /\ at = 2 /\ Wrote("request_inv", 0)
<1>1. at \in {1, 2}
  BY DEF TypeOK, Placed, LastOf
<1>2. NextStore = (IF op = "cause_take" THEN CauseTake ELSE RequestTake)[at]
  BY DEF NextStore, Script
<1>3. CASE at = 1
  BY <1>2, <1>3 DEF Store, Wrote, CauseTake, RequestTake
<1>4. CASE at = 2
  BY <1>2, <1>4 DEF Store, Wrote, CauseTake, RequestTake
<1> QED
  BY <1>1, <1>3, <1>4

LEMMA RequestSetStore ==
  ASSUME TypeOK, Placed, Store, op = "request_set"
  PROVE  \/ at = 1 /\ Wrote("request", 0)
         \/ at = 2 /\ Wrote("request_inv", Not(RequestMarker))
         \/ at = 3 /\ Wrote("request", RequestMarker)
<1>1. at \in {1, 2, 3}
  BY DEF TypeOK, Placed, LastOf
<1>2. NextStore = RequestSet[at]
  BY DEF NextStore, Script
<1>3. CASE at = 1
  BY <1>2, <1>3 DEF Store, Wrote, RequestSet
<1>4. CASE at = 2
  BY <1>2, <1>4 DEF Store, Wrote, RequestSet
<1>5. CASE at = 3
  BY <1>2, <1>5 DEF Store, Wrote, RequestSet
<1> QED
  BY <1>1, <1>3, <1>4, <1>5

LEMMA LaunchSetStore ==
  ASSUME TypeOK, Placed, Store, op = "launch_set"
  PROVE  \/ at = 1 /\ Wrote("launch", 0)
         \/ at = 2 /\ Wrote("launch_inv", Not(arg))
         \/ at = 3 /\ Wrote("launch", arg)
<1>1. at \in {1, 2, 3}
  BY DEF TypeOK, Placed, LastOf
<1>2. NextStore = LaunchSet(arg)[at]
  BY DEF NextStore, Script
<1>3. CASE at = 1
  BY <1>2, <1>3 DEF Store, Wrote, LaunchSet
<1>4. CASE at = 2
  BY <1>2, <1>4 DEF Store, Wrote, LaunchSet
<1>5. CASE at = 3
  BY <1>2, <1>5 DEF Store, Wrote, LaunchSet
<1> QED
  BY <1>1, <1>3, <1>4, <1>5

LEMMA InitStore ==
  ASSUME TypeOK, Placed, Store, op = "init"
  PROVE  \/ \E i \in 1..9 : /\ at = 2 * i - 1
                            /\ Wrote(Fields[i], Half(ram[Fields[i]]))
         \/ \E i \in 1..9 : at = 2 * i /\ Wrote(Fields[i], 0)
         \/ at = 19 /\ Wrote("version_inv", Not(Version))
         \/ at = 20 /\ Wrote("version", Version)
<1>1. at \in 1..20
  BY DEF TypeOK, Placed, LastOf
<1>2. CASE at \in 1..18
  <2> DEFINE i == (at + 1) \div 2
  <2>1. i \in 1..9 /\ (at % 2 = 1 => at = 2 * i - 1) /\ (at % 2 # 1 => at = 2 * i)
    BY <1>2
  <2>2. NextStore = <<Fields[i], IF at % 2 = 1 THEN Half(ram[Fields[i]]) ELSE 0>>
    BY <1>2 DEF NextStore, PipeInitStore, WipeByte, WipeField
  <2>3. Wrote(Fields[i], IF at % 2 = 1 THEN Half(ram[Fields[i]]) ELSE 0)
    BY <2>2 DEF Store, Wrote
  <2> HIDE DEF i
  <2> QED
    BY <2>1, <2>3
<1>3. CASE at = 19
  BY <1>3 DEF Store, Wrote, NextStore, PipeInitStore
<1>4. CASE at = 20
  BY <1>4 DEF Store, Wrote, NextStore, PipeInitStore
<1> QED
  BY <1>1, <1>2, <1>3, <1>4

\* Zeroing a byte leaves a natural number that is no marker and no complement.
LEMMA HalfOf ==
  ASSUME NEW w \in Nat
  PROVE  Half(w) \in Nat /\ Half(w) % 256 = 0
BY SMT DEF Half

LEMMA FieldsDiffer ==
  /\ \A i \in 1..9 : Fields[i] \in Cells
  /\ \A i, j \in 1..9 : Fields[i] = Fields[j] => i = j
  /\ Fields[1] = "version" /\ Fields[2] = "version_inv"
  /\ Fields[3] = "request" /\ Fields[7] = "cause" /\ Fields[5] = "launch"
BY DEF Cells, Fields

(***************************************************************************)
(* The invariant.                                                          *)
(***************************************************************************)
LEMMA InitOK == Init => IInv
<1> SUFFICES ASSUME Init PROVE IInv
  OBVIOUS
<1>1. TypeOK
  <2>1. power \in BOOLEAN /\ distrust \in BOOLEAN
    BY Zenon DEF Init
  <2>2. ram \in [Cells -> Nat]
    BY Constants DEF Init
  <2> QED
    BY <2>1, <2>2 DEF Init, TypeOK
<1>2. Placed /\ Wiped /\ Publishing /\ ReadyBehindInit
  BY DEF Init, Placed, Wiped, Publishing, Ops, ReadyBehindInit
<1> QED
  BY <1>1, <1>2 DEF IInv

\* How a store leaves the function.
LEMMA Control ==
  ASSUME TypeOK, Placed, Store
  PROVE  \/ /\ at < LastOf(op) /\ at' = at + 1
            /\ op' = op /\ arg' = arg /\ side' = side
         \/ /\ at = LastOf(op) /\ at' = 1 /\ arg' = 0 /\ op' = "none"
            /\ side' = IF op = "init" THEN "boot" ELSE side
<1>1. op \in Ops /\ at \in Nat /\ at <= LastOf(op) /\ LastOf(op) \in Nat
  BY DEF TypeOK, Placed, Store, LastOf
<1>2. Stores = LastOf(op)
  BY <1>1, StoresAre
<1>3. CASE at < LastOf(op)
  BY <1>2, <1>3 DEF Store
<1>4. CASE at = LastOf(op)
  BY <1>2, <1>4 DEF Store
<1> QED
  BY <1>1, <1>3, <1>4

\* The steps that store nothing in the container.
LEMMA QuietStep ==
  ASSUME IInv, ClearRcon \/ PipeInit \/ Bootloader \/ LaunchApp
                 \/ Application \/ Reset \/ UNCHANGED vars
  PROVE  IInv' /\ ram' = ram
<1> USE Constants DEF IInv, TypeOK, Placed, LastOf, Wiped, Publishing,
          Ops, ReadyBehindInit, exec
<1>1. CASE ClearRcon
  <2> USE <1>1 DEF ClearRcon
  <2>1. ram' = ram /\ (Ready' <=> Ready)
    BY DEF Ready, PairOk
  <2> QED
    BY <2>1
<1>2. CASE PipeInit
  <2> USE <1>2 DEF PipeInit, Kept
  <2>1. ram' = ram /\ (Ready' <=> Ready)
    BY DEF Ready, PairOk
  <2> QED
    BY <2>1
<1>3. CASE LaunchApp
  <2> USE <1>3 DEF LaunchApp
  <2>1. ram' = ram /\ (Ready' <=> Ready)
    BY DEF Ready, PairOk
  <2> QED
    BY <2>1
<1>4. CASE Reset
  <2> USE <1>4 DEF Reset, Restart
  <2>1. ram' = ram /\ (Ready' <=> Ready)
    BY DEF Ready, PairOk
  <2>2. power' \in BOOLEAN /\ distrust' \in BOOLEAN
    BY Zenon
  <2> QED
    BY <2>1, <2>2
<1>5. CASE UNCHANGED vars
  <2> USE <1>5 DEF vars
  <2>1. ram' = ram /\ (Ready' <=> Ready)
    BY DEF Ready, PairOk
  <2> QED
    BY <2>1
<1>6. ASSUME NEW o \in Ops \ {"init"}, NEW a \in Nat, Call(o, a),
              side \in {"boot", "app"},
              o = "cause_publish" => a \in Causes,
              o = "launch_set" => a \in 0..MaxCount
      PROVE  IInv' /\ ram' = ram
  <2> USE <1>6 DEF Call
  <2>1. ram' = ram /\ (Ready' <=> Ready)
    BY DEF Ready, PairOk
  <2> QED
    BY <2>1
<1>7. CASE Bootloader
  BY <1>7, <1>6 DEF Bootloader
<1>8. CASE Application
  BY <1>8, <1>6 DEF Application
<1> QED
  BY <1>1, <1>2, <1>3, <1>4, <1>5, <1>7, <1>8

\* A store keeps the words natural numbers.
LEMMA StoreTyped ==
  ASSUME IInv, Store
  PROVE  ram' \in [Cells -> Nat]
<1> USE DEF IInv, TypeOK
<1>1. ASSUME NEW f \in Cells, NEW w \in Nat, Wrote(f, w)
      PROVE  ram' \in [Cells -> Nat]
  BY <1>1 DEF Wrote
<1>2. /\ Not(CauseMarker) \in Nat /\ Not(RequestMarker) \in Nat
      /\ Not(Version) \in Nat
      /\ CauseMarker \in Nat /\ RequestMarker \in Nat /\ Version \in Nat
  BY SMT DEF Not, CauseMarker, RequestMarker, Version
<1>3. CASE op = "cause_publish"
  BY <1>3, <1>1, <1>2, CausePublishStore, CellsAre
<1>4. CASE op \in {"cause_take", "request_take"}
  BY <1>4, <1>1, TakeStore, CellsAre
<1>5. CASE op = "request_set"
  BY <1>5, <1>1, <1>2, RequestSetStore, CellsAre
<1>6. CASE op = "launch_set"
  <2>1. arg \in Nat /\ Not(arg) \in Nat
    BY SMT, <1>6, WordsAssumption DEF Placed, Not
  <2> QED
    BY <1>6, <1>1, <2>1, LaunchSetStore, CellsAre
<1>7. CASE op = "init"
  <2>1. \A f \in Cells : Half(ram[f]) \in Nat
    BY HalfOf
  <2> QED
    BY <1>7, <1>1, <1>2, <2>1, InitStore, FieldsDiffer, CellsAre
<1> QED
  BY <1>3, <1>4, <1>5, <1>6, <1>7 DEF Store, Ops

LEMMA StoreStep ==
  ASSUME IInv, Store
  PROVE  IInv'
<1> USE DEF IInv
<1>1. TypeOK'
  <2>1. ram' \in [Cells -> Nat]
    BY StoreTyped
  <2>2. power' \in BOOLEAN /\ distrust' \in BOOLEAN
    BY Zenon DEF Store, TypeOK
  <2> QED
    BY <2>1, <2>2, Control DEF TypeOK, LastOf, Ops
<1>2. Placed'
  BY Control DEF TypeOK, Placed, LastOf, Ops
<1>3. Wiped'
  <2> SUFFICES ASSUME op' = "init" PROVE Wiped'
    BY DEF Wiped
  <2>1. op = "init" /\ at < 20 /\ at' = at + 1 /\ at \in 1..19
    BY Control DEF LastOf, TypeOK
  <2>2. CASE at = 19
    BY <2>1, <2>2, InitStore, FieldsDiffer DEF Wrote, Wiped, TypeOK
  <2>3. CASE at \in 1..18
    <3>1. ASSUME NEW i \in 1..9, 2 * i < at + 1
          PROVE  ram'[Fields[i]] = 0
      BY <2>1, <2>3, <3>1, InitStore, FieldsDiffer DEF Wrote, Wiped, TypeOK
    <3> QED
      BY <3>1, <2>1, <2>3 DEF Wiped
  <2> QED
    BY <2>1, <2>2, <2>3
<1>4. Publishing'
  <2>1. CASE op = "cause_publish"
    BY <2>1, CausePublishStore, Control, CellsAre
    DEF Publishing, Wrote, TypeOK, LastOf
  <2>2. CASE op = "request_set"
    BY <2>2, RequestSetStore, Control, CellsAre
    DEF Publishing, Wrote, TypeOK, LastOf
  <2>3. CASE op = "launch_set"
    BY <2>3, LaunchSetStore, Control, CellsAre
    DEF Publishing, Wrote, TypeOK, LastOf
  <2> QED
    BY <2>1, <2>2, <2>3, Control DEF Publishing
<1>5. ReadyBehindInit'
  <2>1. CASE op = "init"
    BY <2>1, InitStore, Control, CellsAre, FieldsDiffer
    DEF ReadyBehindInit, Ready, PairOk, Placed, Wiped, Wrote, TypeOK, LastOf
  <2>2. CASE op # "init"
    <3>1. ram'["version"] = ram["version"] /\ ram'["version_inv"] = ram["version_inv"]
      BY <2>2, CausePublishStore, TakeStore, RequestSetStore, LaunchSetStore,
         CellsAre DEF Wrote, TypeOK, Store, Ops
    <3> QED
      BY <2>2, <3>1, Control DEF ReadyBehindInit, Ready, PairOk
  <2> QED
    BY <2>1, <2>2
<1> QED
  BY <1>1, <1>2, <1>3, <1>4, <1>5

LEMMA PowerLossStep ==
  ASSUME IInv, PowerLoss
  PROVE  IInv'
<1>1. ram' \in [Cells -> Nat]
  BY Constants DEF PowerLoss, IInv, TypeOK
<1>2. power' \in BOOLEAN /\ distrust' \in BOOLEAN
  BY Zenon DEF PowerLoss, Restart
<1> QED
  BY <1>1, <1>2 DEF PowerLoss, Restart, IInv, TypeOK, Ops, Placed, Wiped,
     Publishing, ReadyBehindInit

THEOREM Invariance == Spec => []IInv
<1>1. ASSUME IInv, [Next]_vars PROVE IInv'
  BY <1>1, QuietStep, StoreStep, PowerLossStep DEF Next
<1> QED
  BY InitOK, <1>1, PTL DEF Spec

\* Every reachable state is well typed.
THEOREM TypeCorrect == Spec => []TypeOK
<1>1. IInv => TypeOK
  BY DEF IInv
<1> QED
  BY Invariance, <1>1, PTL

\* Behind pipe_init both images find an established container, wherever resets
\* and losses of power cut an earlier wipe short.
THEOREM AlwaysReady == Spec => []ReadyBehindInit
<1>1. IInv => ReadyBehindInit
  BY DEF IInv
<1> QED
  BY Invariance, <1>1, PTL

(***************************************************************************)
(* The stores implement the records.                                       *)
(***************************************************************************)

\* Records that only go, or keep their value, vanish.
LEMMA Vanishing ==
  ASSUME Ready' => Ready, Request' => Request,
         LaunchCount' \in {LaunchCount, 0},
         CausePending' => /\ CausePending
                          /\ ram["cause_rcon"] \in Nat
                          /\ ram'["cause_rcon"] \in {ram["cause_rcon"], Junk}
  PROVE  Records!Vanish
<1>1. Ready' \in {Ready, FALSE} /\ Request' \in {Request, FALSE}
  BY Zenon DEF Ready, Request, PairOk
<1>2. Cause' \in {Cause, NoCause} \cup (IF Cause = NoCause THEN {} ELSE {Junk})
  BY Zenon, CausesAssumption DEF Cause
<1> QED
  BY <1>1, <1>2 DEF Records!Vanish

LEMMA PowerLossVanishes ==
  ASSUME IInv, PowerLoss
  PROVE  Records!Vanish
<1> USE DEF PowerLoss, NoForgery, Decayed
<1>1. Ready' => Ready
  BY DEF Ready, PairOk
<1>2. Request' => Request
  BY <1>1 DEF Request, PairOk
<1>3. LaunchCount' \in {LaunchCount, 0}
  BY <1>1 DEF LaunchCount
<1>4. CausePending' => CausePending
  BY DEF CausePending, PairOk
<1>5. /\ ram["cause_rcon"] \in Nat
      /\ ram'["cause_rcon"] \in {ram["cause_rcon"], Junk}
  BY CellsAre DEF IInv, TypeOK
<1> QED
  BY <1>1, <1>2, <1>3, <1>4, <1>5, Vanishing

\* A cell that is zeroed, or a byte of it, takes part in no valid pair.
LEMMA VoidStore ==
  ASSUME IInv, NEW f \in Cells, NEW w \in Nat, w % 256 = 0, Wrote(f, w)
  PROVE  /\ Ready' => Ready /\ f \notin {"version", "version_inv"}
         /\ Request' => Request /\ f \notin {"request", "request_inv"}
         /\ CausePending' => CausePending /\ f \notin {"cause", "cause_inv"}
<1> USE CellsAre DEF IInv, TypeOK, Wrote, PairOk, Not
<1>1. Ready' => Ready /\ f \notin {"version", "version_inv"}
  BY SMT DEF Ready, Version
<1>2. Request' => Request /\ f \notin {"request", "request_inv"}
  BY SMT, <1>1 DEF Request, RequestMarker
<1>3. CausePending' => CausePending /\ f \notin {"cause", "cause_inv"}
  BY SMT DEF CausePending, CauseMarker
<1> QED
  BY <1>1, <1>2, <1>3

\* The wipe: the container is unusable from its first store to its last.
LEMMA InitVoids ==
  ASSUME IInv, Store, op = "init", at \in 1..18
  PROVE  \E i \in 1..9, w \in Nat :
           w % 256 = 0 /\ at \in {2 * i - 1, 2 * i} /\ Wrote(Fields[i], w)
<1>1. \A f \in Cells : Half(ram[f]) \in Nat /\ Half(ram[f]) % 256 = 0
  BY HalfOf DEF IInv, TypeOK
<1> QED
  BY <1>1, InitStore, FieldsDiffer DEF IInv, TypeOK

LEMMA InitUnready ==
  ASSUME IInv, Store, op = "init", at # 20
  PROVE  ~Ready'
<1> USE CellsAre, FieldsDiffer DEF IInv, TypeOK
<1>1. CASE at \in 1..18
  <2>1. PICK i \in 1..9, w \in Nat :
          w % 256 = 0 /\ at \in {2 * i - 1, 2 * i} /\ Wrote(Fields[i], w)
    BY <1>1, InitVoids
  <2>2. CASE i = 1
    BY <2>1, <2>2, VoidStore
  <2>3. CASE i # 1
    BY <2>1, <2>3 DEF Wrote, Wiped, Ready, PairOk, Version
  <2> QED
    BY <2>2, <2>3
<1>2. CASE at = 19
  BY <1>2, InitStore DEF Wiped, Wrote, Ready, PairOk, Version
<1> QED
  BY <1>1, <1>2, InitStore

LEMMA InitRefines ==
  ASSUME IInv, Store, op = "init"
  PROVE  Records!Vanish \/ Records!Establish
<1> USE CellsAre, FieldsDiffer DEF IInv, TypeOK
<1>1. CASE at \in 1..18
  <2>1. PICK i \in 1..9, w \in Nat :
          w % 256 = 0 /\ at \in {2 * i - 1, 2 * i} /\ Wrote(Fields[i], w)
    BY <1>1, InitVoids
  <2>2. ~Ready'
    BY <1>1, InitUnready
  <2>3. ~Request' /\ LaunchCount' = 0
    BY <2>2 DEF Request, LaunchCount
  <2>4. CausePending' => CausePending
    BY <2>1, VoidStore
  <2>5. CausePending => ram'["cause_rcon"] = ram["cause_rcon"]
    BY <2>1 DEF Wrote, Wiped, CausePending, PairOk, CauseMarker, Fields
  <2> QED
    BY <2>2, <2>3, <2>4, <2>5, Vanishing
<1>2. CASE at = 19
  <2>1. Wrote("version_inv", Not(Version)) /\ ram["version"] = 0
    BY <1>2, InitStore DEF Wiped
  <2>2. ~Ready' /\ ~Request' /\ LaunchCount' = 0
    BY <1>2, InitUnready DEF Request, LaunchCount
  <2>3. /\ CausePending' => CausePending
        /\ ram'["cause_rcon"] = ram["cause_rcon"]
    BY <2>1 DEF Wrote, CausePending, PairOk
  <2> QED
    BY <2>2, <2>3, Vanishing
<1>3. CASE at = 20
  <2>1. /\ Wrote("version", Version)
        /\ ram["version"] = 0 /\ ram["version_inv"] = Not(Version)
        /\ ram["request"] = 0 /\ ram["cause"] = 0
        /\ ram["launch"] = 0 /\ ram[Fields[6]] = 0
    BY <1>3, InitStore DEF Wiped
  <2>2. ~Ready
    BY <2>1 DEF Ready, PairOk, Version
  <2>3. Ready'
    BY <2>1 DEF Wrote, Ready, PairOk
  <2>4. ~Request' /\ ~CausePending'
    BY <2>1 DEF Wrote, Request, CausePending, PairOk, RequestMarker, CauseMarker
  <2>5. LaunchCount' = 0
    BY <2>1 DEF Wrote, LaunchCount
  <2> QED
    BY <2>2, <2>3, <2>4, <2>5 DEF Records!Establish, Cause
<1> QED
  BY <1>1, <1>2, <1>3, InitStore

\* A taker voids its record.
LEMMA TakeRefines ==
  ASSUME IInv, Store, op \in {"cause_take", "request_take"}
  PROVE  Records!Vanish
<1> USE CellsAre DEF IInv, TypeOK
<1>1. PICK f \in {"request", "request_inv", "cause", "cause_inv"} : Wrote(f, 0)
  BY TakeStore
<1>2. /\ Ready' => Ready
      /\ Request' => Request
      /\ CausePending' => CausePending
  BY <1>1, VoidStore
<1>3. LaunchCount' \in {LaunchCount, 0}
  BY <1>1 DEF Wrote, LaunchCount, Ready, PairOk
<1>4. ram'["cause_rcon"] = ram["cause_rcon"] /\ ram["cause_rcon"] \in Nat
  BY <1>1 DEF Wrote
<1>5. CausePending' => /\ CausePending
                       /\ ram["cause_rcon"] \in Nat
                       /\ ram'["cause_rcon"] \in {ram["cause_rcon"], Junk}
  BY <1>2, <1>4
<1> QED
  BY <1>2, <1>3, <1>5, Vanishing

LEMMA CausePublishRefines ==
  ASSUME IInv, Store, op = "cause_publish"
  PROVE  Records!Vanish \/ Records!PublishCause
<1> USE CellsAre DEF IInv, TypeOK
<1>1. /\ (Ready' <=> Ready) /\ (Request' <=> Request)
      /\ LaunchCount' = LaunchCount
  BY CausePublishStore DEF Wrote, Ready, Request, LaunchCount, PairOk
<1>2. CASE at # 4
  <2>1. ~CausePending'
    BY <1>2, CausePublishStore
    DEF Publishing, Wrote, CausePending, PairOk, CauseMarker
  <2> QED
    BY <1>1, <2>1, Vanishing
<1>3. CASE at = 4
  <2>1. ram["cause"] = 0 /\ ram["cause_rcon"] = arg
           /\ ram["cause_inv"] = Not(CauseMarker) /\ arg \in Causes
    BY <1>3 DEF Publishing, Placed
  <2>2. Wrote("cause", CauseMarker)
    BY <1>3, CausePublishStore
  <2>3. Cause = NoCause
    BY <2>1 DEF Cause, CausePending, PairOk, CauseMarker
  <2>4. Cause' = arg
    BY <2>1, <2>2 DEF Wrote, Cause, CausePending, PairOk
  <2>5. Ready
    BY <1>3 DEF Placed, ReadyBehindInit, Ops
  <2>6. Ready' = Ready /\ Request' = Request
    BY Zenon, <1>1 DEF Ready, Request, PairOk
  <2> QED
    BY Zenon, <1>1, <2>1, <2>3, <2>4, <2>5, <2>6 DEF Records!PublishCause
<1> QED
  BY <1>2, <1>3

LEMMA RequestSetRefines ==
  ASSUME IInv, Store, op = "request_set"
  PROVE  Records!Vanish \/ Records!SetRequest
<1> USE CellsAre DEF IInv, TypeOK
<1>1. /\ (Ready' <=> Ready) /\ (CausePending' <=> CausePending)
      /\ LaunchCount' = LaunchCount /\ Cause' = Cause
      /\ ram'["cause_rcon"] = ram["cause_rcon"]
  BY RequestSetStore DEF Wrote, Ready, Cause, CausePending, LaunchCount, PairOk
<1>2. CASE at # 3
  <2>1. ~Request'
    BY <1>2, RequestSetStore
    DEF Publishing, Wrote, Request, PairOk, RequestMarker
  <2> QED
    BY <1>1, <2>1, Vanishing
<1>3. CASE at = 3
  <2>1. Wrote("request", RequestMarker)
           /\ ram["request_inv"] = Not(RequestMarker)
    BY <1>3, RequestSetStore DEF Publishing
  <2>2. Ready
    BY <1>3 DEF Placed, ReadyBehindInit, Ops
  <2>3. Request'
    BY <1>1, <2>1, <2>2 DEF Wrote, Request, PairOk
  <2> QED
    BY <1>1, <2>2, <2>3 DEF Records!SetRequest
<1> QED
  BY <1>2, <1>3

LEMMA LaunchSetRefines ==
  ASSUME IInv, Store, op = "launch_set"
  PROVE  Records!Vanish \/ Records!SetCount
<1> USE CellsAre DEF IInv, TypeOK
<1>1. /\ (Ready' <=> Ready) /\ (Request' <=> Request)
      /\ (CausePending' <=> CausePending) /\ Cause' = Cause
      /\ ram'["cause_rcon"] = ram["cause_rcon"]
  BY LaunchSetStore DEF Wrote, Ready, Request, Cause, CausePending, PairOk
<1>2. CASE at # 3
  <2>1. LaunchCount' = 0
    BY <1>2, LaunchSetStore DEF Publishing, Wrote, LaunchCount
  <2> QED
    BY <1>1, <2>1, Vanishing
<1>3. CASE at = 3
  <2>1. Wrote("launch", arg) /\ ram["launch_inv"] = Not(arg) /\ arg \in Nat
    BY <1>3, LaunchSetStore DEF Publishing
  <2>2. Ready
    BY <1>3 DEF Placed, ReadyBehindInit, Ops
  <2>3. LaunchCount' = arg
    BY <1>1, <2>1, <2>2 DEF Wrote, LaunchCount
  <2>4. Ready' = Ready /\ Request' = Request /\ Cause' = Cause
    BY Zenon, <1>1 DEF Ready, Request, PairOk
  <2> QED
    BY Zenon, <2>1, <2>2, <2>3, <2>4 DEF Records!SetCount
<1> QED
  BY <1>2, <1>3

\* Torn, lost and stale records never read as valid ones: every store, reset
\* and loss of power is a step of the records or leaves them as they are.
THEOREM Implements == Spec => ImplementsRecords
<1>1. Init => Records!Init
  <2> SUFFICES ASSUME Init PROVE Records!Init
    OBVIOUS
  <2>1. ~Ready
    BY CellsAre DEF Init, Ready, PairOk, Version, Not
  <2>2. ~CausePending
    BY CellsAre DEF Init, CausePending, PairOk, CauseMarker, Not
  <2> QED
    BY <2>1, <2>2 DEF Records!Init, Request, LaunchCount, Cause
<1>2. ASSUME IInv, [Next]_vars PROVE [Records!Next]_(Records!vars)
  <2>1. CASE Store
    BY <1>2, <2>1, InitRefines, TakeRefines, CausePublishRefines,
       RequestSetRefines, LaunchSetRefines
    DEF Store, Ops, IInv, TypeOK, Records!Next
  <2>2. CASE PowerLoss
    BY <1>2, <2>2, PowerLossVanishes DEF Records!Next
  <2>3. CASE ~Store /\ ~PowerLoss
    <3>1. ram' = ram
      BY <1>2, <2>3, QuietStep DEF Next
    <3> QED
      BY <3>1 DEF Records!vars, Ready, Request, LaunchCount, Cause,
         CausePending, PairOk
  <2> QED
    BY <2>1, <2>2, <2>3
<1> QED
  BY <1>1, <1>2, Invariance, PTL DEF Spec, ImplementsRecords, Records!Spec

(***************************************************************************)
(* A request is lost to its taker, its publisher or a loss of power only.  *)
(***************************************************************************)

\* A wipe that no power-on asked for finds nothing to lose.
NothingLost == op = "init" /\ ~distrust => ~Ready

LEMMA NothingLostStep ==
  ASSUME IInv, NothingLost, [Next]_vars
  PROVE  NothingLost'
<1> USE DEF NothingLost
<1>1. CASE Store
  <2> SUFFICES ASSUME op' = "init", ~distrust' PROVE ~Ready'
    OBVIOUS
  <2>1. op = "init" /\ ~distrust /\ at # 20
    BY <1>1, Control DEF IInv, LastOf, Store
  <2> QED
    BY <1>1, <2>1, InitUnready
<1>2. CASE PowerLoss
  BY <1>2 DEF PowerLoss, Restart
<1>3. CASE ~Store /\ ~PowerLoss
  <2>1. Ready' <=> Ready
    BY <1>3, QuietStep DEF Next, Ready, PairOk
  <2> QED
    BY <1>3, <2>1 DEF Next, ClearRcon, PipeInit, Kept, Bootloader, LaunchApp,
       Application, Call, Reset, Restart, vars, exec, IInv, Placed
<1> QED
  BY <1>1, <1>2, <1>3

\* No boot pass wipes a request on its way in, and no other record's store
\* touches it.
THEOREM RequestAlwaysKept == Spec => RequestKept
<1>1. Init => NothingLost
  BY DEF Init, NothingLost
<1>2. ASSUME IInv, NothingLost, [Next]_vars
      PROVE  [Request /\ ~Request' => \/ op \in {"request_take", "request_set"}
                                      \/ op = "init" /\ distrust
                                      \/ power']_vars
  <2> SUFFICES ASSUME Request, ~Request',
                      op \notin {"request_take", "request_set"},
                      ~(op = "init" /\ distrust)
               PROVE  power'
    OBVIOUS
  <2>1. CASE Store
    <3>1. op # "init"
      BY <1>2 DEF NothingLost, Request
    <3>2. op \in {"cause_publish", "cause_take", "launch_set"}
      BY <2>1, <3>1, <1>2 DEF Store, IInv, TypeOK, Ops
    <3>3. Request' <=> Request
      BY <1>2, <2>1, <3>2, CellsAre, CausePublishStore, TakeStore, LaunchSetStore
      DEF IInv, TypeOK, Wrote, Request, Ready, PairOk
    <3> QED
      BY <3>3
  <2>2. CASE PowerLoss
    BY <2>2 DEF PowerLoss
  <2>3. CASE ~Store /\ ~PowerLoss
    BY <1>2, <2>3, QuietStep DEF Next, Request, Ready, PairOk
  <2> QED
    BY <2>1, <2>2, <2>3
<1> QED
  BY <1>1, <1>2, NothingLostStep, Invariance, PTL DEF Spec, RequestKept
=============================================================================
