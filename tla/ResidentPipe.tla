----------------------------- MODULE ResidentPipe -----------------------------
(***************************************************************************)
(* The cross-reset container (src/shared/resident_de_pipe.c) in RAM that   *)
(* no start-up code clears.  One action per store, so that a reset can     *)
(* fall between any two of them.  The crash record is left out: no image   *)
(* is built with it (RESIDENT_BOOT_ENA_CRASH_RECORD is 0).                 *)
(***************************************************************************)
EXTENDS Integers, Sequences

CONSTANTS Causes,    \* values of RCON that are forwarded
          MaxCount,  \* bound on the launch counts written
          Junk,      \* what a cell that lost its charge reads as
          Decays,    \* sets of cells that lose their charge together
          NoCause

ASSUME CausesAssumption == Causes \subseteq Nat /\ NoCause \notin Nat

ASSUME WordsAssumption ==
  MaxCount \in Nat /\ MaxCount <= 65535 /\ Junk \in Nat /\ Junk <= 65535

\* 16-bit complement, and a word whose low byte was zeroed.
Not(w)  == 65535 - w
Half(w) == w - (w % 256)

Version       == 1
RequestMarker == 21073   \* "RQ"
CauseMarker   == 17240   \* "CX"

\* The fields in the order of the structure, which is the order of the wipe.
Fields == <<"version", "version_inv", "request", "request_inv", "launch",
            "launch_inv", "cause", "cause_inv", "cause_rcon">>
Cells == {Fields[i] : i \in 1..9}

ASSUME DecaysAssumption == Decays \subseteq SUBSET Cells

VARIABLES
  ram,       \* the container
  op,        \* the function being executed, or "none"
  at,        \* its next store
  arg,       \* its argument
  side,      \* "reset" and "cleared" before pipe_init; then "boot", then "app"
  power,     \* RCON holds POR or BOR
  distrust   \* the boot pass found POR or BOR in RCON

exec == <<op, at, arg>>
vars == <<ram, exec, side, power, distrust>>

(***************************************************************************)
(* The records as a reader sees them.                                      *)
(***************************************************************************)
PairOk(value, inverse, expect) ==
  ram[value] = expect /\ ram[inverse] = Not(expect)

Ready        == PairOk("version", "version_inv", Version)
Request      == Ready /\ PairOk("request", "request_inv", RequestMarker)
CausePending == PairOk("cause", "cause_inv", CauseMarker)
Cause        == IF CausePending THEN ram["cause_rcon"] ELSE NoCause
LaunchCount  == IF Ready /\ ram["launch_inv"] = Not(ram["launch"])
                THEN ram["launch"] ELSE 0

(***************************************************************************)
(* The functions, as the stores they make.                                 *)
(***************************************************************************)

\* Mutant: the marker is published before its payload.
CausePublishMarkerFirst(a) ==
  << <<"cause", 0>>, <<"cause_inv", Not(CauseMarker)>>,
     <<"cause", CauseMarker>>, <<"cause_rcon", a>> >>

CausePublish(a) ==
  << <<"cause", 0>>, <<"cause_rcon", a>>,
     <<"cause_inv", Not(CauseMarker)>>, <<"cause", CauseMarker>> >>
CauseTake   == << <<"cause", 0>>, <<"cause_inv", 0>> >>
RequestSet  == << <<"request", 0>>, <<"request_inv", Not(RequestMarker)>>,
                  <<"request", RequestMarker>> >>
RequestTake == << <<"request", 0>>, <<"request_inv", 0>> >>
LaunchSet(a) == << <<"launch", 0>>, <<"launch_inv", Not(a)>>,
                   <<"launch", a>> >>

\* The byte-wise zeroing of the region, then the version, its marker last.
WipeField == Fields[(at + 1) \div 2]
WipeByte  == <<WipeField, IF at % 2 = 1 THEN Half(ram[WipeField]) ELSE 0>>
PipeInitStore == CASE at \in 1..18 -> WipeByte
                   [] at = 19 -> <<"version_inv", Not(Version)>>
                   [] at = 20 -> <<"version", Version>>

Ops == {"init", "cause_publish", "cause_take", "request_set", "request_take",
        "launch_set"}

Script == CASE op = "cause_publish" -> CausePublish(arg)
            [] op = "cause_take"    -> CauseTake
            [] op = "request_set"   -> RequestSet
            [] op = "request_take"  -> RequestTake
            [] op = "launch_set"    -> LaunchSet(arg)

Stores    == IF op = "init" THEN 20 ELSE Len(Script)
NextStore == IF op = "init" THEN PipeInitStore ELSE Script[at]

Init ==
  /\ ram = [c \in Cells |-> Junk]
  /\ op = "none" /\ at = 1 /\ arg = 0
  /\ side = "reset" /\ power = TRUE /\ distrust = FALSE

\* One store of the running function; after the last one it returns.
Store ==
  /\ op # "none"
  /\ ram' = [ram EXCEPT ![NextStore[1]] = NextStore[2]]
  /\ IF at < Stores
     THEN at' = at + 1 /\ UNCHANGED <<op, arg, side>>
     ELSE /\ op' = "none" /\ at' = 1 /\ arg' = 0
          /\ side' = IF op = "init" THEN "boot" ELSE side
  /\ UNCHANGED <<power, distrust>>

Call(o, a) == /\ op = "none" /\ op' = o /\ at' = 1 /\ arg' = a
              /\ UNCHANGED <<ram, side, power, distrust>>

(***************************************************************************)
(* The bootloader.                                                         *)
(***************************************************************************)

\* main reads the reset cause and clears it, some way ahead of pipe_init.
ClearRcon ==
  /\ side = "reset"
  /\ side' = "cleared" /\ distrust' = power /\ power' = FALSE
  /\ UNCHANGED <<ram, exec>>

\* Mutant: every boot pass wipes.
NeverKept == FALSE
Kept == ~distrust /\ Ready
PipeInit ==
  /\ side = "cleared" /\ op = "none"
  /\ IF Kept THEN side' = "boot" /\ UNCHANGED exec
             ELSE op' = "init" /\ at' = 1 /\ arg' = 0 /\ UNCHANGED side
  /\ UNCHANGED <<ram, power, distrust>>

Bootloader ==
  /\ side = "boot"
  /\ \/ \E c \in Causes : Call("cause_publish", c)
     \/ Request /\ Call("request_take", 0)
     \/ \E n \in 1..MaxCount : Call("launch_set", n)

LaunchApp ==
  /\ side = "boot" /\ op = "none"
  /\ side' = "app"
  /\ UNCHANGED <<ram, exec, power, distrust>>

(***************************************************************************)
(* The application.                                                        *)
(***************************************************************************)
Application ==
  /\ side = "app"
  /\ \/ CausePending /\ Call("cause_take", 0)
     \/ Call("request_set", 0)
     \/ Call("launch_set", 0)

(***************************************************************************)
(* The device.                                                             *)
(***************************************************************************)
Restart == /\ op' = "none" /\ at' = 1 /\ arg' = 0
           /\ side' = "reset" /\ distrust' = FALSE

Reset == Restart /\ UNCHANGED <<ram, power>>

\* Cells lose their charge; the supply may fail again at once.  That such cells
\* read as a valid pair by chance (1 in 2^32) is left out.
Decayed(v, i) == ram'[v] = ram[v] /\ ram'[i] = ram[i]
NoForgery ==
  /\ Ready' => Decayed("version", "version_inv")
  /\ Request' => Decayed("request", "request_inv")
  /\ CausePending' => Decayed("cause", "cause_inv")
  /\ LaunchCount' # 0 => Decayed("launch", "launch_inv")

PowerLoss ==
  /\ \E D \in Decays :
       ram' = [c \in Cells |-> IF c \in D THEN Junk ELSE ram[c]]
  /\ NoForgery
  /\ power' = TRUE
  /\ Restart

Next == Store \/ ClearRcon \/ PipeInit \/ Bootloader \/ LaunchApp
          \/ Application \/ Reset \/ PowerLoss

Spec == Init /\ [][Next]_vars

(***************************************************************************)
(* Properties.                                                             *)
(***************************************************************************)
TypeOK ==
  /\ ram \in [Cells -> Nat]
  /\ op \in Ops \cup {"none"} /\ at \in 1..20 /\ arg \in Nat
  /\ side \in {"reset", "cleared", "boot", "app"}
  /\ power \in BOOLEAN /\ distrust \in BOOLEAN

\* Behind pipe_init both images find an established container; a wipe that a
\* reset cut short is begun again by the next boot pass.
ReadyBehindInit == side \in {"boot", "app"} => Ready

\* A published request disappears only because the bootloader takes it, because
\* the application publishes another, or because power was lost: no boot pass
\* wipes a message on its way in.
RequestKept ==
  [][Request /\ ~Request' => \/ op \in {"request_take", "request_set"}
                             \/ op = "init" /\ distrust
                             \/ power']_vars

\* Torn or stale records never read as valid ones: the stores implement the
\* records of PipeRecords (the container's "publish order" rule).
Records == INSTANCE PipeRecords WITH
             ready <- Ready, request <- Request, count <- LaunchCount,
             cause <- Cause, Garbled <- Junk
ImplementsRecords == Records!Spec
=============================================================================
