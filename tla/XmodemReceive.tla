---------------------------- MODULE XmodemReceive ----------------------------
(***************************************************************************)
(* The XMODEM-CRC receiver of the resident bootloader                      *)
(* (src/boot/resident_de_boot_xmodem.c), a host that sends it a file, and  *)
(* the serial line between them.                                           *)
(*                                                                         *)
(* The line loses, damages and truncates what it carries; a truncation may *)
(* take the header byte of a block, and then the receiver reads the block  *)
(* NUMBER as a header byte.  A CRC-16 is idealised: it accepts undamaged   *)
(* blocks only.  The payload of a block is its index in the host's file.   *)
(***************************************************************************)
EXTENDS Integers, Sequences

CONSTANTS Blocks,      \* blocks of the file the host sends
          Wrap,        \* block numbers count modulo Wrap (256)
          EotNumber,   \* the block number that reads as EOT (4)
          CanNumber,   \* the block number that reads as CAN (24)
          Tries,       \* XM_HANDSHAKE_TRIES (10)
          MaxErrors,   \* XM_MAX_ERRORS (10)
          HostRetries, \* timeouts after which the host gives up
          MaxFaults,   \* bound on line faults in a behaviour
          LineMax      \* bound on what the line holds in each direction

ASSUME NumbersAssumption ==
  /\ Blocks \in Nat \ {0} /\ Wrap \in Nat \ {0, 1, 2}
  /\ EotNumber \in 0..Wrap - 1 /\ CanNumber \in 0..Wrap - 1
  /\ Tries \in Nat \ {0} /\ MaxErrors \in Nat /\ HostRetries \in Nat
  /\ MaxFaults \in Nat /\ LineMax \in Nat \ {0}

VARIABLES
  pc,        \* where resident_xmodem_receive is, or the status it returned
  tries,     \* handshake tries made
  expected,  \* number of the next block
  errors,    \* errors since the last good block
  started,   \* a block was accepted
  got,       \* what the sink was given, in order
  wire,      \* host to receiver: what is in flight
  back,      \* receiver to host: characters in flight
  host,      \* state of the host
  sending,   \* index of the block the host sends; Blocks + 1 is the EOT
  retries,   \* consecutive host timeouts
  eotSent,   \* the host reached the end of its file
  faults,    \* line faults so far
  orderly    \* history: nothing but a few faults has gone wrong (see Timely)

receiver == <<pc, tries, expected, errors, started, got>>
sender   == <<host, sending, retries, eotSent>>
vars     == <<receiver, wire, back, sender, faults, orderly>>

Statuses == {"OK", "TIMEOUT", "CANCELLED", "SYNC", "SINK"}

Number(k) == k % Wrap

\* What the line carries: a block (whole, with a bad CRC or complement, cut
\* short, or without its header byte), or a single character.
Item == [kind : {"block", "bad", "short", "headless"}, index : 1..Blocks]
          \cup [kind : {"eot", "can", "stray"}, index : {0}]
Char(k)  == [kind |-> k, index |-> 0]
Block(k) == [kind |-> "block", index |-> k]

Init ==
  /\ pc = "handshake" /\ tries = 0 /\ expected = 1 % Wrap
  /\ errors = 0 /\ started = FALSE /\ got = <<>>
  /\ wire = <<>> /\ back = <<>>
  /\ host \in {"ready", "absent"} /\ sending = 1 /\ retries = 0
  /\ eotSent = FALSE /\ faults = 0
  /\ orderly = (host = "ready")

\* What the history keeps.  A transfer is orderly as long as nobody times out
\* early (the receiver waits longer than an answer takes, the host longer than
\* the receiver), the host is there and is not cancelled, the sink accepts its
\* blocks, the line carries no fault before the host starts (any byte ends the
\* handshake, and a host that waits for 'C' never hears one again in this
\* call) and no more faults than Budget, and no block loses its header byte
\* whose number reads as EOT.
Timely(ok) == orderly' = (orderly /\ ok)
Quiet == wire = <<>> /\ back = <<>>
Budget == IF MaxErrors < Tries THEN MaxErrors ELSE Tries - 1

(***************************************************************************)
(* The receiver.                                                           *)
(***************************************************************************)

\* io->write: what does not fit the line's bound is lost to the host.
Written(c) == IF Len(back) < LineMax THEN Append(back, c) ELSE back

Done == pc \in Statuses

\* One handshake try: 'C', then a wait for the first header.  The input is
\* flushed once, before the first try.
HandshakeTry ==
  /\ pc = "handshake" /\ tries < Tries
  /\ tries > 0 => wire = <<>>
  /\ wire' = <<>>
  /\ tries' = tries + 1
  /\ back' = Written("C")
  /\ UNCHANGED <<pc, expected, errors, started, got, sender, faults>>
  /\ Timely(Quiet \/ host = "absent")

HandshakeAnswered ==
  /\ pc = "handshake" /\ wire # <<>> /\ tries > 0
  /\ pc' = "header"
  /\ UNCHANGED <<tries, expected, errors, started, got, wire, back, sender,
                 faults>>
  /\ Timely(TRUE)

HandshakeGivesUp ==
  /\ pc = "handshake" /\ wire = <<>> /\ tries = Tries
  /\ pc' = "TIMEOUT"
  /\ UNCHANGED <<tries, expected, errors, started, got, wire, back, sender,
                 faults>>
  /\ Timely(Quiet)

\* Every error is counted; the budget spent, the receiver cancels and returns.
Error(status, recovery) ==
  /\ errors' = errors + 1
  /\ IF errors + 1 > MaxErrors
     THEN pc' = status /\ back' = Written("CAN")
     ELSE recovery
  /\ UNCHANGED <<tries, expected, started, got>>

\* Most errors discard the line until it is quiet before the NAK.
ToPurge == pc' = "purge" /\ UNCHANGED back

\* No header within XM_CHAR_TIMEOUT_MS.
HeaderTimeout ==
  /\ pc = "header" /\ wire = <<>>
  /\ Error("TIMEOUT", pc' = pc /\ back' = Written("NAK"))
  /\ UNCHANGED <<wire, sender, faults>>
  /\ Timely(Quiet)

PurgeOne ==
  /\ pc = "purge" /\ wire # <<>>
  /\ wire' = Tail(wire)
  /\ UNCHANGED <<receiver, back, sender, faults>>
  /\ Timely(TRUE)

PurgeDone ==
  /\ pc = "purge" /\ wire = <<>>
  /\ pc' = "header" /\ back' = Written("NAK")
  /\ UNCHANGED <<tries, expected, errors, started, got, wire, sender, faults>>
  /\ Timely(Quiet)

Acknowledge == back' = Written("ACK")

\* EOT ends the transfer, with success if any block came before it.
TakeEot ==
  /\ pc' = IF started THEN "OK" ELSE "TIMEOUT"
  /\ Acknowledge
  /\ UNCHANGED <<tries, expected, errors, started, got>>

\* A second CAN right behind the first one cancels.
TakeCan ==
  IF Len(wire) > 1 /\ wire[2].kind = "can"
  THEN /\ pc' = "CANCELLED"
       /\ UNCHANGED <<tries, expected, errors, started, got, back>>
  ELSE Error("CANCELLED", ToPurge)

\* Mutants: a repeated block is not recognised; any other number is taken.
RepeatUnknown(n) == FALSE
AnyNumber(n) == TRUE

\* The previous block again: its ACK was lost.
IsRepeat(n) == n = (expected + Wrap - 1) % Wrap
IsExpected(n) == n = expected

\* A block that passed its CRC.
TakeBlock(k, accepted) ==
  IF IsRepeat(Number(k))
  THEN /\ errors' = 0 /\ Acknowledge
       /\ UNCHANGED <<pc, tries, expected, started, got>>
  ELSE IF ~IsExpected(Number(k))
  THEN /\ pc' = "SYNC" /\ back' = Written("CAN")
       /\ UNCHANGED <<tries, expected, errors, started, got>>
  ELSE IF ~accepted
  THEN /\ pc' = "SINK" /\ back' = Written("CAN")
       /\ UNCHANGED <<tries, expected, errors, started, got>>
  ELSE /\ got' = Append(got, k)
       /\ expected' = (expected + 1) % Wrap
       /\ started' = TRUE /\ errors' = 0 /\ Acknowledge
       /\ UNCHANGED <<pc, tries>>

\* A block without its header byte: its number is taken for one.
TakeHeadless(n) ==
  IF n = EotNumber THEN TakeEot
  ELSE IF n = CanNumber THEN Error("CANCELLED", ToPurge)
  ELSE \E s \in {"SYNC", "TIMEOUT"} : Error(s, ToPurge)

ReadsAsEot(item) == item.kind = "headless" /\ Number(item.index) = EotNumber

\* One turn of the receive loop on what arrives.
Receive(accepted) ==
  /\ pc = "header" /\ wire # <<>>
  /\ LET item == Head(wire) IN
     CASE item.kind = "block"    -> TakeBlock(item.index, accepted)
       [] item.kind = "bad"      -> Error("SYNC", ToPurge)
       [] item.kind = "short"    -> Error("TIMEOUT", ToPurge)
       [] item.kind = "headless" -> TakeHeadless(Number(item.index))
       [] item.kind = "eot"      -> TakeEot
       [] item.kind = "can"      -> TakeCan
       [] item.kind = "stray"    -> Error("SYNC", ToPurge)
  /\ wire' = Tail(wire)
  /\ UNCHANGED <<sender, faults>>
  /\ Timely(pc' # "SINK" /\ ~ReadsAsEot(Head(wire)))

Receiver == \/ HandshakeTry \/ HandshakeAnswered \/ HandshakeGivesUp
            \/ HeaderTimeout \/ PurgeOne \/ PurgeDone
            \/ \E accepted \in BOOLEAN : Receive(accepted)

(***************************************************************************)
(* The host: an ordinary stop-and-wait XMODEM sender.                      *)
(***************************************************************************)

\* The block, or the EOT, of the host's current position goes on the line.
Transmit(k) ==
  /\ Len(wire) < LineMax
  /\ wire' = Append(wire, IF k > Blocks THEN Char("eot") ELSE Block(k))
  /\ eotSent' = (eotSent \/ k > Blocks)

HostHearsStart ==
  /\ host = "ready" /\ back # <<>> /\ Head(back) = "C"
  /\ Transmit(1)
  /\ host' = "sending" /\ back' = Tail(back)
  /\ UNCHANGED <<receiver, sending, retries, faults>>
  /\ Timely(TRUE)

HostHearsAck ==
  /\ host = "sending" /\ back # <<>> /\ Head(back) = "ACK"
  /\ back' = Tail(back) /\ retries' = 0
  /\ IF sending > Blocks
     THEN host' = "finished" /\ UNCHANGED <<sending, wire, eotSent>>
     ELSE sending' = sending + 1 /\ Transmit(sending + 1) /\ UNCHANGED host
  /\ UNCHANGED <<receiver, faults>>
  /\ Timely(TRUE)

HostHearsNak ==
  /\ host = "sending" /\ back # <<>> /\ Head(back) \in {"NAK", "C"}
  /\ back' = Tail(back)
  /\ Transmit(sending)
  /\ UNCHANGED <<receiver, host, sending, retries, faults>>
  /\ Timely(TRUE)

HostHearsCancel ==
  /\ host \in {"ready", "sending"} /\ back # <<>> /\ Head(back) = "CAN"
  /\ back' = Tail(back) /\ host' = "failed"
  /\ UNCHANGED <<receiver, wire, sending, retries, eotSent, faults>>
  /\ Timely(TRUE)

HostTimeout ==
  /\ host = "sending" /\ back = <<>>
  /\ IF retries < HostRetries
     THEN retries' = retries + 1 /\ Transmit(sending) /\ UNCHANGED host
     ELSE host' = "failed" /\ UNCHANGED <<retries, wire, eotSent>>
  /\ UNCHANGED <<receiver, back, sending, faults>>
  /\ Timely(Quiet /\ Done)

\* The operator cancels: two CANs behind whatever is in flight.
HostCancels ==
  /\ host \in {"ready", "sending"} /\ Len(wire) + 2 <= LineMax
  /\ wire' = wire \o <<Char("can"), Char("can")>>
  /\ host' = "failed"
  /\ UNCHANGED <<receiver, back, sending, retries, eotSent, faults>>
  /\ Timely(FALSE)

\* What nobody listens to any more is gone.
HostIgnores ==
  /\ back # <<>>
  /\ \/ host \in {"absent", "finished", "failed"}
     \/ host = "ready" /\ Head(back) \in {"ACK", "NAK"}
  /\ back' = Tail(back)
  /\ UNCHANGED <<receiver, wire, sender, faults>>
  /\ Timely(TRUE)

Host == \/ HostHearsStart \/ HostHearsAck \/ HostHearsNak \/ HostHearsCancel
        \/ HostIgnores

(***************************************************************************)
(* The line.                                                               *)
(***************************************************************************)
Harm(item) == IF item.kind = "block"
              THEN {[item EXCEPT !.kind = k] : k \in {"bad", "short", "headless"}}
              ELSE {Char("stray")}

Without(s, i) == SubSeq(s, 1, i - 1) \o SubSeq(s, i + 1, Len(s))

LineFault ==
  /\ faults < MaxFaults
  /\ \/ \E i \in 1..Len(wire) :
          /\ \/ wire' = Without(wire, i)
             \/ \E x \in Harm(wire[i]) : wire' = [wire EXCEPT ![i] = x]
          /\ UNCHANGED back
     \/ \E i \in 1..Len(back) : back' = Without(back, i) /\ UNCHANGED wire
     \/ /\ Len(wire) < LineMax /\ wire' = Append(wire, Char("stray"))
        /\ UNCHANGED back
  /\ faults' = faults + 1
  /\ UNCHANGED <<receiver, sender>>
  /\ Timely(host = "sending" /\ faults < Budget)

Next == Receiver \/ Host \/ HostTimeout \/ HostCancels \/ LineFault

Spec == Init /\ [][Next]_vars

(***************************************************************************)
(* Properties.                                                             *)
(***************************************************************************)
ReceiverOK ==
  /\ pc \in {"handshake", "header", "purge"} \cup Statuses
  /\ tries \in 0..Tries /\ expected \in 0..Wrap - 1
  /\ errors \in 0..MaxErrors + 1 /\ started \in BOOLEAN
  /\ got \in Seq(1..Blocks)

LineOK ==
  /\ wire \in Seq(Item) /\ Len(wire) <= LineMax
  /\ back \in Seq({"C", "ACK", "NAK", "CAN"}) /\ Len(back) <= LineMax

HostOK ==
  /\ host \in {"ready", "absent", "sending", "finished", "failed"}
  /\ sending \in 1..Blocks + 1 /\ retries \in 0..HostRetries
  /\ eotSent \in BOOLEAN /\ faults \in 0..MaxFaults /\ orderly \in BOOLEAN

\* Every variable keeps its type; no error is counted behind the budget's end.
TypeOK == ReceiverOK /\ LineOK /\ HostOK

\* The sink is given the blocks of the file in order, each once, without a gap,
\* through lost ACKs, repeated blocks, early timeouts and number wrap-around.
InOrder == got = [i \in 1..Len(got) |-> i]

(***************************************************************************)
(* Liveness.                                                               *)
(***************************************************************************)

\* The boot main loop polls io->read with timeouts and does nothing else; a
\* host that is there answers and resends.
FairSpec == Spec /\ WF_vars(Receiver) /\ WF_vars(Host) /\ WF_vars(HostTimeout)

\* The receiver returns, whatever the line and the host do: silence, a cancel,
\* a refused block, or faults in every position.  An orderly transfer survives
\* as many faults as the error budget has errors (and fewer than the handshake
\* has tries), in any position, and ends with OK and the whole file: never with
\* OK for a part of it, also when a damaged block is followed by what is left
\* of it.
Complete == pc = "OK" /\ Len(got) = Blocks
Completes == <>(Done /\ (orderly => Complete))
=============================================================================
