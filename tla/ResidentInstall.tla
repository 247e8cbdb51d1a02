--------------------------- MODULE ResidentInstall ---------------------------
(***************************************************************************)
(* The serial installer of the resident bootloader                         *)
(* (src/boot/resident_de_bootloader.c) over the Flash controller driver    *)
(* (src/boot/hal_nvm/nora_nvm_dspic33ak.c).                                *)
(*                                                                         *)
(* One action per Flash operation, so that a reset or a power failure can  *)
(* fall before, during or after each of them.  The unit of data is the     *)
(* 16-byte Flash word: the package header is HdrWords words long, XMODEM   *)
(* blocks, rows and pages are whole numbers of words.  The two CRC-32s are *)
(* idealised: a CRC matches exactly when the data are the described ones.  *)
(***************************************************************************)
EXTENDS Integers

CONSTANTS Images,      \* the application images packages exist for
          Length,      \* Length[m]: payload words of image m
          HdrWords,    \* words of the manifest (64 bytes = 4)
          RowWords,    \* words programmed by one row operation (32)
          PageWords,   \* words erased by one page operation (256)
          AppWords,    \* words of the application section
          BlockWords,  \* the two XMODEM block sizes, in words (8 and 64)
          MaxFaults,   \* bound on resets and Flash faults in a behaviour
          Erased, Torn, Junk, None

\* A Flash word holds word i of image m, is Erased, is Torn (its ECC does not
\* decode: an interrupted or failed operation), or holds some other data.
Data == (Images \X Nat) \cup {Junk}
Cell == Data \cup {Erased, Torn}

ASSUME SizesAssumption ==
  /\ HdrWords \in Nat \ {0} /\ RowWords \in Nat \ {0}
  /\ PageWords \in Nat \ {0} /\ AppWords \in Nat \ {0}
  /\ PageWords % RowWords = 0 /\ AppWords % PageWords = 0
  /\ BlockWords \subseteq Nat \ {0}
  /\ MaxFaults \in Nat

\* resident_boot_manifest_validate accepts no other length.
ASSUME LengthAssumption == Length \in [Images -> 1..AppWords]

ASSUME CellAssumption ==
  /\ Erased # Torn /\ Erased # Junk /\ Torn # Junk
  /\ Erased \notin Data /\ Torn \notin Data /\ Junk \notin Images \X Nat
  /\ None \notin Images

AppAddr == 0..AppWords - 1
ManAddr == 0..HdrWords - 1

VARIABLES
  app,              \* the application section
  man,              \* the manifest words of the manifest page
  pc,               \* where the engine is
  status,           \* what the last receive_and_install returned
  manifest,         \* context.manifest: the image it describes
  header_valid,     \* context.header_valid (= context.manifest_invalidated)
  payload_written,  \* context.payload_written, in words
  payload_crc,      \* TRUE while payload_crc_state is that of the image
  next_page,        \* context.next_page, relative to the application base
  row_address,      \* context.row_address, relative to the application base
  row_fill,         \* context.row_fill, in words
  row_buffer,       \* context.row_buffer
  payload_complete, \* context.payload_complete
  block,            \* words of the current XMODEM block not yet consumed
  intact,           \* TRUE iff the current block carries the image's words
  word,             \* loop index of the partial row or of commit_manifest
  faults            \* resets and Flash faults so far (bounded by MaxFaults)

flash   == <<app, man>>
context == <<manifest, header_valid, payload_written, payload_crc, next_page,
             row_address, row_fill, row_buffer, payload_complete>>
vars    == <<flash, pc, status, context, block, intact, word, faults>>

Statuses == {"OK", "TRANSFER", "HEADER", "RANGE", "ERASE", "PROGRAM",
             "VERIFY", "CRC", "LENGTH", "NONE"}
Places   == {"off", "idle", "receive", "invalidate", "sink", "row_prepare",
             "row_program", "tail", "tail_prepare", "tail_program",
             "flash_crc", "commit"}

(***************************************************************************)
(* The manifest as a boot reads it.                                        *)
(***************************************************************************)

\* The manifest page decodes to the header of image m.
Describes(m) == man = [i \in ManAddr |-> <<m, i>>]

\* The payload of image m is in Flash: what flash_crc32 compares.
Holds(m) == \A i \in 0..Length[m] - 1 : app[i] = <<m, i>>

\* Whole pages: nora_nvm_crc_preflight widens the payload to page bounds.
PageEnd(a) == ((a + PageWords - 1) \div PageWords) * PageWords
Preflight(m) == \A a \in 0..PageEnd(Length[m]) - 1 : app[a] # Torn

\* resident_boot_installed_manifest returns true with this manifest.
Installed(m) == Describes(m) /\ Preflight(m)

(***************************************************************************)
(* The Flash controller.  A program operation changes erased words only;   *)
(* an interrupted or failing one leaves each of its words old, new or Torn.*)
(***************************************************************************)
Programmed(old, new) == IF old = Erased THEN new ELSE Torn

Hit(effect, old, new) == CASE effect = "old"  -> old
                           [] effect = "new"  -> new
                           [] effect = "torn" -> Torn

\* Section f after some of the words of cells took their new value.
Disturbed(f, cells, new, effect) ==
  [a \in DOMAIN f |-> IF a \in cells THEN Hit(effect[a], f[a], new[a])
                                     ELSE f[a]]

Effects(cells) == [cells -> {"old", "new", "torn"}]

PageCells == LET p == (row_address \div PageWords) * PageWords
             IN  p..p + PageWords - 1
RowCells  == row_address..row_address + RowWords - 1
Blank     == [a \in AppAddr |-> Erased]

\* Mutants: no page is ever erased; the partial row forgets its page.
PageDueNever == FALSE
PageDueFullRowsOnly == row_address = next_page /\ pc = "row_prepare"

\* prepare_page erases the page that the write pointer has reached.
PageDue == row_address = next_page

\* The words a row or word program would write.
Burnt == [a \in AppAddr |->
            IF a \in RowCells
            THEN Programmed(app[a], row_buffer[a - row_address]) ELSE app[a]]
BurntHeader == [i \in ManAddr |-> Programmed(man[i], <<manifest, i>>)]

\* The application words that the Flash operation of this place works on.
AppTarget == CASE pc \in {"row_prepare", "tail_prepare"}
                    -> IF PageDue THEN PageCells ELSE {}
               [] pc = "row_program"  -> RowCells
               [] pc = "tail_program" -> {row_address + word}
               [] OTHER -> {}
AppNew    == IF pc \in {"row_prepare", "tail_prepare"} THEN Blank ELSE Burnt

\* The manifest words that the Flash operation of this place works on.
ManTarget == CASE pc = "invalidate" -> ManAddr
               [] pc = "commit" -> {word}
               [] OTHER -> {}
ManNew    == IF pc = "invalidate" THEN [i \in ManAddr |-> Erased]
                                  ELSE BurntHeader

\* The operation ends early, on a fault or a reset, with some of its effect.
Interrupted ==
  /\ \E e \in Effects(AppTarget) : app' = Disturbed(app, AppTarget, AppNew, e)
  /\ \E e \in Effects(ManTarget) : man' = Disturbed(man, ManTarget, ManNew, e)

(***************************************************************************)
(* The installer.                                                          *)
(***************************************************************************)
Init ==
  /\ man \in {[i \in ManAddr |-> Erased]} \cup
             {[i \in ManAddr |-> <<m, i>>] : m \in Images}
  /\ app \in {Blank} \cup
             {[a \in AppAddr |-> IF a < Length[m] THEN <<m, a>> ELSE Erased] :
                m \in Images}
  /\ \A m \in Images : Describes(m) => Holds(m)
  /\ pc = "off" /\ status = "NONE"
  /\ manifest = None /\ header_valid = FALSE
  /\ payload_written = 0 /\ payload_crc = TRUE
  /\ next_page = 0 /\ row_address = 0 /\ row_fill = 0
  /\ row_buffer = [i \in 0..RowWords - 1 |-> Junk]
  /\ payload_complete = FALSE
  /\ block = 0 /\ intact = TRUE /\ word = 0
  /\ faults = 0

\* receive_and_install returns.
Return(s) == pc' = "idle" /\ status' = s

\* Mutant: the page pointer of the previous call is kept.
ResetKeepsPage ==
  /\ payload_written' = 0 /\ payload_crc' = TRUE
  /\ row_address' = 0 /\ row_fill' = 0
  /\ header_valid' = FALSE /\ payload_complete' = FALSE
  /\ UNCHANGED next_page

\* The assignments at the head of receive_and_install.  context.manifest is not
\* among them; nothing reads it before a header overwrites it.
ResetContext ==
  /\ payload_written' = 0 /\ payload_crc' = TRUE
  /\ next_page' = 0 /\ row_address' = 0 /\ row_fill' = 0
  /\ header_valid' = FALSE /\ payload_complete' = FALSE

\* receive_and_install is called (again): by the boot, or by its update loop.
Start ==
  /\ pc \in {"off", "idle"}
  /\ pc' = "receive" /\ status' = "NONE"
  /\ ResetContext
  /\ block' = 0 /\ word' = 0
  /\ UNCHANGED <<flash, manifest, row_buffer, intact, faults>>

\* The transfer ends without an EOT (timeout, cancel, error budget spent).
TransferFails ==
  /\ pc = "receive"
  /\ Return("TRANSFER")
  /\ UNCHANGED <<flash, context, block, intact, word, faults>>

\* receive_sink: the first block must hold a whole, valid header.
FirstBlock(n, m, ok) ==
  /\ pc = "receive" /\ ~header_valid
  /\ IF n < HdrWords \/ m = None
     THEN /\ Return("HEADER")
          /\ UNCHANGED <<manifest, block, intact>>
     ELSE /\ pc' = "invalidate"
          /\ manifest' = m /\ block' = n - HdrWords /\ intact' = ok
          /\ UNCHANGED status
  /\ UNCHANGED <<flash, header_valid, payload_written, payload_crc, next_page,
                 row_address, row_fill, row_buffer, payload_complete, word,
                 faults>>

\* Mutant: the header is accepted without erasing the old manifest.
AcceptWithoutErase ==
  /\ pc = "invalidate"
  /\ header_valid' = TRUE
  /\ pc' = "sink"
  /\ UNCHANGED <<flash, status, manifest, payload_written, payload_crc, next_page,
                 row_address, row_fill, row_buffer, payload_complete, block,
                 intact, word, faults>>

\* receive_sink: the old manifest is erased before any payload is accepted.
EraseManifest ==
  /\ pc = "invalidate"
  /\ man' = [i \in ManAddr |-> Erased]
  /\ header_valid' = TRUE
  /\ pc' = "sink"
  /\ UNCHANGED <<app, status, manifest, payload_written, payload_crc, next_page,
                 row_address, row_fill, row_buffer, payload_complete, block,
                 intact, word, faults>>

\* receive_sink: a later block; one after the payload is complete is refused
\* with no error of its own, so the call returns TRANSFER.
NextBlock(n, ok) ==
  /\ pc = "receive" /\ header_valid
  /\ IF payload_complete
     THEN Return("TRANSFER") /\ UNCHANGED <<block, intact>>
     ELSE pc' = "sink" /\ block' = n /\ intact' = ok /\ UNCHANGED status
  /\ UNCHANGED <<flash, context, word, faults>>

\* Words the copy loop of receive_sink takes in one turn: what is left of the
\* block, of the payload and of the row.
Least(S) == CHOOSE x \in S : \A y \in S : x <= y
Count == Least({block, Length[manifest] - payload_written,
                RowWords - row_fill})

\* receive_sink: one turn of the copy loop; a full row is programmed next.
Copy ==
  /\ pc = "sink" /\ Count > 0
  /\ row_buffer' = [i \in 0..RowWords - 1 |->
       IF i \in row_fill..row_fill + Count - 1
       THEN IF intact THEN <<manifest, payload_written + (i - row_fill)>>
                      ELSE Junk
       ELSE row_buffer[i]]
  /\ payload_crc' = (payload_crc /\ intact)
  /\ row_fill' = row_fill + Count
  /\ payload_written' = payload_written + Count
  /\ block' = block - Count
  /\ pc' = IF row_fill + Count = RowWords THEN "row_prepare" ELSE "sink"
  /\ UNCHANGED <<flash, status, manifest, header_valid, next_page, row_address,
                 payload_complete, intact, word, faults>>

\* receive_sink: the loop ends; padding after the payload is dropped.
BlockDone ==
  /\ pc = "sink" /\ Count = 0
  /\ payload_complete' = (payload_written = Length[manifest])
  /\ block' = 0
  /\ pc' = "receive"
  /\ UNCHANGED <<flash, status, manifest, header_valid, payload_written,
                 payload_crc, next_page, row_address, row_fill, row_buffer,
                 intact, word, faults>>

\* The address checks of program_full_row, prepare_page and erase_page.
OutOfRange ==
  \/ pc = "row_prepare" /\ row_address + RowWords > Length[manifest]
  \/ row_address > next_page
  \/ PageDue /\ (row_address % PageWords # 0 \/ row_address >= AppWords)

\* program_full_row and program_partial_row call prepare_page first: a page is
\* erased when the write pointer reaches it, and never skipped.
PreparePage(here, there) ==
  /\ pc = here
  /\ IF OutOfRange
     THEN Return("RANGE") /\ UNCHANGED <<app, next_page>>
     ELSE /\ pc' = there /\ UNCHANGED status
          /\ app' = [a \in AppAddr |-> IF PageDue /\ a \in PageCells
                                       THEN Erased ELSE app[a]]
          /\ next_page' = IF PageDue THEN next_page + PageWords ELSE next_page
  /\ UNCHANGED <<man, manifest, header_valid, payload_written, payload_crc,
                 row_address, row_fill, row_buffer, payload_complete, block,
                 intact, word, faults>>

\* A program operation that reports success, with or without its whole effect.
Programs ==
  \/ /\ app' = [a \in AppAddr |-> IF a \in AppTarget THEN AppNew[a] ELSE app[a]]
     /\ man' = [i \in ManAddr |-> IF i \in ManTarget THEN ManNew[i] ELSE man[i]]
     /\ UNCHANGED faults
  \/ faults < MaxFaults /\ Interrupted /\ faults' = faults + 1

\* nora_nvm_verify after nora_nvm_row_program.
RowReadsBack == \A a \in RowCells : app'[a] = row_buffer[a - row_address]

\* program_full_row: the row is programmed and read back.
ProgramRow ==
  /\ pc = "row_program"
  /\ Programs
  /\ IF RowReadsBack
     THEN /\ row_address' = row_address + RowWords /\ row_fill' = 0
          /\ pc' = "sink" /\ UNCHANGED status
     ELSE Return("VERIFY") /\ UNCHANGED <<row_address, row_fill>>
  /\ UNCHANGED <<manifest, header_valid, payload_written, payload_crc,
                 next_page, row_buffer, payload_complete, block, intact, word>>

\* EOT: length and received-CRC checks, then the partial row if there is one.
EndOfTransfer ==
  /\ pc = "receive"
  /\ IF ~header_valid \/ ~payload_complete THEN Return("LENGTH")
     ELSE IF ~payload_crc THEN Return("CRC")
     ELSE /\ pc' = IF row_fill = 0 THEN "flash_crc" ELSE "tail_prepare"
          /\ UNCHANGED status
  /\ word' = 0
  /\ UNCHANGED <<flash, context, block, intact, faults>>

\* program_partial_row: one turn of its loop (program_word: program, verify).
TailWordReadsBack == app'[row_address + word] = row_buffer[word]
TailWordDone ==
  /\ UNCHANGED status
  /\ IF word + 1 < row_fill
     THEN /\ word' = word + 1
          /\ UNCHANGED <<pc, row_address, row_fill>>
     ELSE /\ row_address' = row_address + row_fill
          /\ row_fill' = 0 /\ word' = 0 /\ pc' = "flash_crc"
TailWordFails(s) == Return(s) /\ UNCHANGED <<word, row_address, row_fill>>

ProgramTailWord ==
  /\ pc = "tail_program"
  /\ IF row_address + word >= Length[manifest]
     THEN TailWordFails("RANGE") /\ UNCHANGED <<flash, faults>>
     ELSE Programs /\ IF TailWordReadsBack THEN TailWordDone
                                           ELSE TailWordFails("VERIFY")
  /\ UNCHANGED <<manifest, header_valid, payload_written, payload_crc,
                 next_page, row_buffer, payload_complete, block, intact>>

\* flash_crc32 over the whole programmed payload, before the commit.
CheckFlash ==
  /\ pc = "flash_crc"
  /\ IF Holds(manifest) THEN pc' = "commit" /\ UNCHANGED status
                        ELSE Return("VERIFY")
  /\ word' = 0
  /\ UNCHANGED <<flash, context, block, intact, faults>>

\* Mutant: the programmed header is not read back.
HeaderWordTrusted == TRUE
\* commit_manifest: one turn of its loop; the last word makes it valid.
HeaderWordReadsBack == man'[word] = <<manifest, word>>
CommitWord ==
  /\ pc = "commit"
  /\ Programs
  /\ IF ~HeaderWordReadsBack THEN Return("VERIFY") /\ UNCHANGED word
     ELSE IF word + 1 < HdrWords
          THEN word' = word + 1 /\ UNCHANGED <<pc, status>>
          ELSE Return("OK") /\ UNCHANGED word
  /\ UNCHANGED <<context, block, intact>>

\* The Flash operation reports an error (WRERR), with some of its effect.
FlashError ==
  /\ faults < MaxFaults
  /\ AppTarget # {} \/ ManTarget # {}
  /\ Interrupted
  /\ Return(IF pc \in {"invalidate", "row_prepare", "tail_prepare"}
            THEN "ERASE" ELSE "PROGRAM")
  /\ faults' = faults + 1
  /\ UNCHANGED <<context, block, intact, word>>

\* A reset or a power failure anywhere; the start-up code clears the RAM.
Crash ==
  /\ faults < MaxFaults /\ pc # "off"
  /\ Interrupted
  /\ faults' = faults + 1
  /\ pc' = "off" /\ status' = "NONE"
  /\ manifest' = None /\ header_valid' = FALSE
  /\ payload_written' = 0 /\ payload_crc' = TRUE
  /\ next_page' = 0 /\ row_address' = 0 /\ row_fill' = 0
  /\ row_buffer' = [i \in 0..RowWords - 1 |-> Junk]
  /\ payload_complete' = FALSE
  /\ block' = 0 /\ intact' = TRUE /\ word' = 0

Engine == \/ EraseManifest \/ Copy \/ BlockDone
          \/ PreparePage("row_prepare", "row_program")
          \/ PreparePage("tail_prepare", "tail_program")
          \/ ProgramRow \/ ProgramTailWord \/ CheckFlash \/ CommitWord

Host == \/ \E n \in BlockWords, ok \in BOOLEAN :
             \/ \E m \in Images \cup {None} : FirstBlock(n, m, ok)
             \/ NextBlock(n, ok)
        \/ EndOfTransfer
        \/ TransferFails

Next == Start \/ Engine \/ Host \/ FlashError \/ Crash

Spec == Init /\ [][Next]_vars

(***************************************************************************)
(* Properties.                                                             *)
(***************************************************************************)

\* Every variable keeps its type.
TypeOK ==
  /\ app \in [AppAddr -> Cell] /\ man \in [ManAddr -> Cell]
  /\ pc \in Places /\ status \in Statuses
  /\ manifest \in Images \cup {None} /\ header_valid \in BOOLEAN
  /\ payload_written \in Nat /\ payload_crc \in BOOLEAN
  /\ next_page \in Nat /\ row_address \in Nat
  /\ row_fill \in 0..RowWords /\ row_buffer \in [0..RowWords - 1 -> Data]
  /\ payload_complete \in BOOLEAN
  /\ block \in Nat /\ intact \in BOOLEAN
  /\ word \in Nat /\ faults \in 0..MaxFaults

\* A manifest that validates describes a payload that is in Flash, whole,
\* whatever was interrupted before (resident_de_bootloader.h:22-25: "a valid
\* manifest already proves a complete, verified install").
InstalledIsWhole == \A m \in Images : Describes(m) => Holds(m)

\* A committed image is also one a boot accepts: the page-granular ECC
\* preflight meets no torn word, not even behind the end of the payload in
\* its last page.
InstalledIsReadable == \A m \in Images : Describes(m) => Preflight(m)

\* receive_and_install returns OK only with the received image installed and
\* bootable, until the next call.
OkMeansInstalled == status = "OK" => Installed(manifest) /\ Holds(manifest)

\* While some image is installed no application word changes: the old image
\* stays launchable until its manifest is gone.
OldImageUntouched ==
  [][(\E m \in Images : Describes(m)) => app' = app]_vars

\* A Flash word is programmed only when erased: it never goes from one
\* contents to another without an erase in between.
NoOverprogramming ==
  [][/\ pc = "row_program" => \A a \in RowCells : app[a] = Erased
     /\ pc = "tail_program" => app[row_address + word] = Erased
     /\ pc = "commit" => man[word] = Erased]_vars

\* The installer implements the atomic update: the image a boot would launch
\* (Torn when its payload is not whole) is the installed one.
LaunchedImage ==
  IF \E m \in Images : Installed(m)
  THEN LET m == CHOOSE m \in Images : Installed(m)
       IN  IF Holds(m) THEN m ELSE Torn
  ELSE None
Receiving == pc \notin {"off", "idle"} /\ (header_valid \/ pc = "invalidate")
Abstract == INSTANCE AtomicUpdate WITH
              installed <- LaunchedImage,
              incoming  <- IF Receiving THEN manifest ELSE None
ImplementsAtomicUpdate == Abstract!Spec

(***************************************************************************)
(* A host that repeats a well-formed transfer until it is told OK.         *)
(***************************************************************************)
GoodHost ==
  \/ \E n \in BlockWords :
       \/ \E m \in Images : n >= HdrWords /\ FirstBlock(n, m, TRUE)
       \/ ~payload_complete /\ NextBlock(n, TRUE)
  \/ payload_complete /\ EndOfTransfer

Persistent == Start \/ Engine \/ GoodHost

\* Whatever torn state the Flash and the engine were left in, by whatever
\* host: from some moment on, repeating a well-formed transfer undisturbed
\* succeeds.  No reachable Flash content wedges the updater.
EventuallyInstalled ==
  <>[][Persistent]_vars /\ WF_vars(Persistent) => []<>(status = "OK")
=============================================================================
