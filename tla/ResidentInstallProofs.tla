------------------------ MODULE ResidentInstallProofs ------------------------
(***************************************************************************)
(* ResidentInstall proved for all images, lengths and Flash geometries.    *)
(***************************************************************************)
EXTENDS ResidentInstall, TLAPS

(***************************************************************************)
(* The inductive invariant.                                                *)
(***************************************************************************)

\* Between the accepted header and the commit no manifest word is programmed.
Programming == \/ pc \in {"sink", "row_prepare", "row_program", "tail_prepare",
                          "tail_program", "flash_crc"}
               \/ pc = "receive" /\ header_valid
ManifestErased == Programming => \A i \in ManAddr : man[i] = Erased

\* The commit writes, in order, the manifest of a payload that is in Flash.
CommitSound ==
  pc = "commit" => /\ Holds(manifest)
                   /\ word \in ManAddr
                   /\ \A i \in ManAddr : i >= word => man[i] = Erased

\* The context describes a known image, and no more than its payload.
ContextSound ==
  /\ (Programming \/ pc \in {"invalidate", "commit"}) => manifest \in Images
  /\ Programming => payload_written <= Length[manifest]
  /\ (pc = "invalidate" \/ (pc = "receive" /\ ~header_valid))
        => payload_written = 0
  /\ pc \in {"sink", "row_prepare", "row_program", "tail_prepare",
             "tail_program", "flash_crc", "commit"} => header_valid
  /\ pc = "invalidate" => ~header_valid

IInv == /\ TypeOK
        /\ InstalledIsWhole
        /\ ManifestErased
        /\ CommitSound
        /\ ContextSound

(***************************************************************************)
(* Lemmas about the Flash operations.                                      *)
(***************************************************************************)

\* What one turn of the copy loop takes is the least of three lengths.
LEMMA LeastIsLeast ==
  ASSUME NEW a \in Int, NEW b \in Int, NEW c \in Int
  PROVE  /\ Least({a, b, c}) \in {a, b, c}
         /\ Least({a, b, c}) <= a
         /\ Least({a, b, c}) <= b
         /\ Least({a, b, c}) <= c
<1>1. \E x \in {a, b, c} : \A y \in {a, b, c} : x <= y
  <2>1. CASE a <= b /\ a <= c BY <2>1
  <2>2. CASE b <= a /\ b <= c BY <2>2
  <2>3. CASE c <= a /\ c <= b BY <2>3
  <2> QED BY <2>1, <2>2, <2>3
<1> DEFINE l == CHOOSE x \in {a, b, c} : \A y \in {a, b, c} : x <= y
<1>2. l \in {a, b, c} /\ \A y \in {a, b, c} : l <= y BY <1>1, Zenon
<1>3. Least({a, b, c}) = l BY DEF Least
<1> HIDE DEF l
<1> QED BY <1>2, <1>3

\* The application words a Flash operation aims at hold cells.
LEMMA AppNewType ==
  ASSUME TypeOK PROVE AppNew \in [AppAddr -> Cell]
<1>1. Blank \in [AppAddr -> Cell] BY DEF Blank, Cell
<1>2. Burnt \in [AppAddr -> Cell]
  <2> SUFFICES ASSUME NEW a \in AppAddr
               PROVE  (IF a \in RowCells
                       THEN Programmed(app[a], row_buffer[a - row_address])
                       ELSE app[a]) \in Cell
    BY DEF Burnt
  <2>1. CASE a \in RowCells
    <3>1. a - row_address \in 0..RowWords - 1
      BY <2>1, SizesAssumption DEF RowCells, TypeOK, AppAddr
    <3> QED BY <3>1, <2>1 DEF TypeOK, Programmed, Cell
  <2>2. CASE a \notin RowCells BY <2>2 DEF TypeOK
  <2> QED BY <2>1, <2>2
<1> QED BY <1>1, <1>2 DEF AppNew

\* The same for the manifest words.
LEMMA ManNewType ==
  ASSUME TypeOK, ManTarget # {}, pc = "commit" => manifest \in Images
  PROVE  ManNew \in [ManAddr -> Cell]
<1>1. CASE pc = "invalidate" BY <1>1 DEF ManNew, Cell
<1>2. CASE pc = "commit"
  <2>1. \A i \in ManAddr : <<manifest, i>> \in Cell
    BY <1>2 DEF Cell, Data, ManAddr
  <2>2. \A i \in ManAddr : Programmed(man[i], <<manifest, i>>) \in Cell
    BY <2>1 DEF Programmed, Cell
  <2> QED BY <2>2, <1>2 DEF ManNew, BurntHeader
<1> QED BY <1>1, <1>2 DEF ManTarget

\* A Flash operation, complete, wrong or interrupted, leaves every word outside
\* its target alone, and every word of it old, new or torn.
FlashStep ==
  /\ app' \in [AppAddr -> Cell] /\ man' \in [ManAddr -> Cell]
  /\ AppTarget = {} => app' = app
  /\ ManTarget = {} => man' = man
  /\ \A i \in ManAddr : IF i \in ManTarget
                        THEN man'[i] \in {man[i], ManNew[i], Torn}
                        ELSE man'[i] = man[i]
  /\ \A a \in AppAddr : a \notin AppTarget => app'[a] = app[a]

LEMMA DisturbedType ==
  ASSUME NEW A, NEW f \in [A -> Cell], NEW T, NEW n, NEW e \in Effects(T),
         T # {} => n \in [A -> Cell]
  PROVE  /\ Disturbed(f, T, n, e) \in [A -> Cell]
         /\ T = {} => Disturbed(f, T, n, e) = f
         /\ \A a \in A : IF a \in T
                         THEN Disturbed(f, T, n, e)[a] \in {f[a], n[a], Torn}
                         ELSE Disturbed(f, T, n, e)[a] = f[a]
<1>1. \A a \in A : Disturbed(f, T, n, e)[a] =
        IF a \in T THEN Hit(e[a], f[a], n[a]) ELSE f[a]
  BY DEF Disturbed
<1>2. \A a \in A : a \in T => Hit(e[a], f[a], n[a]) \in {f[a], n[a], Torn}
  BY DEF Hit, Effects
<1>3. \A a \in A : Disturbed(f, T, n, e)[a] \in Cell
  BY <1>1, <1>2 DEF Cell
<1>4. Disturbed(f, T, n, e) = [a \in A |-> Disturbed(f, T, n, e)[a]]
  BY DEF Disturbed
<1> QED BY <1>1, <1>2, <1>3, <1>4

LEMMA InterruptedStep ==
  ASSUME TypeOK, Interrupted, pc = "commit" => manifest \in Images
  PROVE  FlashStep
<1>1. PICK e \in Effects(AppTarget) :
        app' = Disturbed(app, AppTarget, AppNew, e)
  BY DEF Interrupted
<1>2. PICK g \in Effects(ManTarget) :
        man' = Disturbed(man, ManTarget, ManNew, g)
  BY DEF Interrupted
<1>3. /\ app' \in [AppAddr -> Cell] /\ (AppTarget = {} => app' = app)
      /\ \A a \in AppAddr : a \notin AppTarget => app'[a] = app[a]
  BY <1>1, AppNewType, DisturbedType DEF TypeOK
<1>4. /\ man' \in [ManAddr -> Cell] /\ (ManTarget = {} => man' = man)
      /\ \A i \in ManAddr : IF i \in ManTarget
                            THEN man'[i] \in {man[i], ManNew[i], Torn}
                            ELSE man'[i] = man[i]
  BY <1>2, ManNewType, DisturbedType DEF TypeOK
<1> QED BY <1>3, <1>4 DEF FlashStep

LEMMA ProgramsStep ==
  ASSUME TypeOK, Programs, pc = "commit" => manifest \in Images
  PROVE  FlashStep /\ faults' \in 0..MaxFaults
<1>1. CASE /\ app' = [a \in AppAddr |-> IF a \in AppTarget THEN AppNew[a]
                                                          ELSE app[a]]
           /\ man' = [i \in ManAddr |-> IF i \in ManTarget THEN ManNew[i]
                                                          ELSE man[i]]
           /\ UNCHANGED faults
  <2>1. /\ app' \in [AppAddr -> Cell] /\ (AppTarget = {} => app' = app)
        /\ \A a \in AppAddr : a \notin AppTarget => app'[a] = app[a]
    BY <1>1, AppNewType DEF TypeOK
  <2>2. man' \in [ManAddr -> Cell] /\ (ManTarget = {} => man' = man)
    BY <1>1, ManNewType DEF TypeOK
  <2> QED BY <1>1, <2>1, <2>2 DEF FlashStep, TypeOK
<1>2. CASE faults < MaxFaults /\ Interrupted /\ faults' = faults + 1
  BY <1>2, InterruptedStep, SizesAssumption DEF TypeOK
<1> QED BY <1>1, <1>2 DEF Programs

(***************************************************************************)
(* A manifest that becomes valid while it is erased or rewritten was valid *)
(* before, or is the one being committed.                                  *)
(***************************************************************************)
LEMMA ErasedDescribesNothing ==
  ASSUME \A i \in ManAddr : man[i] = Erased, NEW m \in Images
  PROVE  ~Describes(m)
<1>1. 0 \in ManAddr BY SizesAssumption DEF ManAddr
<1>2. <<m, 0>> \in Data BY DEF Data
<1> QED BY <1>1, <1>2, CellAssumption DEF Describes

\* Interrupting the erase of a manifest never makes another one.
LEMMA InterruptedErase ==
  ASSUME TypeOK, FlashStep, pc = "invalidate", NEW m \in Images, Describes(m)'
  PROVE  Describes(m) /\ app' = app
<1>1. app' = app BY DEF FlashStep, AppTarget
<1>2. ASSUME NEW i \in ManAddr PROVE man[i] = <<m, i>>
  <2>1. man'[i] = <<m, i>> BY DEF Describes
  <2>2. <<m, i>> \in Data BY DEF Data, ManAddr
  <2>3. ManNew[i] = Erased BY DEF ManNew
  <2>4. i \in ManTarget BY DEF ManTarget
  <2> QED BY <2>1, <2>2, <2>3, <2>4, CellAssumption DEF FlashStep
<1>3. man = [i \in ManAddr |-> man[i]] BY DEF TypeOK
<1>4. man = [i \in ManAddr |-> <<m, i>>] BY <1>2, <1>3
<1> QED BY <1>1, <1>4 DEF Describes

\* A manifest that is complete during the commit is the received one.
LEMMA CommitMakesReceived ==
  ASSUME IInv, FlashStep, pc = "commit", NEW m \in Images, Describes(m)'
  PROVE  Holds(m)'
<1>1. app' = app BY DEF FlashStep, AppTarget
<1>2. word \in ManAddr /\ Holds(manifest) /\ man[word] = Erased
  BY DEF IInv, CommitSound, ManAddr
<1>3. man'[word] = <<m, word>> BY <1>2 DEF Describes
<1>4. <<m, word>> \in Data BY <1>2 DEF Data, ManAddr
<1>5. word \in ManTarget BY DEF ManTarget
<1>6. ManNew[word] = <<manifest, word>>
  BY <1>2 DEF ManNew, BurntHeader, Programmed
<1>7. <<m, word>> = <<manifest, word>>
  BY <1>2, <1>3, <1>4, <1>5, <1>6, CellAssumption DEF FlashStep
<1>8. m = manifest BY <1>7
<1> QED BY <1>1, <1>2, <1>8 DEF Holds

\* In every other place the manifest is not being written.
LEMMA ManifestKept ==
  ASSUME FlashStep, pc \notin {"invalidate", "commit"}
  PROVE  man' = man
BY DEF FlashStep, ManTarget

\* Cutting any Flash operation short keeps installed images whole.
LEMMA InterruptedKeepsWhole ==
  ASSUME IInv, FlashStep PROVE InstalledIsWhole'
<1> SUFFICES ASSUME NEW m \in Images, Describes(m)' PROVE Holds(m)'
  BY DEF InstalledIsWhole
<1>1. CASE pc = "invalidate"
  <2>1. Describes(m) /\ app' = app BY <1>1, InterruptedErase DEF IInv
  <2>2. Holds(m) BY <2>1 DEF IInv, InstalledIsWhole
  <2> QED BY <2>1, <2>2 DEF Holds
<1>2. CASE pc = "commit" BY <1>2, CommitMakesReceived
<1>3. CASE pc \notin {"invalidate", "commit"}
  <2>1. man' = man BY <1>3, ManifestKept
  <2>2. Describes(m) BY <2>1 DEF Describes
  <2>3. ~Programming BY <2>2, ErasedDescribesNothing DEF IInv, ManifestErased
  <2>4. app' = app BY <2>3 DEF FlashStep, AppTarget, Programming
  <2>5. Holds(m) BY <2>2 DEF IInv, InstalledIsWhole
  <2> QED BY <2>4, <2>5 DEF Holds
<1> QED BY <1>1, <1>2, <1>3

(***************************************************************************)
(* Initiation.                                                             *)
(***************************************************************************)
LEMMA InitIInv == Init => IInv
<1> SUFFICES ASSUME Init PROVE IInv OBVIOUS
<1>1. TypeOK
  <2>1. man \in [ManAddr -> Cell]
    BY DEF Init, Cell, Data, ManAddr
  <2>2. app \in [AppAddr -> Cell]
    BY DEF Init, Cell, Data, AppAddr, Blank
  <2>3. row_buffer \in [0..RowWords - 1 -> Data] BY DEF Init, Data
  <2>4. /\ header_valid \in BOOLEAN /\ payload_crc \in BOOLEAN
        /\ payload_complete \in BOOLEAN /\ intact \in BOOLEAN
    BY DEF Init
  <2>5. /\ row_fill \in 0..RowWords /\ faults \in 0..MaxFaults
        /\ payload_written \in Nat /\ next_page \in Nat /\ row_address \in Nat
        /\ block \in Nat /\ word \in Nat
    BY SizesAssumption DEF Init
  <2>6. /\ pc \in Places /\ status \in Statuses
        /\ manifest \in Images \cup {None}
    BY DEF Init, Places, Statuses
  <2> QED BY <2>1, <2>2, <2>3, <2>4, <2>5, <2>6 DEF TypeOK
<1>2. InstalledIsWhole BY DEF Init, InstalledIsWhole
<1>3. ManifestErased /\ CommitSound /\ ContextSound
  BY DEF Init, ManifestErased, CommitSound, ContextSound, Programming
<1> QED BY <1>1, <1>2, <1>3 DEF IInv

(***************************************************************************)
(* Consecution, one lemma per action.                                      *)
(***************************************************************************)
USE DEF Return

LEMMA StartStep == ASSUME IInv, Start PROVE IInv'
<1>1. TypeOK'
  <2>1. /\ header_valid' \in BOOLEAN /\ payload_crc' \in BOOLEAN
        /\ payload_complete' \in BOOLEAN
    BY DEF Start, ResetContext
  <2>2. /\ row_fill' \in 0..RowWords
        /\ payload_written' \in Nat /\ next_page' \in Nat
        /\ row_address' \in Nat /\ block' \in Nat /\ word' \in Nat
    BY SizesAssumption DEF Start, ResetContext
  <2>3. /\ pc' \in Places /\ status' \in Statuses
        /\ UNCHANGED <<flash, manifest, row_buffer, intact, faults>>
    BY DEF Start, Places, Statuses
  <2> QED BY <2>1, <2>2, <2>3 DEF IInv, TypeOK, flash
<1>2. InstalledIsWhole'
  BY DEF Start, flash, IInv, InstalledIsWhole, Describes, Holds
<1>3. ManifestErased' /\ CommitSound' /\ ContextSound'
  BY DEF Start, ResetContext, ManifestErased, CommitSound, ContextSound, Programming
<1> QED BY <1>1, <1>2, <1>3 DEF IInv

LEMMA TransferFailsStep == ASSUME IInv, TransferFails PROVE IInv'
<1>1. TypeOK'
  BY DEF TransferFails, IInv, TypeOK, Places, Statuses, flash, context
<1>2. InstalledIsWhole'
  BY DEF TransferFails, flash, IInv, InstalledIsWhole, Describes, Holds
<1>3. ManifestErased' /\ CommitSound' /\ ContextSound'
  BY DEF TransferFails, ManifestErased, CommitSound, ContextSound, Programming
<1> QED BY <1>1, <1>2, <1>3 DEF IInv

LEMMA FirstBlockStep ==
  ASSUME IInv, NEW n \in BlockWords, NEW m \in Images \cup {None},
         NEW ok \in BOOLEAN, FirstBlock(n, m, ok)
  PROVE  IInv'
<1>1. n \in Nat BY SizesAssumption
<1>2. TypeOK'
  <2>1. CASE n < HdrWords \/ m = None
    BY <2>1 DEF FirstBlock, IInv, TypeOK, Places, Statuses, flash
  <2>2. CASE ~(n < HdrWords \/ m = None)
    <3>1. block' \in Nat BY <1>1, <2>2, SizesAssumption DEF FirstBlock
    <3>2. manifest' \in Images BY <2>2 DEF FirstBlock
    <3> QED BY <2>2, <3>1, <3>2
          DEF FirstBlock, IInv, TypeOK, Places, Statuses, flash
  <2> QED BY <2>1, <2>2
<1>3. InstalledIsWhole'
  BY DEF FirstBlock, flash, IInv, InstalledIsWhole, Describes, Holds
<1>4. ManifestErased' /\ CommitSound'
  BY DEF FirstBlock, ManifestErased, CommitSound, Programming
<1>5. ContextSound'
  BY DEF FirstBlock, IInv, ContextSound, Programming
<1> QED BY <1>2, <1>3, <1>4, <1>5 DEF IInv

LEMMA NextBlockStep ==
  ASSUME IInv, NEW n \in BlockWords, NEW ok \in BOOLEAN, NextBlock(n, ok)
  PROVE  IInv'
<1>1. n \in Nat BY SizesAssumption
<1>2. TypeOK'
  BY <1>1 DEF NextBlock, IInv, TypeOK, Places, Statuses, flash, context
<1>3. InstalledIsWhole'
  BY DEF NextBlock, flash, IInv, InstalledIsWhole, Describes, Holds
<1>4. ManifestErased' /\ CommitSound'
  BY DEF NextBlock, flash, context, IInv, ManifestErased, CommitSound, Programming
<1>5. ContextSound'
  BY DEF NextBlock, context, IInv, ContextSound, Programming
<1> QED BY <1>2, <1>3, <1>4, <1>5 DEF IInv

LEMMA EraseManifestStep == ASSUME IInv, EraseManifest PROVE IInv'
<1>1. TypeOK'
  BY DEF EraseManifest, IInv, TypeOK, Places, Cell
<1>2. ManifestErased' BY DEF EraseManifest, ManifestErased
<1>3. (\A i \in ManAddr : man[i] = Erased)' BY DEF EraseManifest
<1>4. \A m \in Images : ~Describes(m)'
  <2>1. 0 \in ManAddr BY SizesAssumption DEF ManAddr
  <2>2. \A m \in Images : <<m, 0>> \in Data BY DEF Data
  <2> QED BY <1>3, <2>1, <2>2, CellAssumption DEF Describes
<1>5. InstalledIsWhole' BY <1>4 DEF InstalledIsWhole
<1>6. CommitSound' /\ ContextSound'
  <2>1. manifest \in Images /\ payload_written = 0
    BY DEF IInv, ContextSound, EraseManifest
  <2>2. 0 <= Length[manifest] BY <2>1, LengthAssumption
  <2> QED BY <2>1, <2>2
        DEF EraseManifest, CommitSound, ContextSound, Programming
<1> QED BY <1>1, <1>2, <1>5, <1>6 DEF IInv

\* A step that leaves Flash alone and stays clear of the commit.
LEMMA FlashAlone ==
  ASSUME IInv, UNCHANGED flash, UNCHANGED <<manifest, header_valid>>,
         pc' # "commit", Programming' => Programming
  PROVE  InstalledIsWhole' /\ ManifestErased' /\ CommitSound'
<1>1. InstalledIsWhole'
  BY DEF flash, IInv, InstalledIsWhole, Describes, Holds
<1>2. ManifestErased' BY DEF flash, IInv, ManifestErased
<1> QED BY <1>1, <1>2 DEF CommitSound

\* In the copy loop Count lies between 0 and each of its three bounds.
LEMMA CountBounds ==
  ASSUME IInv, pc = "sink"
  PROVE  /\ Count \in Nat /\ Count <= block
         /\ Count <= Length[manifest] - payload_written
         /\ Count <= RowWords - row_fill
<1>1. manifest \in Images /\ payload_written <= Length[manifest]
  BY DEF IInv, ContextSound, Programming
<1>2. /\ block \in Nat /\ Length[manifest] \in Nat /\ payload_written \in Nat
      /\ row_fill \in 0..RowWords /\ RowWords \in Nat
  BY <1>1, LengthAssumption, SizesAssumption DEF IInv, TypeOK
<1>3. /\ Length[manifest] - payload_written \in Int
      /\ RowWords - row_fill \in Int
      /\ Length[manifest] - payload_written >= 0 /\ RowWords - row_fill >= 0
  BY <1>1, <1>2
<1>4. /\ Count \in {block, Length[manifest] - payload_written,
                    RowWords - row_fill}
      /\ Count <= block
      /\ Count <= Length[manifest] - payload_written
      /\ Count <= RowWords - row_fill
  <2> DEFINE x == Length[manifest] - payload_written
             y == RowWords - row_fill
  <2>1. x \in Int /\ y \in Int /\ block \in Int BY <1>2, <1>3
  <2>2. Count = Least({block, x, y}) BY DEF Count
  <2> HIDE DEF x, y
  <2>3. /\ Least({block, x, y}) \in {block, x, y}
        /\ Least({block, x, y}) <= block
        /\ Least({block, x, y}) <= x
        /\ Least({block, x, y}) <= y
    BY <2>1, LeastIsLeast
  <2> QED BY <2>2, <2>3 DEF x, y
<1> QED BY <1>2, <1>3, <1>4

LEMMA CopyStep == ASSUME IInv, Copy PROVE IInv'
<1> DEFINE c == Count
<1>1. /\ c \in Nat /\ c <= block
      /\ c <= Length[manifest] - payload_written /\ c <= RowWords - row_fill
  BY CountBounds DEF Copy
<1>2. manifest \in Images /\ header_valid
  BY DEF IInv, ContextSound, Programming, Copy
<1>3. /\ row_fill' = row_fill + c /\ payload_written' = payload_written + c
      /\ block' = block - c
      /\ pc' \in {"row_prepare", "sink"}
      /\ payload_crc' = (payload_crc /\ intact)
      /\ UNCHANGED <<flash, status, manifest, header_valid, next_page,
                     row_address, payload_complete, intact, word, faults>>
  BY DEF Copy
<1>4. row_buffer' \in [0..RowWords - 1 -> Data]
  <2>1. \A i \in 0..RowWords - 1 : i \in row_fill..row_fill + c - 1 =>
          payload_written + (i - row_fill) \in Nat
    BY <1>1, SizesAssumption DEF IInv, TypeOK
  <2> HIDE DEF c
  <2>2. row_buffer' = [i \in 0..RowWords - 1 |->
          IF i \in row_fill..row_fill + c - 1
          THEN IF intact THEN <<manifest, payload_written + (i - row_fill)>>
                         ELSE Junk
          ELSE row_buffer[i]]
    BY DEF Copy, c
  <2>3. \A i \in 0..RowWords - 1 : i \in row_fill..row_fill + c - 1 =>
          <<manifest, payload_written + (i - row_fill)>> \in Data
    BY <1>2, <2>1 DEF Data
  <2>4. Junk \in Data BY DEF Data
  <2>5. \A i \in 0..RowWords - 1 : row_buffer[i] \in Data
    BY DEF IInv, TypeOK
  <2> QED BY <2>2, <2>3, <2>4, <2>5
<1> HIDE DEF c
<1>5. /\ row_fill' \in 0..RowWords /\ payload_written' \in Nat /\ block' \in Nat
      /\ payload_written' <= Length[manifest]
  <2>1. Length[manifest] \in Nat BY <1>2, LengthAssumption
  <2> QED BY <1>1, <1>3, <2>1, SizesAssumption DEF IInv, TypeOK
<1>6. payload_crc' \in BOOLEAN BY <1>3 DEF IInv, TypeOK
<1>7. TypeOK'
  BY <1>3, <1>4, <1>5, <1>6 DEF IInv, TypeOK, Places, Statuses, flash
<1>8. ContextSound'
  BY <1>2, <1>3, <1>5 DEF ContextSound, Programming
<1>9. InstalledIsWhole' /\ ManifestErased' /\ CommitSound'
  <2>1. Programming BY DEF Copy, Programming
  <2> QED BY <2>1, <1>3, FlashAlone
<1> QED BY <1>7, <1>8, <1>9 DEF IInv

LEMMA BlockDoneStep == ASSUME IInv, BlockDone PROVE IInv'
<1>1. payload_complete' \in BOOLEAN BY DEF BlockDone
<1>2. TypeOK'
  BY <1>1 DEF BlockDone, IInv, TypeOK, Places, Statuses, flash
<1>3. ContextSound' BY DEF BlockDone, IInv, ContextSound, Programming
<1>4. InstalledIsWhole' /\ ManifestErased' /\ CommitSound'
  <2>1. Programming BY DEF BlockDone, Programming
  <2> QED BY <2>1, FlashAlone DEF BlockDone
<1> QED BY <1>2, <1>3, <1>4 DEF IInv

LEMMA EndOfTransferStep == ASSUME IInv, EndOfTransfer PROVE IInv'
<1>1. pc' \in {"idle", "flash_crc", "tail_prepare"} /\ status' \in Statuses
  BY DEF EndOfTransfer, IInv, TypeOK, Statuses
<1>2. TypeOK'
  BY <1>1 DEF EndOfTransfer, IInv, TypeOK, Places, flash, context
<1>3. pc' # "idle" => header_valid BY DEF EndOfTransfer
<1>4. ContextSound'
  BY <1>1, <1>3
  DEF EndOfTransfer, context, IInv, ContextSound, Programming
<1>5. InstalledIsWhole' /\ ManifestErased' /\ CommitSound'
  <2>1. Programming' => Programming
    BY <1>1, <1>3 DEF EndOfTransfer, Programming
  <2> QED BY <2>1, <1>1, FlashAlone DEF EndOfTransfer, context
<1> QED BY <1>2, <1>4, <1>5 DEF IInv

LEMMA CheckFlashStep == ASSUME IInv, CheckFlash PROVE IInv'
<1>1. pc' \in {"idle", "commit"} /\ status' \in Statuses
  BY DEF CheckFlash, IInv, TypeOK, Statuses
<1>2. TypeOK'
  BY <1>1 DEF CheckFlash, IInv, TypeOK, Places, flash, context
<1>3. ContextSound'
  BY <1>1 DEF CheckFlash, context, IInv, ContextSound, Programming
<1>4. InstalledIsWhole'
  BY DEF CheckFlash, flash, IInv, InstalledIsWhole, Describes, Holds
<1>5. ManifestErased' BY <1>1 DEF ManifestErased, Programming
<1>6. CommitSound'
  <2> SUFFICES ASSUME pc' = "commit" PROVE CommitSound' BY DEF CommitSound
  <2>1. Holds(manifest)' BY DEF CheckFlash, flash, context, Holds
  <2>2. word' \in ManAddr BY SizesAssumption DEF CheckFlash, ManAddr
  <2>3. \A i \in ManAddr : man'[i] = Erased
    BY DEF CheckFlash, flash, IInv, ManifestErased, Programming
  <2> QED BY <2>1, <2>2, <2>3 DEF CommitSound
<1> QED BY <1>2, <1>3, <1>4, <1>5, <1>6 DEF IInv

\* A Flash step outside the commit, in which the engine keeps its manifest.
LEMMA FlashStepSafe ==
  ASSUME IInv, FlashStep, Programming, UNCHANGED <<manifest, header_valid>>,
         pc' # "commit"
  PROVE  InstalledIsWhole' /\ ManifestErased' /\ CommitSound'
<1>1. man' = man BY ManifestKept DEF Programming
<1>2. ManifestErased' BY <1>1 DEF IInv, ManifestErased
<1>3. InstalledIsWhole' BY InterruptedKeepsWhole
<1> QED BY <1>2, <1>3 DEF CommitSound

LEMMA PreparePageStep ==
  ASSUME IInv, NEW here \in {"row_prepare", "tail_prepare"},
         NEW there \in {"row_program", "tail_program"},
         PreparePage(here, there)
  PROVE  IInv'
<1>1. Programming /\ pc \notin {"invalidate", "commit"}
  BY DEF PreparePage, Programming
<1>2. /\ UNCHANGED <<man, manifest, header_valid, payload_written, payload_crc,
                     row_address, row_fill, row_buffer, payload_complete, block,
                     intact, word, faults>>
      /\ pc' \in {"idle", "row_program", "tail_program"}
      /\ status' \in Statuses
  BY DEF PreparePage, IInv, TypeOK, Statuses
<1>3. app' \in [AppAddr -> Cell]
  <2>1. app \in [AppAddr -> Cell] BY DEF IInv, TypeOK
  <2>2. Erased \in Cell BY DEF Cell
  <2> QED BY <2>1, <2>2 DEF PreparePage
<1>4. next_page' \in Nat
  BY SizesAssumption DEF PreparePage, IInv, TypeOK
<1>5. TypeOK'
  BY <1>2, <1>3, <1>4 DEF IInv, TypeOK, Places
<1>6. ContextSound'
  BY <1>1, <1>2 DEF IInv, ContextSound, Programming
<1>7. \A i \in ManAddr : man'[i] = Erased
  BY <1>1, <1>2 DEF IInv, ManifestErased
<1>8. \A m \in Images : ~Describes(m)
  BY <1>1, ErasedDescribesNothing DEF IInv, ManifestErased
<1>9. InstalledIsWhole'
  BY <1>2, <1>8 DEF InstalledIsWhole, Describes
<1>10. ManifestErased' /\ CommitSound'
  BY <1>2, <1>7 DEF ManifestErased, CommitSound
<1> QED BY <1>5, <1>6, <1>9, <1>10 DEF IInv

LEMMA ProgramRowStep == ASSUME IInv, ProgramRow PROVE IInv'
<1>1. FlashStep /\ faults' \in 0..MaxFaults
  BY ProgramsStep DEF ProgramRow, IInv
<1>2. Programming BY DEF ProgramRow, Programming
<1>3. /\ UNCHANGED <<manifest, header_valid, payload_written, payload_crc,
                     next_page, row_buffer, payload_complete, block, intact,
                     word>>
      /\ pc' \in {"idle", "sink"} /\ status' \in Statuses
  BY DEF ProgramRow, IInv, TypeOK, Statuses
<1>4. row_address' \in Nat /\ row_fill' \in 0..RowWords
  BY SizesAssumption DEF ProgramRow, IInv, TypeOK
<1>5. TypeOK'
  BY <1>1, <1>3, <1>4 DEF FlashStep, IInv, TypeOK, Places
<1>6. ContextSound' BY <1>2, <1>3 DEF IInv, ContextSound, Programming, ProgramRow
<1>7. InstalledIsWhole' /\ ManifestErased' /\ CommitSound'
  BY <1>1, <1>2, <1>3, FlashStepSafe
<1> QED BY <1>5, <1>6, <1>7 DEF IInv

LEMMA ProgramTailWordStep == ASSUME IInv, ProgramTailWord PROVE IInv'
<1>1. FlashStep /\ faults' \in 0..MaxFaults
  <2>1. CASE row_address + word >= Length[manifest]
    <3>1. UNCHANGED <<flash, faults>> BY <2>1 DEF ProgramTailWord
    <3>2. ManTarget = {} BY DEF ManTarget, ProgramTailWord
    <3> QED BY <3>1, <3>2 DEF FlashStep, flash, IInv, TypeOK
  <2>2. CASE ~(row_address + word >= Length[manifest])
    <3>1. Programs BY <2>2 DEF ProgramTailWord
    <3> QED BY <3>1, ProgramsStep DEF ProgramTailWord, IInv
  <2> QED BY <2>1, <2>2
<1>2. Programming BY DEF ProgramTailWord, Programming
<1>3. /\ UNCHANGED <<manifest, header_valid, payload_written, payload_crc,
                     next_page, row_buffer, payload_complete, block, intact>>
      /\ pc' \in {"idle", "tail_program", "flash_crc"} /\ status' \in Statuses
  BY DEF ProgramTailWord, TailWordDone, TailWordFails, IInv, TypeOK, Statuses
<1>4. row_address' \in Nat /\ row_fill' \in 0..RowWords /\ word' \in Nat
  BY SizesAssumption
  DEF ProgramTailWord, TailWordDone, TailWordFails, IInv, TypeOK
<1>5. TypeOK'
  BY <1>1, <1>3, <1>4 DEF FlashStep, IInv, TypeOK, Places
<1>6. ContextSound'
  BY <1>2, <1>3 DEF IInv, ContextSound, Programming, ProgramTailWord
<1>7. InstalledIsWhole' /\ ManifestErased' /\ CommitSound'
  BY <1>1, <1>2, <1>3, FlashStepSafe
<1> QED BY <1>5, <1>6, <1>7 DEF IInv

LEMMA CommitWordStep == ASSUME IInv, CommitWord PROVE IInv'
<1>1. manifest \in Images BY DEF IInv, ContextSound, CommitWord
<1>2. FlashStep /\ faults' \in 0..MaxFaults
  BY <1>1, ProgramsStep DEF CommitWord, IInv
<1>3. /\ UNCHANGED <<context, block, intact>>
      /\ pc' \in {"idle", "commit"} /\ status' \in Statuses
  BY DEF CommitWord, IInv, TypeOK, Statuses
<1>4. word' \in Nat BY DEF CommitWord, IInv, TypeOK
<1>5. TypeOK'
  BY <1>2, <1>3, <1>4 DEF FlashStep, IInv, TypeOK, Places, context
<1>6. ContextSound'
  BY <1>1, <1>3 DEF context, IInv, ContextSound, Programming, CommitWord
<1>7. InstalledIsWhole' BY <1>2, InterruptedKeepsWhole
<1>8. ManifestErased' BY <1>3 DEF ManifestErased, Programming
<1>9. CommitSound'
  <2> SUFFICES ASSUME pc' = "commit"
               PROVE  /\ Holds(manifest)' /\ word' \in ManAddr
                      /\ \A i \in ManAddr : i >= word' => man'[i] = Erased
    BY DEF CommitSound
  <2>1. app' = app BY <1>2 DEF FlashStep, AppTarget, CommitWord
  <2>2. Holds(manifest)'
    BY <2>1, <1>3 DEF CommitWord, context, IInv, CommitSound, Holds
  <2>3. word' = word + 1 /\ word + 1 < HdrWords BY DEF CommitWord
  <2>4. word' \in ManAddr
    BY <2>3, SizesAssumption DEF ManAddr, IInv, TypeOK
  <2>5. ASSUME NEW i \in ManAddr, i >= word' PROVE man'[i] = Erased
    <3>1. i > word /\ i \in Int BY <2>3, <2>5 DEF ManAddr, IInv, TypeOK
    <3>2. i \notin ManTarget /\ man[i] = Erased
      BY <3>1 DEF ManTarget, CommitWord, IInv, CommitSound, TypeOK
    <3> QED BY <3>2, <1>2 DEF FlashStep
  <2> QED BY <2>2, <2>4, <2>5
<1> QED BY <1>5, <1>6, <1>7, <1>8, <1>9 DEF IInv

LEMMA FlashErrorStep == ASSUME IInv, FlashError PROVE IInv'
<1>1. pc = "commit" => manifest \in Images BY DEF IInv, ContextSound
<1>2. FlashStep BY <1>1, InterruptedStep DEF FlashError, IInv
<1>3. /\ UNCHANGED <<context, block, intact, word>>
      /\ pc' = "idle" /\ status' \in Statuses
  BY DEF FlashError, Statuses
<1>4. faults' \in 0..MaxFaults
  BY SizesAssumption DEF FlashError, IInv, TypeOK
<1>5. TypeOK'
  BY <1>2, <1>3, <1>4 DEF FlashStep, IInv, TypeOK, Places, context
<1>6. InstalledIsWhole' BY <1>2, InterruptedKeepsWhole
<1>7. ManifestErased' /\ CommitSound' /\ ContextSound'
  BY <1>3 DEF ManifestErased, CommitSound, ContextSound, Programming
<1> QED BY <1>5, <1>6, <1>7 DEF IInv

LEMMA CrashStep == ASSUME IInv, Crash PROVE IInv'
<1>1. pc = "commit" => manifest \in Images BY DEF IInv, ContextSound
<1>2. FlashStep BY <1>1, InterruptedStep DEF Crash, IInv
<1>3. TypeOK'
  <2>1. faults' \in 0..MaxFaults /\ row_fill' \in 0..RowWords
    BY SizesAssumption DEF Crash, IInv, TypeOK
  <2>2. /\ header_valid' \in BOOLEAN /\ payload_crc' \in BOOLEAN
        /\ payload_complete' \in BOOLEAN /\ intact' \in BOOLEAN
    BY DEF Crash
  <2>3. row_buffer' \in [0..RowWords - 1 -> Data] BY DEF Crash, Data
  <2>4. /\ payload_written' \in Nat /\ next_page' \in Nat
        /\ row_address' \in Nat /\ block' \in Nat /\ word' \in Nat
        /\ pc' \in Places /\ status' \in Statuses
        /\ manifest' \in Images \cup {None}
    BY DEF Crash, Places, Statuses
  <2> QED BY <1>2, <2>1, <2>2, <2>3, <2>4 DEF FlashStep, TypeOK
<1>4. InstalledIsWhole' BY <1>2, InterruptedKeepsWhole
<1>5. ManifestErased' /\ CommitSound' /\ ContextSound'
  BY DEF Crash, ManifestErased, CommitSound, ContextSound, Programming
<1> QED BY <1>3, <1>4, <1>5 DEF IInv

LEMMA StutterStep == ASSUME IInv, UNCHANGED vars PROVE IInv'
<1>1. UNCHANGED <<app, man, pc, status, manifest, header_valid,
                  payload_written, payload_crc, next_page, row_address,
                  row_fill, row_buffer, payload_complete, block, intact, word,
                  faults>>
  BY DEF vars, flash, context
<1>2. TypeOK' BY <1>1 DEF IInv, TypeOK
<1>3. InstalledIsWhole' BY <1>1 DEF IInv, InstalledIsWhole, Describes, Holds
<1>4. Programming' = Programming BY <1>1 DEF Programming
<1>5. ManifestErased' /\ CommitSound' /\ ContextSound'
  BY <1>1, <1>4 DEF IInv, ManifestErased, CommitSound, ContextSound, Holds
<1> QED BY <1>2, <1>3, <1>5 DEF IInv

LEMMA NextIInv == IInv /\ [Next]_vars => IInv'
<1> SUFFICES ASSUME IInv, [Next]_vars PROVE IInv' OBVIOUS
<1>1. CASE Start BY <1>1, StartStep
<1>2. CASE Engine
  <2>1. CASE PreparePage("row_prepare", "row_program")
    BY <2>1, PreparePageStep
  <2>2. CASE PreparePage("tail_prepare", "tail_program")
    BY <2>2, PreparePageStep
  <2> QED BY <1>2, <2>1, <2>2, EraseManifestStep, CopyStep, BlockDoneStep,
             ProgramRowStep, ProgramTailWordStep, CheckFlashStep, CommitWordStep
          DEF Engine
<1>3. CASE Host
  BY <1>3, FirstBlockStep, NextBlockStep, EndOfTransferStep, TransferFailsStep
  DEF Host
<1>4. CASE FlashError BY <1>4, FlashErrorStep
<1>5. CASE Crash BY <1>5, CrashStep
<1>6. CASE UNCHANGED vars BY <1>6, StutterStep
<1> QED BY <1>1, <1>2, <1>3, <1>4, <1>5, <1>6 DEF Next

LEMMA SpecIInv == Spec => []IInv
BY InitIInv, NextIInv, PTL DEF Spec

(***************************************************************************)
(* The theorems.                                                           *)
(***************************************************************************)

\* Every variable keeps its type.
THEOREM TypeCorrect == Spec => []TypeOK
BY SpecIInv, PTL DEF IInv

\* At every instant of every behaviour, whatever was interrupted, a manifest
\* that validates (resident_boot_manifest_validate) describes a payload that is
\* whole in Flash.
THEOREM InstalledAlwaysWhole == Spec => []InstalledIsWhole
BY SpecIInv, PTL DEF IInv

\* Application words change only between the erase of the manifest and the
\* commit, when no manifest describes any image.
LEMMA AppChangesWhileProgramming ==
  ASSUME IInv, [Next]_vars, app' # app PROVE Programming
<1> SUFFICES ASSUME ~Programming PROVE FALSE OBVIOUS
<1>1. pc = "commit" => manifest \in Images BY DEF IInv, ContextSound
<1>2. AppTarget = {} BY DEF AppTarget, Programming
<1>3. FlashStep => FALSE BY <1>2 DEF FlashStep
<1>4. Programs => FALSE BY <1>1, <1>3, ProgramsStep DEF IInv
<1>5. Interrupted => FALSE BY <1>1, <1>3, InterruptedStep DEF IInv
<1>6. CASE Start BY <1>6 DEF Start, flash
<1>7. CASE Engine
  <2>1. CASE EraseManifest \/ Copy \/ BlockDone \/ CheckFlash
    BY <2>1 DEF EraseManifest, Copy, BlockDone, CheckFlash, flash
  <2>2. CASE \/ PreparePage("row_prepare", "row_program")
             \/ PreparePage("tail_prepare", "tail_program")
             \/ ProgramRow \/ ProgramTailWord
    BY <2>2 DEF PreparePage, ProgramRow, ProgramTailWord, Programming
  <2>3. CASE CommitWord BY <2>3, <1>4 DEF CommitWord
  <2> QED BY <1>7, <2>1, <2>2, <2>3 DEF Engine
<1>8. CASE Host
  BY <1>8 DEF Host, FirstBlock, NextBlock, EndOfTransfer, TransferFails, flash
<1>9. CASE FlashError \/ Crash BY <1>9, <1>5 DEF FlashError, Crash
<1>10. CASE UNCHANGED vars BY <1>10 DEF vars, flash
<1> QED BY <1>6, <1>7, <1>8, <1>9, <1>10 DEF Next

\* While any manifest validates no application word changes: forced recovery
\* that merely waits, or a refused header, costs nothing.
THEOREM OldImageKept == Spec => OldImageUntouched
<1>1. IInv /\ [Next]_vars =>
        [(\E m \in Images : Describes(m)) => app' = app]_vars
  <2> SUFFICES ASSUME IInv, [Next]_vars, NEW m \in Images, Describes(m),
                      app' # app
               PROVE  FALSE
    OBVIOUS
  <2>1. \A i \in ManAddr : man[i] = Erased
    BY AppChangesWhileProgramming DEF IInv, ManifestErased
  <2> QED BY <2>1, ErasedDescribesNothing
<1> QED BY <1>1, SpecIInv, PTL DEF Spec, OldImageUntouched

(***************************************************************************)
(* Where the words go.  The second invariant: what the row buffer and the   *)
(* two pointers say of the application section while a call works.          *)
(***************************************************************************)
Working == pc \notin {"off", "idle"}

\* Until the header is accepted nothing is buffered, programmed or erased.
Fresh ==
  (pc = "invalidate" \/ (pc = "receive" /\ ~header_valid)) =>
    /\ payload_written = 0 /\ row_address = 0 /\ row_fill = 0 /\ next_page = 0
    /\ ~payload_complete

\* The row pointer moves by rows and the page pointer by pages; the page pointer
\* is less than a page ahead, and truly ahead once the page is prepared.
Pointers ==
  Working =>
    /\ pc \notin {"flash_crc", "commit"} => row_address % RowWords = 0
    /\ next_page % PageWords = 0 /\ next_page <= AppWords
    /\ row_address <= next_page
    /\ IF pc \in {"row_program", "tail_program"}
       THEN row_address < next_page /\ next_page <= row_address + PageWords
       ELSE next_page < row_address + PageWords

\* What was taken from the host is programmed or in the row buffer.
Filled ==
  Working =>
    /\ payload_written = row_address + row_fill
    /\ pc \in {"row_prepare", "row_program"} => row_fill = RowWords
    /\ pc \in {"tail_prepare", "tail_program"} => row_fill > 0
    /\ pc = "tail_program" => word < row_fill
    /\ pc = "tail_prepare" => word = 0
    /\ pc \in {"flash_crc", "commit"} => row_fill = 0
    /\ pc \in {"tail_prepare", "tail_program", "flash_crc", "commit"}
          => payload_complete
    /\ payload_complete => /\ pc \notin {"sink", "row_prepare", "row_program"}
                           /\ payload_written = Length[manifest]

\* The next word to program.
Ahead == row_address + (IF pc = "tail_program" THEN word ELSE 0)

\* Behind the write pointer every word reads, ahead of it the prepared pages are
\* erased.
Pages ==
  Working =>
    \A a \in AppAddr : /\ a < Ahead => app[a] # Torn
                       /\ Ahead <= a /\ a < next_page => app[a] = Erased

\* The commit has written the header's words in order, and OK is returned behind
\* the last one.
Sealed ==
  /\ pc = "commit" => \A i \in ManAddr : i < word => man[i] = <<manifest, i>>
  /\ status # "NONE" => pc = "idle"
  /\ status = "OK" => manifest \in Images /\ Describes(manifest)

Layout == Fresh /\ Pointers /\ Filled /\ Pages /\ Sealed

(***************************************************************************)
(* Multiples of the row and the page.                                      *)
(***************************************************************************)

\* A multiple leaves no remainder.
LEMMA Multiple ==
  ASSUME NEW k \in Int, NEW p \in Nat \ {0} PROVE (k * p) % p = 0
OBVIOUS

\* What leaves no remainder is a multiple.
LEMMA Aligned ==
  ASSUME NEW a \in Int, NEW p \in Nat \ {0}, a % p = 0
  PROVE  a \div p \in Int /\ (a \div p) * p = a
OBVIOUS

\* One unit further is aligned again.
LEMMA OneUp ==
  ASSUME NEW a \in Int, NEW p \in Nat \ {0}, a % p = 0 PROVE (a + p) % p = 0
<1> DEFINE k == a \div p
<1>1. k \in Int /\ k * p = a BY Aligned
<1> HIDE DEF k
<1>2. a + p = (k + 1) * p /\ k + 1 \in Int BY <1>1
<1>3. ((k + 1) * p) % p = 0 BY <1>2, Multiple
<1> QED BY <1>2, <1>3

\* Two aligned numbers are one unit apart at least.
LEMMA UnitApart ==
  ASSUME NEW a \in Int, NEW b \in Int, NEW p \in Nat \ {0},
         a % p = 0, b % p = 0, a < b
  PROVE  a + p <= b
<1> DEFINE k == a \div p
           l == b \div p
<1>1. k \in Int /\ k * p = a /\ l \in Int /\ l * p = b BY Aligned
<1> HIDE DEF k, l
<1>2. k < l BY <1>1
<1>3. (k + 1) * p <= l * p BY <1>1, <1>2
<1> QED BY <1>1, <1>3

\* Aligned to pages is aligned to rows.
LEMMA Finer ==
  ASSUME NEW a \in Int, NEW r \in Nat \ {0}, NEW p \in Nat \ {0},
         p % r = 0, a % p = 0
  PROVE  a % r = 0
<1> DEFINE k == a \div p
           l == p \div r
<1>1. k \in Int /\ k * p = a /\ l \in Int /\ l * r = p BY Aligned
<1> HIDE DEF k, l
<1>2. k * l \in Int /\ a = (k * l) * r BY <1>1
<1>3. ((k * l) * r) % r = 0 BY <1>2, Multiple
<1> QED BY <1>2, <1>3

\* Rounding up meets the one aligned number less than a unit ahead.
LEMMA RoundsUp ==
  ASSUME NEW a \in Int, NEW b \in Int, NEW p \in Nat \ {0},
         b % p = 0, a <= b, b < a + p
  PROVE  ((a + p - 1) \div p) * p = b
<1> DEFINE l == b \div p
<1>1. l \in Int /\ l * p = b BY Aligned
<1> HIDE DEF l
<1> DEFINE r == a + p - 1 - b
<1>2. r \in 0..p - 1 /\ a + p - 1 = l * p + r BY <1>1
<1>3. (l * p + r) \div p = l BY <1>1, <1>2
<1> QED BY <1>1, <1>2, <1>3

(***************************************************************************)
(* Consecution of the second invariant.                                    *)
(***************************************************************************)

\* The numbers of the context.
LEMMA Numbers ==
  ASSUME TypeOK
  PROVE  /\ RowWords \in Nat \ {0} /\ PageWords \in Nat \ {0}
         /\ AppWords \in Nat \ {0} /\ HdrWords \in Nat \ {0}
         /\ row_address \in Nat /\ next_page \in Nat /\ payload_written \in Nat
         /\ row_fill \in Nat /\ row_fill <= RowWords /\ word \in Nat
BY SizesAssumption DEF TypeOK

\* A call that returns another status than OK, or is cut off, leaves nothing to
\* account for.
LEMMA ReturnedLayout ==
  ASSUME \/ pc' = "idle" /\ status' # "OK"
         \/ pc' = "off" /\ status' = "NONE"
  PROVE  Layout'
BY DEF Layout, Fresh, Pointers, Filled, Pages, Sealed, Working

LEMMA StartLayout == ASSUME Start PROVE Layout'
<1>1. /\ pc' = "receive" /\ status' = "NONE" /\ ~header_valid'
      /\ payload_written' = 0 /\ row_address' = 0 /\ row_fill' = 0
      /\ next_page' = 0 /\ payload_complete' = FALSE
  BY DEF Start, ResetContext
<1>2. 0 % RowWords = 0 /\ 0 % PageWords = 0
      /\ PageWords \in Nat \ {0} /\ AppWords \in Nat
  BY SizesAssumption
<1>3. Fresh' /\ Sealed' /\ Filled' BY <1>1 DEF Fresh, Sealed, Filled
<1>4. Pointers' BY <1>1, <1>2 DEF Pointers
<1>5. Pages' BY <1>1 DEF Pages, Ahead, AppAddr
<1> QED BY <1>3, <1>4, <1>5 DEF Layout

LEMMA FirstBlockLayout ==
  ASSUME IInv, Layout, NEW n \in BlockWords, NEW m \in Images \cup {None},
         NEW ok \in BOOLEAN, FirstBlock(n, m, ok)
  PROVE  Layout'
<1>1. CASE n < HdrWords \/ m = None
  BY <1>1, ReturnedLayout DEF FirstBlock
<1>2. CASE ~(n < HdrWords \/ m = None)
  <2>1. /\ pc = "receive" /\ pc' = "invalidate" /\ ~header_valid
        /\ UNCHANGED <<app, man, status, header_valid, payload_written, next_page,
                       row_address, row_fill, payload_complete, word>>
    BY <1>2 DEF FirstBlock, flash
  <2>2. Fresh' /\ Filled' BY <2>1 DEF Layout, Fresh, Filled, Working
  <2>3. Pointers' BY <2>1 DEF Layout, Pointers, Working
  <2>4. Pages' BY <2>1 DEF Layout, Pages, Ahead, Working
  <2>5. Sealed' BY <2>1 DEF Layout, Sealed
  <2> QED BY <2>2, <2>3, <2>4, <2>5 DEF Layout
<1> QED BY <1>1, <1>2

LEMMA NextBlockLayout ==
  ASSUME IInv, Layout, NEW n \in BlockWords, NEW ok \in BOOLEAN, NextBlock(n, ok)
  PROVE  Layout'
<1>1. CASE payload_complete BY <1>1, ReturnedLayout DEF NextBlock
<1>2. CASE ~payload_complete
  <2>1. /\ pc = "receive" /\ pc' = "sink" /\ header_valid
        /\ UNCHANGED <<app, man, status, manifest, header_valid, payload_written,
                       next_page, row_address, row_fill, payload_complete, word>>
    BY <1>2 DEF NextBlock, flash, context
  <2>2. Fresh' /\ Filled' BY <2>1, <1>2 DEF Layout, Fresh, Filled, Working
  <2>3. Pointers' BY <2>1 DEF Layout, Pointers, Working
  <2>4. Pages' BY <2>1 DEF Layout, Pages, Ahead, Working
  <2>5. Sealed' BY <2>1 DEF Layout, Sealed
  <2> QED BY <2>2, <2>3, <2>4, <2>5 DEF Layout
<1> QED BY <1>1, <1>2

LEMMA EraseManifestLayout ==
  ASSUME IInv, Layout, EraseManifest PROVE Layout'
<1>1. /\ pc = "invalidate" /\ pc' = "sink" /\ header_valid'
      /\ UNCHANGED <<app, status, manifest, payload_written, next_page,
                     row_address, row_fill, payload_complete, word>>
  BY DEF EraseManifest
<1>2. Fresh' /\ Filled' BY <1>1 DEF Layout, Fresh, Filled, Working
<1>3. Pointers' BY <1>1 DEF Layout, Pointers, Working
<1>4. Pages' BY <1>1 DEF Layout, Pages, Ahead, Working
<1>5. Sealed' BY <1>1 DEF Layout, Sealed
<1> QED BY <1>2, <1>3, <1>4, <1>5 DEF Layout

LEMMA CopyLayout == ASSUME IInv, Layout, Copy PROVE Layout'
<1> DEFINE c == Count
<1>1. c \in Nat /\ c <= RowWords - row_fill BY CountBounds DEF Copy
<1>2. /\ pc = "sink" /\ row_fill' = row_fill + c
      /\ payload_written' = payload_written + c
      /\ pc' = IF row_fill + c = RowWords THEN "row_prepare" ELSE "sink"
      /\ UNCHANGED <<app, man, status, manifest, header_valid, next_page,
                     row_address, payload_complete, word>>
  BY DEF Copy, flash
<1> HIDE DEF c
<1>3. Fresh' BY <1>2 DEF Fresh
<1>4. Filled'
  BY <1>1, <1>2, Numbers DEF IInv, Layout, Filled, Working
<1>5. Pointers' BY <1>2 DEF Layout, Pointers, Working
<1>6. Pages' BY <1>2 DEF Layout, Pages, Ahead, Working
<1>7. Sealed' BY <1>2 DEF Layout, Sealed
<1> QED BY <1>3, <1>4, <1>5, <1>6, <1>7 DEF Layout

LEMMA BlockDoneLayout == ASSUME IInv, Layout, BlockDone PROVE Layout'
<1>1. /\ pc = "sink" /\ pc' = "receive" /\ header_valid'
      /\ payload_complete' = (payload_written = Length[manifest])
      /\ UNCHANGED <<app, man, status, manifest, payload_written, next_page,
                     row_address, row_fill, word>>
  BY DEF BlockDone, flash, IInv, ContextSound
<1>2. Fresh' /\ Filled' BY <1>1 DEF Layout, Fresh, Filled, Working
<1>3. Pointers' BY <1>1 DEF Layout, Pointers, Working
<1>4. Pages' BY <1>1 DEF Layout, Pages, Ahead, Working
<1>5. Sealed' BY <1>1 DEF Layout, Sealed
<1> QED BY <1>2, <1>3, <1>4, <1>5 DEF Layout

LEMMA EndOfTransferLayout == ASSUME IInv, Layout, EndOfTransfer PROVE Layout'
<1>1. CASE ~header_valid \/ ~payload_complete \/ ~payload_crc
  BY <1>1, ReturnedLayout DEF EndOfTransfer
<1>2. CASE header_valid /\ payload_complete /\ payload_crc
  <2>1. /\ pc = "receive" /\ word' = 0
        /\ pc' = IF row_fill = 0 THEN "flash_crc" ELSE "tail_prepare"
        /\ UNCHANGED <<app, man, status, manifest, header_valid, payload_written,
                       next_page, row_address, row_fill, payload_complete>>
    BY <1>2 DEF EndOfTransfer, flash, context
  <2>2. Fresh' BY <2>1 DEF Fresh
  <2>3. Filled'
    BY <1>2, <2>1, Numbers DEF IInv, Layout, Filled, Working
  <2>4. Pointers' BY <2>1 DEF Layout, Pointers, Working
  <2>5. Pages' BY <2>1 DEF Layout, Pages, Ahead, Working
  <2>6. Sealed' BY <2>1 DEF Layout, Sealed
  <2> QED BY <2>2, <2>3, <2>4, <2>5, <2>6 DEF Layout
<1> QED BY <1>1, <1>2

LEMMA CheckFlashLayout == ASSUME IInv, Layout, CheckFlash PROVE Layout'
<1>1. CASE ~Holds(manifest) BY <1>1, ReturnedLayout DEF CheckFlash
<1>2. CASE Holds(manifest)
  <2>1. /\ pc = "flash_crc" /\ pc' = "commit" /\ word' = 0
        /\ UNCHANGED <<app, man, status, manifest, header_valid, payload_written,
                       next_page, row_address, row_fill, payload_complete>>
    BY <1>2 DEF CheckFlash, flash, context
  <2>2. Fresh' /\ Filled' BY <2>1 DEF Layout, Fresh, Filled, Working
  <2>3. Pointers' BY <2>1 DEF Layout, Pointers, Working
  <2>4. Pages' BY <2>1 DEF Layout, Pages, Ahead, Working
  <2>5. Sealed' BY <2>1 DEF Layout, Sealed, ManAddr
  <2> QED BY <2>2, <2>3, <2>4, <2>5 DEF Layout
<1> QED BY <1>1, <1>2

\* A page that is due is erased from the row pointer on.
LEMMA PageAtPointer ==
  ASSUME TypeOK, row_address % PageWords = 0
  PROVE  PageCells = row_address..row_address + PageWords - 1
<1> DEFINE p == (row_address \div PageWords) * PageWords
<1>1. p = row_address
  <2>1. row_address \in Int /\ PageWords \in Nat \ {0} BY Numbers
  <2> QED BY <2>1, Aligned
<1>2. PageCells = p..p + PageWords - 1 BY DEF PageCells
<1> HIDE DEF p
<1> QED BY <1>1, <1>2

LEMMA PreparePageLayout ==
  ASSUME IInv, Layout,
         NEW here \in {"row_prepare", "tail_prepare"},
         NEW there \in {"row_program", "tail_program"},
         here = "row_prepare" <=> there = "row_program",
         PreparePage(here, there)
  PROVE  Layout'
<1> USE Numbers DEF IInv
<1>1. CASE OutOfRange BY <1>1, ReturnedLayout DEF PreparePage
<1>2. CASE ~OutOfRange
  <2>1. /\ pc = here /\ pc' = there
        /\ app' = [a \in AppAddr |-> IF PageDue /\ a \in PageCells
                                     THEN Erased ELSE app[a]]
        /\ next_page' = IF PageDue THEN next_page + PageWords ELSE next_page
        /\ UNCHANGED <<man, status, manifest, header_valid, payload_written,
                       row_address, row_fill, payload_complete, word>>
    BY <1>2 DEF PreparePage
  <2>2. /\ row_address % RowWords = 0 /\ next_page % PageWords = 0
        /\ next_page <= AppWords /\ row_address <= next_page
        /\ next_page < row_address + PageWords
    BY <2>1 DEF Layout, Pointers, Working
  <2>3. PageDue => row_address % PageWords = 0 /\ row_address < AppWords
    BY <1>2 DEF OutOfRange
  <2>4. /\ row_address < next_page' /\ next_page' <= row_address + PageWords
        /\ next_page' % PageWords = 0 /\ next_page' <= AppWords
    <3>1. CASE PageDue
      <4>1. next_page' % PageWords = 0 BY <2>1, <2>2, <3>1, OneUp
      <4>2. AppWords % PageWords = 0 BY SizesAssumption
      <4>3. row_address + PageWords <= AppWords
        BY <2>3, <3>1, <4>2, UnitApart
      <4> QED BY <2>1, <3>1, <4>1, <4>3 DEF PageDue
    <3>2. CASE ~PageDue BY <2>1, <2>2, <3>2 DEF PageDue
    <3> QED BY <3>1, <3>2
  <2>5. Pointers' BY <2>1, <2>2, <2>4 DEF Pointers
  <2>6. Fresh' BY <2>1 DEF Fresh
  <2>7. Filled' BY <2>1 DEF Layout, Filled, Working
  <2>8. Ahead = row_address /\ Ahead' = row_address
    BY <2>1 DEF Ahead, Layout, Filled, Working
  <2>9. Pages'
    <3> SUFFICES ASSUME NEW a \in AppAddr
                 PROVE  /\ a < row_address => app'[a] # Torn
                        /\ row_address <= a /\ a < next_page' => app'[a] = Erased
      BY <2>8 DEF Pages
    <3>1. /\ a < row_address => app[a] # Torn
          /\ row_address <= a /\ a < next_page => app[a] = Erased
      BY <2>1, <2>8 DEF Layout, Pages, Working
    <3>2. a \in Int BY DEF AppAddr
    <3>3. CASE PageDue
      <4>1. PageCells = row_address..row_address + PageWords - 1
        BY <2>3, <3>3, PageAtPointer
      <4> QED BY <2>1, <3>1, <3>2, <3>3, <4>1, CellAssumption DEF PageDue
    <3>4. CASE ~PageDue BY <2>1, <3>1, <3>4
    <3> QED BY <3>3, <3>4
  <2>10. Sealed' BY <2>1 DEF Layout, Sealed
  <2> QED BY <2>5, <2>6, <2>7, <2>9, <2>10 DEF Layout
<1> QED BY <1>1, <1>2

\* A prepared row lies between the two pointers.
LEMMA RowInPage ==
  ASSUME TypeOK, Pointers, pc \in {"row_program", "tail_program"}
  PROVE  row_address + RowWords <= next_page
<1>1. /\ row_address % RowWords = 0 /\ next_page % PageWords = 0
      /\ row_address < next_page
  BY DEF Pointers, Working
<1>2. PageWords % RowWords = 0 BY SizesAssumption
<1>3. next_page % RowWords = 0 BY <1>1, <1>2, Numbers, Finer
<1> QED BY <1>1, <1>3, Numbers, UnitApart

\* Data are neither torn nor erased.
LEMMA DataReadable ==
  ASSUME TypeOK, NEW i \in 0..RowWords - 1
  PROVE  row_buffer[i] # Torn
BY CellAssumption DEF TypeOK

LEMMA ProgramRowLayout == ASSUME IInv, Layout, ProgramRow PROVE Layout'
<1> USE Numbers DEF IInv
<1>1. CASE ~RowReadsBack BY <1>1, ReturnedLayout DEF ProgramRow
<1>2. CASE RowReadsBack
  <2>1. /\ pc = "row_program" /\ pc' = "sink"
        /\ row_address' = row_address + RowWords /\ row_fill' = 0
        /\ UNCHANGED <<status, manifest, header_valid, payload_written, next_page,
                       payload_complete, word>>
    BY <1>2 DEF ProgramRow
  <2>2. FlashStep BY ProgramsStep DEF ProgramRow
  <2>3. /\ row_address % RowWords = 0 /\ next_page % PageWords = 0
        /\ next_page <= AppWords /\ next_page <= row_address + PageWords
        /\ row_address + RowWords <= next_page
    BY <2>1, RowInPage DEF Layout, Pointers, Working
  <2>4. Pointers'
    <3>1. row_address' % RowWords = 0 BY <2>1, <2>3, OneUp
    <3> QED BY <2>1, <2>3, <3>1 DEF Pointers
  <2>5. Fresh' BY <2>1 DEF Fresh
  <2>6. Filled' BY <2>1 DEF Layout, Filled, Working
  <2>7. Pages'
    <3> SUFFICES ASSUME NEW a \in AppAddr
                 PROVE  /\ a < row_address + RowWords => app'[a] # Torn
                        /\ row_address + RowWords <= a /\ a < next_page
                              => app'[a] = Erased
      BY <2>1 DEF Pages, Ahead
    <3>1. /\ a < row_address => app[a] # Torn
          /\ row_address <= a /\ a < next_page => app[a] = Erased
      BY <2>1 DEF Layout, Pages, Working, Ahead
    <3>2. a \in Int BY DEF AppAddr
    <3>3. CASE a \in RowCells
      <4>1. a - row_address \in 0..RowWords - 1 BY <3>2, <3>3 DEF RowCells
      <4>2. app'[a] # Torn BY <1>2, <3>3, <4>1, DataReadable DEF RowReadsBack
      <4> QED BY <3>2, <4>1, <4>2
    <3>4. CASE a \notin RowCells
      <4>1. app'[a] = app[a] BY <2>1, <2>2, <3>4 DEF FlashStep, AppTarget
      <4>2. a < row_address \/ row_address + RowWords <= a
        BY <3>2, <3>4 DEF RowCells
      <4> QED BY <3>1, <3>2, <4>1, <4>2
    <3> QED BY <3>3, <3>4
  <2>8. Sealed' BY <2>1 DEF Layout, Sealed
  <2> QED BY <2>4, <2>5, <2>6, <2>7, <2>8 DEF Layout
<1> QED BY <1>1, <1>2

LEMMA ProgramTailWordLayout ==
  ASSUME IInv, Layout, ProgramTailWord PROVE Layout'
<1> USE Numbers DEF IInv
<1>1. CASE row_address + word >= Length[manifest]
  BY <1>1, ReturnedLayout DEF ProgramTailWord, TailWordFails
<1>2. CASE ~(row_address + word >= Length[manifest]) /\ ~TailWordReadsBack
  BY <1>2, ReturnedLayout DEF ProgramTailWord, TailWordFails
<1>3. CASE ~(row_address + word >= Length[manifest]) /\ TailWordReadsBack
  <2>1. /\ pc = "tail_program" /\ Programs /\ TailWordDone
        /\ UNCHANGED <<status, manifest, header_valid, payload_written, next_page,
                       payload_complete>>
    BY <1>3 DEF ProgramTailWord, TailWordDone
  <2>2. FlashStep BY <2>1, ProgramsStep
  <2>3. /\ payload_written = row_address + row_fill /\ row_fill > 0
        /\ word < row_fill /\ payload_complete
        /\ payload_written = Length[manifest]
    BY <2>1 DEF Layout, Filled, Working
  <2>4. /\ row_address % RowWords = 0 /\ next_page % PageWords = 0
        /\ next_page <= AppWords /\ next_page <= row_address + PageWords
        /\ row_address + RowWords <= next_page
    BY <2>1, RowInPage DEF Layout, Pointers, Working
  <2>5. /\ pc' \in {"tail_program", "flash_crc"}
        /\ pc' = "tail_program" => /\ word' = word + 1 /\ word + 1 < row_fill
                                   /\ UNCHANGED <<row_address, row_fill>>
        /\ pc' = "flash_crc" => /\ word + 1 = row_fill
                                /\ row_address' = row_address + row_fill
                                /\ row_fill' = 0
    BY <2>1, <2>3 DEF TailWordDone
  <2>6. Pointers' BY <2>1, <2>3, <2>4, <2>5 DEF Pointers
  <2>7. Fresh' /\ Filled' BY <2>1, <2>3, <2>5 DEF Fresh, Filled
  <2>8. Ahead = row_address + word /\ Ahead' = row_address + word + 1
    BY <2>1, <2>5 DEF Ahead
  <2>9. Pages'
    <3> SUFFICES ASSUME NEW a \in AppAddr
                 PROVE  /\ a < row_address + word + 1 => app'[a] # Torn
                        /\ row_address + word + 1 <= a /\ a < next_page
                              => app'[a] = Erased
      BY <2>1, <2>8 DEF Pages
    <3>1. /\ a < row_address + word => app[a] # Torn
          /\ row_address + word <= a /\ a < next_page => app[a] = Erased
      BY <2>1, <2>8 DEF Layout, Pages, Working
    <3>2. a \in Int BY DEF AppAddr
    <3>3. CASE a = row_address + word
      <4>1. word \in 0..RowWords - 1 BY <2>3
      <4> QED BY <1>3, <3>3, <4>1, DataReadable DEF TailWordReadsBack
    <3>4. CASE a # row_address + word
      <4>1. app'[a] = app[a] BY <2>1, <2>2, <3>4 DEF FlashStep, AppTarget
      <4> QED BY <3>1, <3>2, <3>4, <4>1
    <3> QED BY <3>3, <3>4
  <2>10. Sealed' BY <2>1, <2>5 DEF Layout, Sealed
  <2> QED BY <2>6, <2>7, <2>9, <2>10 DEF Layout
<1> QED BY <1>1, <1>2, <1>3

LEMMA CommitWordLayout == ASSUME IInv, Layout, CommitWord PROVE Layout'
<1> USE Numbers DEF IInv
<1>1. CASE ~HeaderWordReadsBack BY <1>1, ReturnedLayout DEF CommitWord
<1>2. CASE HeaderWordReadsBack
  <2>1. /\ pc = "commit" /\ Programs /\ manifest \in Images /\ word \in ManAddr
        /\ UNCHANGED <<manifest, header_valid, payload_written, next_page,
                       row_address, row_fill, payload_complete>>
    BY DEF CommitWord, context, ContextSound, CommitSound
  <2>2. FlashStep BY <2>1, ProgramsStep
  <2>3. app' = app BY <2>1, <2>2 DEF FlashStep, AppTarget
  <2>4. \A i \in ManAddr : i <= word => man'[i] = <<manifest, i>>
    <3> SUFFICES ASSUME NEW i \in ManAddr, i <= word
                 PROVE  man'[i] = <<manifest, i>>
      OBVIOUS
    <3>1. i \in Int BY DEF ManAddr
    <3>2. CASE i = word BY <1>2, <3>2 DEF HeaderWordReadsBack
    <3>3. CASE i # word
      <4>1. i < word BY <3>1, <3>3
      <4>2. man'[i] = man[i] BY <2>1, <2>2, <3>3 DEF FlashStep, ManTarget
      <4> QED BY <2>1, <4>1, <4>2 DEF Layout, Sealed
    <3> QED BY <3>2, <3>3
  <2>5. CASE word + 1 < HdrWords
    <3>1. pc' = "commit" /\ word' = word + 1 /\ UNCHANGED status
      BY <1>2, <2>5 DEF CommitWord
    <3>2. Fresh' /\ Filled'
      BY <2>1, <3>1 DEF Layout, Fresh, Filled, Working
    <3>3. Pointers' BY <2>1, <3>1 DEF Layout, Pointers, Working
    <3>4. Pages' BY <2>1, <2>3, <3>1 DEF Layout, Pages, Ahead, Working
    <3>5. Sealed'
      <4>1. \A i \in ManAddr : i < word + 1 => man'[i] = <<manifest, i>>
        BY <2>4 DEF ManAddr
      <4> QED BY <2>1, <3>1, <4>1 DEF Layout, Sealed
    <3> QED BY <3>2, <3>3, <3>4, <3>5 DEF Layout
  <2>6. CASE ~(word + 1 < HdrWords)
    <3>1. pc' = "idle" /\ status' = "OK" BY <1>2, <2>6 DEF CommitWord
    <3>2. \A i \in ManAddr : man'[i] = <<manifest, i>>
      BY <2>4, <2>6 DEF ManAddr
    <3>3. man' = [i \in ManAddr |-> man'[i]] BY <2>2 DEF FlashStep
    <3>4. man' = [i \in ManAddr |-> <<manifest, i>>] BY <3>2, <3>3
    <3>5. Sealed' BY <2>1, <3>1, <3>4 DEF Sealed, Describes
    <3>6. Fresh' /\ Filled' /\ Pointers' /\ Pages'
      BY <3>1 DEF Fresh, Filled, Pointers, Pages, Working
    <3> QED BY <3>5, <3>6 DEF Layout
  <2> QED BY <2>5, <2>6
<1> QED BY <1>1, <1>2

LEMMA StutterLayout == ASSUME Layout, UNCHANGED vars PROVE Layout'
<1>1. UNCHANGED <<app, man, pc, status, manifest, header_valid, payload_written,
                  next_page, row_address, row_fill, payload_complete, word>>
  BY DEF vars, flash, context
<1>2. Fresh' /\ Filled' /\ Pointers'
  BY <1>1 DEF Layout, Fresh, Filled, Pointers, Working
<1>3. Pages' BY <1>1 DEF Layout, Pages, Ahead, Working
<1>4. Sealed' BY <1>1 DEF Layout, Sealed, Describes
<1> QED BY <1>2, <1>3, <1>4 DEF Layout

LEMMA NextLayout == IInv /\ Layout /\ [Next]_vars => Layout'
<1> SUFFICES ASSUME IInv, Layout, [Next]_vars PROVE Layout' OBVIOUS
<1>1. CASE Start BY <1>1, StartLayout
<1>2. CASE Engine
  <2>1. CASE PreparePage("row_prepare", "row_program")
    BY <2>1, PreparePageLayout
  <2>2. CASE PreparePage("tail_prepare", "tail_program")
    BY <2>2, PreparePageLayout
  <2> QED BY <1>2, <2>1, <2>2, EraseManifestLayout, CopyLayout, BlockDoneLayout,
             ProgramRowLayout, ProgramTailWordLayout, CheckFlashLayout,
             CommitWordLayout
          DEF Engine
<1>3. CASE Host
  <2>1. CASE TransferFails BY <2>1, ReturnedLayout DEF TransferFails
  <2> QED BY <1>3, <2>1, FirstBlockLayout, NextBlockLayout, EndOfTransferLayout
          DEF Host
<1>4. CASE FlashError BY <1>4, ReturnedLayout DEF FlashError
<1>5. CASE Crash BY <1>5, ReturnedLayout DEF Crash
<1>6. CASE UNCHANGED vars BY <1>6, StutterLayout
<1> QED BY <1>1, <1>2, <1>3, <1>4, <1>5, <1>6 DEF Next

LEMMA SpecLayout == Spec => [](IInv /\ Layout)
<1>1. Init => Layout
  BY DEF Init, Layout, Fresh, Filled, Pointers, Pages, Sealed, Working
<1>2. Init => IInv BY InitIInv
<1> QED BY <1>1, <1>2, NextIInv, NextLayout, PTL DEF Spec

(***************************************************************************)
(* Which steps touch the manifest.                                         *)
(***************************************************************************)

\* The manifest words change where the old header is erased and where the new
\* one is committed, and nowhere else.
LEMMA ManifestTouched ==
  ASSUME IInv, [Next]_vars, man' # man
  PROVE  \/ pc = "invalidate" /\ (EraseManifest \/ FlashStep)
         \/ pc = "commit" /\ FlashStep
<1>1. pc = "commit" => manifest \in Images BY DEF IInv, ContextSound
<1>2. Interrupted \/ Programs => FlashStep
  BY <1>1, InterruptedStep, ProgramsStep DEF IInv
<1>3. FlashStep => pc \in {"invalidate", "commit"} BY ManifestKept
<1>4. CASE Start \/ Host
  BY <1>4 DEF Start, Host, FirstBlock, NextBlock, EndOfTransfer, TransferFails, flash
<1>5. CASE Engine
  <2>1. CASE Copy \/ BlockDone \/ CheckFlash
             \/ PreparePage("row_prepare", "row_program")
             \/ PreparePage("tail_prepare", "tail_program")
    BY <2>1 DEF Copy, BlockDone, CheckFlash, PreparePage, flash
  <2>2. CASE EraseManifest BY <2>2 DEF EraseManifest
  <2>3. CASE ProgramRow \/ ProgramTailWord \/ CommitWord
    BY <2>3, <1>2, <1>3 DEF ProgramRow, ProgramTailWord, CommitWord, flash
  <2> QED BY <1>5, <2>1, <2>2, <2>3 DEF Engine
<1>6. CASE FlashError \/ Crash BY <1>6, <1>2, <1>3 DEF FlashError, Crash
<1>7. CASE UNCHANGED vars BY <1>7 DEF vars, flash
<1> QED BY <1>4, <1>5, <1>6, <1>7 DEF Next

\* Who is described behind a step was described before it, or is the image whose
\* header is being committed; either way the step left the application alone.
LEMMA DescribedBefore ==
  ASSUME IInv, [Next]_vars, NEW m \in Images, Describes(m)'
  PROVE  /\ app' = app
         /\ \/ Describes(m)
            \/ pc = "commit" /\ m = manifest /\ ~\E x \in Images : Describes(x)
<1>1. CASE man' = man
  <2>1. Describes(m) BY <1>1 DEF Describes
  <2>2. app' = app
    BY <2>1, AppChangesWhileProgramming, ErasedDescribesNothing
    DEF IInv, ManifestErased
  <2> QED BY <2>1, <2>2
<1>2. CASE man' # man /\ pc = "invalidate"
  <2>1. CASE EraseManifest
    <3>1. \A i \in ManAddr : man'[i] = Erased BY <2>1 DEF EraseManifest
    <3>2. 0 \in ManAddr /\ <<m, 0>> \in Data
      BY SizesAssumption DEF ManAddr, Data
    <3>3. man'[0] = <<m, 0>> BY <3>2 DEF Describes
    <3> QED BY <3>1, <3>2, <3>3, CellAssumption
  <2>2. CASE FlashStep BY <1>2, <2>2, InterruptedErase DEF IInv
  <2> QED BY <1>2, <2>1, <2>2, ManifestTouched
<1>3. CASE man' # man /\ pc = "commit"
  <2>1. FlashStep BY <1>3, ManifestTouched
  <2>2. app' = app BY <1>3, <2>1 DEF FlashStep, AppTarget
  <2>3. word \in ManAddr /\ man[word] = Erased
    BY <1>3 DEF IInv, CommitSound, ManAddr
  <2>4. \A x \in Images : <<x, word>> \in Data /\ <<x, word>> # Erased
    BY <2>3, CellAssumption DEF Data, ManAddr
  <2>5. ~\E x \in Images : Describes(x) BY <2>3, <2>4 DEF Describes
  <2>6. man'[word] = <<m, word>> BY <2>3 DEF Describes
  <2>7. man'[word] \in {Erased, <<manifest, word>>, Torn}
    BY <1>3, <2>1, <2>3 DEF FlashStep, ManTarget, ManNew, BurntHeader, Programmed
  <2>8. <<m, word>> = <<manifest, word>>
    BY <2>3, <2>4, <2>6, <2>7, CellAssumption DEF Data, ManAddr
  <2> QED BY <1>3, <2>2, <2>5, <2>8
<1> QED BY <1>1, <1>2, <1>3, ManifestTouched

(***************************************************************************)
(* What is installed can be read, and OK means installed.                  *)
(***************************************************************************)

\* A page end lies within the section; what is behind the payload in its last
\* page was erased with it.
LEMMA CommittedReadable ==
  ASSUME IInv, Layout, pc = "commit" PROVE Preflight(manifest)
<1> USE Numbers DEF IInv
<1>1. /\ payload_written = Length[manifest] /\ row_fill = 0
      /\ payload_written = row_address + row_fill
  BY DEF Layout, Filled, Working
<1>2. row_address = Length[manifest] BY <1>1
<1>3. /\ next_page % PageWords = 0 /\ next_page <= AppWords
      /\ row_address <= next_page /\ next_page < row_address + PageWords
  BY DEF Layout, Pointers, Working
<1>4. PageEnd(row_address) = next_page
  BY <1>3, RoundsUp DEF PageEnd
<1> SUFFICES ASSUME NEW a \in 0..next_page - 1 PROVE app[a] # Torn
  BY <1>2, <1>4 DEF Preflight
<1>5. a \in AppAddr BY <1>3 DEF AppAddr
<1>6. /\ a < row_address => app[a] # Torn
      /\ row_address <= a /\ a < next_page => app[a] = Erased
  BY <1>5 DEF Layout, Pages, Working, Ahead
<1> QED BY <1>6, CellAssumption

LEMMA ReadableStep ==
  ASSUME IInv, Layout, InstalledIsReadable, [Next]_vars
  PROVE  InstalledIsReadable'
<1> SUFFICES ASSUME NEW m \in Images, Describes(m)' PROVE Preflight(m)'
  BY DEF InstalledIsReadable
<1>1. app' = app BY DescribedBefore
<1>2. Preflight(m)
  BY DescribedBefore, CommittedReadable DEF InstalledIsReadable
<1> QED BY <1>1, <1>2 DEF Preflight

LEMMA InitReadable == Init => InstalledIsReadable
<1> SUFFICES ASSUME Init, NEW m \in Images, Describes(m) PROVE Preflight(m)
  BY DEF InstalledIsReadable
<1>1. Length[m] \in 1..AppWords /\ PageWords \in Nat \ {0}
      /\ AppWords \in Nat /\ AppWords % PageWords = 0
  BY LengthAssumption, SizesAssumption
<1>2. \A a \in AppAddr : app[a] # Torn
  <2>1. \A a \in AppAddr, x \in Images : <<x, a>> # Torn
    BY CellAssumption DEF Data, AppAddr
  <2> QED BY <2>1, CellAssumption DEF Init, Blank
<1>3. PageEnd(Length[m]) <= AppWords
  <2> DEFINE k == (Length[m] + PageWords - 1) \div PageWords
             e == k * PageWords
  <2>1. k \in Int /\ e \in Int /\ e <= Length[m] + PageWords - 1 BY <1>1
  <2>2. e % PageWords = 0
    <3> HIDE DEF k
    <3> QED BY <1>1, <2>1, Multiple
  <2>3. PageEnd(Length[m]) = e BY DEF PageEnd
  <2>4. e \in Int /\ e <= Length[m] + PageWords - 1 /\ e % PageWords = 0
    BY <2>1, <2>2
  <2> HIDE DEF e, k
  <2>5. ASSUME AppWords < e PROVE FALSE
    <3>1. AppWords + PageWords <= e BY <1>1, <2>4, <2>5, UnitApart
    <3> QED BY <1>1, <2>4, <3>1
  <2> QED BY <1>1, <2>3, <2>4, <2>5
<1>4. PageEnd(Length[m]) \in Int BY <1>1 DEF PageEnd
<1> SUFFICES ASSUME NEW a \in 0..PageEnd(Length[m]) - 1 PROVE app[a] # Torn
  BY DEF Preflight
<1>5. a \in AppAddr BY <1>1, <1>3, <1>4 DEF AppAddr
<1> QED BY <1>2, <1>5

LEMMA SpecReadable == Spec => [](IInv /\ Layout /\ InstalledIsReadable)
BY SpecLayout, InitReadable, ReadableStep, PTL DEF Spec

\* No committed image fails the boot's ECC preflight: every word of every page it
\* touches reads, the words behind the payload included, whatever was interrupted
\* before and after (nora_nvm_crc_preflight).
THEOREM InstalledAlwaysReadable == Spec => []InstalledIsReadable
BY SpecReadable, PTL

\* receive_and_install returns OK only with the received image installed, whole
\* and bootable, and it stays so until the next call.
THEOREM OkAlwaysInstalled == Spec => []OkMeansInstalled
<1>1. IInv /\ Layout /\ InstalledIsReadable => OkMeansInstalled
  BY DEF IInv, Layout, Sealed, InstalledIsWhole, InstalledIsReadable,
         OkMeansInstalled, Installed
<1> QED BY <1>1, SpecReadable, PTL

\* A Flash word is programmed only when it is erased (a second program of a word
\* destroys its ECC): rows, the words of the partial row, and the header's words.
THEOREM NeverOverprogrammed == Spec => NoOverprogramming
<1> DEFINE P == /\ pc = "row_program" => \A a \in RowCells : app[a] = Erased
                /\ pc = "tail_program" => app[row_address + word] = Erased
                /\ pc = "commit" => man[word] = Erased
<1>1. IInv /\ Layout => P
  <2> SUFFICES ASSUME IInv, Layout PROVE P OBVIOUS
  <2> USE Numbers DEF IInv
  <2>1. ASSUME pc \in {"row_program", "tail_program"}
        PROVE  /\ row_address + RowWords <= next_page /\ next_page <= AppWords
               /\ \A a \in AppAddr : Ahead <= a /\ a < next_page => app[a] = Erased
    BY <2>1, RowInPage DEF Layout, Pointers, Pages, Working
  <2>2. ASSUME pc = "row_program", NEW a \in RowCells PROVE app[a] = Erased
    <3>1. a \in row_address..row_address + RowWords - 1 BY DEF RowCells
    <3>2. a \in AppAddr /\ row_address <= a /\ a < next_page
      BY <2>1, <2>2, <3>1 DEF AppAddr
    <3>3. Ahead = row_address BY <2>2 DEF Ahead
    <3> QED BY <2>1, <2>2, <3>2, <3>3
  <2>3. ASSUME pc = "tail_program" PROVE app[row_address + word] = Erased
    <3>1. word < row_fill BY <2>3 DEF Layout, Filled, Working
    <3>2. Ahead = row_address + word BY <2>3 DEF Ahead
    <3>3. Ahead \in AppAddr /\ Ahead < next_page
      BY <2>1, <2>3, <3>1, <3>2 DEF AppAddr
    <3> QED BY <2>1, <2>3, <3>2, <3>3
  <2>4. ASSUME pc = "commit" PROVE man[word] = Erased
    BY <2>4 DEF CommitSound, ManAddr
  <2> QED BY <2>2, <2>3, <2>4
<1>2. P => [P]_vars OBVIOUS
<1> HIDE DEF P
<1>3. Spec => [][P]_vars BY <1>1, <1>2, SpecLayout, PTL
<1> QED BY <1>3 DEF P, NoOverprogramming

(***************************************************************************)
(* The installer implements the atomic update.                             *)
(***************************************************************************)

\* The image a boot would launch is the one the manifest names.
LEMMA LaunchedIsDescribed ==
  InstalledIsWhole /\ InstalledIsReadable =>
    /\ \A m \in Images : Describes(m) => LaunchedImage = m
    /\ (\A m \in Images : ~Describes(m)) => LaunchedImage = None
<1> SUFFICES ASSUME InstalledIsWhole, InstalledIsReadable
             PROVE  /\ \A m \in Images : Describes(m) => LaunchedImage = m
                    /\ (\A m \in Images : ~Describes(m)) => LaunchedImage = None
  OBVIOUS
<1>1. ASSUME NEW m \in Images, Describes(m) PROVE LaunchedImage = m
  <2>1. Installed(m) /\ Holds(m)
    BY <1>1 DEF Installed, InstalledIsWhole, InstalledIsReadable
  <2>2. ASSUME NEW x \in Images, Installed(x) PROVE x = m
    <3>1. 0 \in ManAddr BY SizesAssumption DEF ManAddr
    <3>2. man[0] = <<m, 0>> /\ man[0] = <<x, 0>>
      BY <1>1, <2>2, <3>1 DEF Installed, Describes
    <3> QED BY <3>2
  <2>3. (CHOOSE x \in Images : Installed(x)) = m BY <2>1, <2>2
  <2> QED BY <2>1, <2>3 DEF LaunchedImage
<1>2. ASSUME \A m \in Images : ~Describes(m) PROVE LaunchedImage = None
  BY <1>2 DEF LaunchedImage, Installed
<1> QED BY <1>1, <1>2

LEMMA LaunchedIsDescribedNext ==
  (InstalledIsWhole /\ InstalledIsReadable)' =>
    /\ \A m \in Images : Describes(m)' => LaunchedImage' = m
    /\ (\A m \in Images : ~Describes(m)') => LaunchedImage' = None
<1>1. (InstalledIsWhole /\ InstalledIsReadable =>
         /\ \A m \in Images : Describes(m) => LaunchedImage = m
         /\ (\A m \in Images : ~Describes(m)) => LaunchedImage = None)'
  BY LaunchedIsDescribed, PTL
<1> QED BY <1>1

\* The image whose package is being received.
Incoming == IF Receiving THEN manifest ELSE None

\* The installed image is given up where the header page is erased, and replaces
\* nothing where the new header is complete.
LEMMA LaunchedStep ==
  ASSUME IInv, InstalledIsReadable, IInv', InstalledIsReadable', [Next]_vars
  PROVE  \/ LaunchedImage' = LaunchedImage
         \/ Incoming # None /\ LaunchedImage' = None
         \/ /\ Incoming # None /\ LaunchedImage = None
            /\ LaunchedImage' = Incoming
<1>1. pc \in {"invalidate", "commit"} => Incoming = manifest /\ Incoming # None
  BY CellAssumption DEF IInv, ContextSound, Incoming, Receiving
<1>2. CASE \E m \in Images : Describes(m)'
  <2>1. PICK m \in Images : Describes(m)' BY <1>2
  <2>2. LaunchedImage' = m BY <2>1, LaunchedIsDescribedNext DEF IInv
  <2>3. CASE Describes(m)
    <3>1. LaunchedImage = m BY <2>3, LaunchedIsDescribed DEF IInv
    <3> QED BY <2>2, <3>1
  <2>4. CASE ~Describes(m)
    <3>1. pc = "commit" /\ m = manifest /\ ~\E x \in Images : Describes(x)
      BY <2>1, <2>4, DescribedBefore
    <3>2. LaunchedImage = None BY <3>1, LaunchedIsDescribed DEF IInv
    <3> QED BY <1>1, <2>2, <3>1, <3>2
  <2> QED BY <2>3, <2>4
<1>3. CASE ~\E m \in Images : Describes(m)'
  <2>1. LaunchedImage' = None BY <1>3, LaunchedIsDescribedNext DEF IInv
  <2>2. CASE \E m \in Images : Describes(m)
    <3>1. man' # man BY <1>3, <2>2 DEF Describes
    <3>2. pc \in {"invalidate", "commit"} BY <3>1, ManifestTouched
    <3> QED BY <1>1, <2>1, <3>2
  <2>3. CASE ~\E m \in Images : Describes(m)
    <3>1. LaunchedImage = None BY <2>3, LaunchedIsDescribed DEF IInv
    <3> QED BY <2>1, <3>1
  <2> QED BY <2>2, <2>3
<1> QED BY <1>2, <1>3

\* A package is begun by a header, and then kept until it ends.
LEMMA IncomingStep ==
  ASSUME IInv, [Next]_vars
  PROVE  \/ Incoming' \in {Incoming, None}
         \/ Incoming = None /\ Incoming' \in Images
<1> USE DEF Incoming, Receiving
<1>1. CASE Start BY <1>1 DEF Start, ResetContext
<1>2. CASE Engine
  <2>1. CASE EraseManifest BY <2>1 DEF EraseManifest
  <2>2. CASE \/ PreparePage("row_prepare", "row_program")
             \/ PreparePage("tail_prepare", "tail_program")
    BY <2>2 DEF PreparePage
  <2>3. CASE Copy \/ BlockDone \/ ProgramRow BY <2>3 DEF Copy, BlockDone, ProgramRow
  <2>4. CASE ProgramTailWord
    BY <2>4 DEF ProgramTailWord, TailWordDone, TailWordFails
  <2>5. CASE CheckFlash \/ CommitWord BY <2>5 DEF CheckFlash, CommitWord, context
  <2> QED BY <1>2, <2>1, <2>2, <2>3, <2>4, <2>5 DEF Engine
<1>3. CASE Host
  <2>1. ASSUME NEW n \in BlockWords, NEW m \in Images \cup {None},
               NEW ok \in BOOLEAN, FirstBlock(n, m, ok)
        PROVE  Incoming = None /\ Incoming' \in Images \cup {None}
    BY <2>1 DEF FirstBlock
  <2>2. ASSUME NEW n \in BlockWords, NEW ok \in BOOLEAN, NextBlock(n, ok)
        PROVE  Incoming' \in {Incoming, None}
    BY <2>2 DEF NextBlock, context
  <2>3. CASE EndOfTransfer \/ TransferFails
    BY <2>3 DEF EndOfTransfer, TransferFails, context
  <2> QED BY <1>3, <2>1, <2>2, <2>3 DEF Host
<1>4. CASE FlashError \/ Crash BY <1>4 DEF FlashError, Crash
<1>5. CASE UNCHANGED vars BY <1>5 DEF vars, context
<1> QED BY <1>1, <1>2, <1>3, <1>4, <1>5 DEF Next

\* At every instant, power failures included, either one whole image is installed
\* or none: an update gives up the old image before it installs another, never
\* replaces one in place, and installs nothing but what it received.
THEOREM UpdateIsAtomic == Spec => ImplementsAtomicUpdate
<1> DEFINE J == IInv /\ Layout /\ InstalledIsReadable
<1>1. Init => Abstract!Init
  <2> SUFFICES ASSUME Init PROVE Abstract!Init OBVIOUS
  <2>1. InstalledIsWhole /\ InstalledIsReadable
    BY InitIInv, InitReadable DEF IInv
  <2>2. LaunchedImage \in Images \cup {None} BY <2>1, LaunchedIsDescribed
  <2>3. Incoming = None BY DEF Init, Incoming, Receiving
  <2> QED BY <2>2, <2>3 DEF Abstract!Init, Incoming
<1>2. J /\ J' /\ [Next]_vars => [Abstract!Next]_(Abstract!vars)
  <2> SUFFICES ASSUME J, J', [Next]_vars
               PROVE  [Abstract!Next]_(Abstract!vars)
    OBVIOUS
  <2>1. \/ LaunchedImage' = LaunchedImage
        \/ Incoming # None /\ LaunchedImage' = None
        \/ Incoming # None /\ LaunchedImage = None /\ LaunchedImage' = Incoming
    BY LaunchedStep
  <2>2. \/ Incoming' \in {Incoming, None}
        \/ Incoming = None /\ Incoming' \in Images
    BY IncomingStep
  <2>3. CASE LaunchedImage' = LaunchedImage /\ Incoming' \in {Incoming, None}
    <3>1. Abstract!Abandon
      BY <2>3 DEF Abstract!Abandon, Abstract!Ends, Incoming
    <3> QED BY <3>1 DEF Abstract!Next
  <2>4. CASE LaunchedImage' = LaunchedImage /\ Incoming = None /\ Incoming' \in Images
    <3>1. Abstract!Begin(Incoming') BY <2>4 DEF Abstract!Begin, Incoming
    <3> QED BY <2>4, <3>1 DEF Abstract!Next
  <2>5. CASE Incoming # None /\ LaunchedImage' = None
    <3>1. Abstract!Invalidate
      BY <2>2, <2>5 DEF Abstract!Invalidate, Abstract!Ends, Incoming
    <3> QED BY <3>1 DEF Abstract!Next
  <2>6. CASE Incoming # None /\ LaunchedImage = None /\ LaunchedImage' = Incoming
    <3>1. Abstract!Commit
      BY <2>2, <2>6 DEF Abstract!Commit, Abstract!Ends, Incoming
    <3> QED BY <3>1 DEF Abstract!Next
  <2> QED BY <2>1, <2>2, <2>3, <2>4, <2>5, <2>6
<1> HIDE DEF J
<1>3. Spec => []J BY SpecReadable DEF J
<1> QED BY <1>1, <1>2, <1>3, PTL DEF Spec, ImplementsAtomicUpdate, Abstract!Spec
=============================================================================
