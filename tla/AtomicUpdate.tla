---------------------------- MODULE AtomicUpdate ----------------------------
(***************************************************************************)
(* What the resident bootloader promises about the application section:    *)
(* at every instant, power failures included, either one whole image is    *)
(* installed or none is.  An update gives up the old image before it       *)
(* installs another: an image is never replaced in place, and only the     *)
(* image whose package is being received can become the installed one.     *)
(***************************************************************************)
CONSTANTS Images,   \* the application images a host may send
          None      \* no image

VARIABLES installed, \* the image a boot would launch, or None
          incoming   \* the image being received, or None

vars == <<installed, incoming>>

Init == installed \in Images \cup {None} /\ incoming = None

\* A package header is accepted; the old image is still installed.
Begin(m) == incoming = None /\ incoming' = m /\ UNCHANGED installed

\* The transfer ends (or is cut off), now or as part of another step.
Ends == incoming' \in {incoming, None}

Abandon == Ends /\ UNCHANGED installed

\* The old image is given up, before the new one exists.
Invalidate == incoming # None /\ installed' = None /\ Ends

\* The received image becomes the installed one.
Commit == /\ incoming # None /\ installed = None
          /\ installed' = incoming
          /\ Ends

Next == (\E m \in Images : Begin(m)) \/ Abandon \/ Invalidate \/ Commit

Spec == Init /\ [][Next]_vars
=============================================================================
