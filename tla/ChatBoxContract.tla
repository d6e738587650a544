--------------------------- MODULE ChatBoxContract ---------------------------
(***************************************************************************)
(* What the ChatBox queue of the PC promises to the speaker: texts are     *)
(* delivered in the order in which they were accepted, and none is         *)
(* delivered again while it is among the last Window deliveries or still   *)
(* waiting.  When a text is delivered, and what makes a delivery fail and  *)
(* be tried again, is left to the implementation.                          *)
(***************************************************************************)
EXTENDS Naturals, SequencesExt

CONSTANTS Text,    \* the messages, none of them empty
          Window   \* how many deliveries are remembered

VARIABLES waiting,    \* accepted, not delivered yet, oldest first
          delivered   \* the last Window deliveries, oldest first

cvars == <<waiting, delivered>>

\* The memory s after one more delivery.
Recall(s, t) ==
    IF Len(s) < Window THEN Append(s, t) ELSE Tail(Append(s, t))

CInit == waiting = <<>> /\ delivered = <<>>

Accept ==
    \E t \in Text \ (Range(waiting) \cup Range(delivered)) :
        /\ waiting' = Append(waiting, t)
        /\ UNCHANGED delivered

Deliver ==
    /\ waiting # <<>>
    /\ delivered' = Recall(delivered, Head(waiting))
    /\ waiting' = Tail(waiting)

\* The speaker gives the waiting texts up.
Discard ==
    /\ waiting' = <<>>
    /\ UNCHANGED delivered

CNext == Accept \/ Deliver \/ Discard

CSpec == CInit /\ [][CNext]_cvars

=============================================================================
