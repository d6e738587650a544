-------------------------- MODULE RecognitionContract --------------------------
(***************************************************************************)
(* What the phone promises about the speech segments it is sent: they are  *)
(* received in the order of speech, and answered in that order, each at    *)
(* most once and none before it was received.  A segment may stay          *)
(* unanswered: too short, nothing recognised, dropped because the phone is *)
(* busy, or no connection to answer on.                                    *)
(***************************************************************************)
EXTENDS Naturals, SequencesExt

CONSTANT Segment    \* the segments, numbered in the order of speech

VARIABLES received, \* the segments received
          answered  \* the answers, in order

rvars == <<received, answered>>

RInit == received = {} /\ answered = <<>>

Receive(s) ==
    /\ \A r \in received : r < s
    /\ received' = received \cup {s}
    /\ UNCHANGED answered

Answer(s) ==
    /\ s \in received
    /\ \A a \in Range(answered) : a < s
    /\ answered' = Append(answered, s)
    /\ UNCHANGED received

RNext == \E s \in Segment : Receive(s) \/ Answer(s)

RSpec == RInit /\ [][RNext]_rvars

=============================================================================
