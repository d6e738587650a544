-------------------------------- MODULE VadClock --------------------------------
(***************************************************************************)
(* The two clocks of the segmentation: m_currentTime of Vad, a float the   *)
(* detector adds 160/16000 to for every frame, and m_totalSamples of       *)
(* PreRollBuffer, a count of samples.  main.cpp uses times of the first to *)
(* find audio by the second.  Vad::reset, which would clear the first, is  *)
(* called by nobody.                                                       *)
(*                                                                         *)
(* The float is <<m, e>> for m * 2^e * 2^-Fraction seconds, with m below   *)
(* 2^Bits; an addition rounds to nearest, ties to even.  The model         *)
(* advances by a whole chunk of frames at once.                            *)
(***************************************************************************)
EXTENDS Integers, Functions

CONSTANTS Bits,       \* precision of the float
          Fraction,   \* fraction bits of the smallest times
          Duration,   \* the float chunkDuration, times 2^Fraction; below 2^Bits
          FrameRate,  \* frames in a second
          Chunk,      \* frames in a step of the model
          Session,    \* bound of the model: frames of the session
          Margin      \* frames of pre-roll and of post-roll

VARIABLES frames,   \* m_totalSamples, in frames
          clock     \* m_currentTime
vars == <<frames, clock>>

-----------------------------------------------------------------------------
(* Float addition *)

\* The sum of clock c and Duration, cut off to exponent e.
Whole(c, e) == (c[1] + Duration \div 2^c[2]) \div 2^(e - c[2])

\* What is cut off, in units of 2^-Fraction.
Rest(c, e) ==
    ((c[1] + Duration \div 2^c[2]) % 2^(e - c[2])) * 2^c[2] + (Duration % 2^c[2])

\* To nearest, ties to even.
RoundNearest(whole, rest, e) ==
    IF 2 * rest > 2^e \/ (2 * rest = 2^e /\ whole % 2 = 1) THEN whole + 1 ELSE whole

\* The exponent the sum needs, and the carry of rounding.
Exponent(c) == IF c[1] + Duration \div 2^c[2] < 2^Bits THEN c[2] ELSE c[2] + 1
Normal(m, e) == IF m = 2^Bits THEN <<m \div 2, e + 1>> ELSE <<m, e>>

\* m_currentTime += chunkDuration
AddFrame(c) ==
    LET e == Exponent(c)
    IN  Normal(RoundNearest(Whole(c, e), Rest(c, e), e), e)

\* The clock after n more frames.
AddFrames(c, n) == FoldFunction(LAMBDA i, t : AddFrame(t), c, [i \in 1..n |-> i])

\* The clock in frames, rounded down.
InFrames(c) == (c[1] * FrameRate) \div 2^(Fraction - c[2])

-----------------------------------------------------------------------------
Init == frames = 0 /\ clock = <<0, 0>>

\* A chunk is appended to the ring and processed by the detector.
Step ==
    /\ frames < Session
    /\ frames' = frames + Chunk
    /\ clock' = AddFrames(clock, Chunk)

Next == Step

Spec == Init /\ [][Next]_vars

-----------------------------------------------------------------------------
(* Properties *)

\* The detector's time and the ring's differ by less than the padding, so
\* that the pre-roll looked up for an utterance touches it, and the time
\* "Speech started at" is logged with is the time it started.
ClocksAgree ==
    /\ InFrames(clock) - frames < Margin
    /\ frames - InFrames(clock) < Margin
=============================================================================
