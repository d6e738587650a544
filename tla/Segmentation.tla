------------------------------ MODULE Segmentation ------------------------------
(***************************************************************************)
(* From samples to segments: the voice activity detector with its FireRed  *)
(* backend (vad.cpp, firered_vad_ort.cpp), the ring of recent audio        *)
(* (pre_roll_buffer.cpp) and main.cpp's padding of the segments.           *)
(*                                                                         *)
(* One thread appends a chunk to the ring, lets the detector look at it    *)
(* frame by frame, and sends the segments whose post-roll is complete.     *)
(* In the mode "file" (--wav-vad) padding comes from the file and nothing  *)
(* is deferred; "simulate" (--simulate-wav-vad) treats a file as "live"    *)
(* treats the capture device.                                              *)
(*                                                                         *)
(* The unit is the frame of 10 ms.  A frame is named by its position in    *)
(* the captured stream, so audio is a sequence of positions.  Two clocks   *)
(* count frames: captured, the ring's, is exact; vadTime, the detector's,  *)
(* misses the frames inference failed for and is a float that rounds.      *)
(***************************************************************************)
EXTENDS Integers, SequencesExt

CONSTANTS Pre, Post,   \* kVadPreRollSeconds, kVadPostRollSeconds
          Ring,        \* kLiveRingBufferSeconds
          EndSilence, MaxSpeech,   \* configuration of the detector
          MaxChunk,    \* bound: frames captured at once
          MaxFrames,   \* bound: frames there are in all
          MaxFaults,   \* bound: frames inference fails for
          MaxDrift,    \* bound: rounding of vadTime, see VadClock
          Modes        \* modes the program is started in

ASSUME SegmentationAssumption ==
    /\ {Pre, Post, Ring, MaxFaults, MaxDrift} \subseteq Nat
    /\ {EndSilence, MaxSpeech, MaxChunk, MaxFrames} \subseteq Nat \ {0}
    /\ Modes \subseteq {"live", "simulate", "file"}

VARIABLES mode,      \* g_vadSourceSamples and how main runs
          length,    \* frames of the file, or until the user quits
          pc,        \* what the thread does next
          captured,  \* m_totalSamples of the ring, or the offset in the file
          seen,      \* frames the detector has taken
          faults,    \* how many of those were lost
          vadTime,   \* m_currentTime
          inSpeech, speechStart, silence, buffer,   \* of Vad
          pending,   \* g_pendingLiveSegments
          sent,      \* history: segments given to the merge buffer
          spoken     \* history: frames judged to be speech

input == <<mode, length>>
clocks == <<captured, seen, faults, vadTime>>
detector == <<inSpeech, speechStart, silence, buffer>>
vars == <<input, pc, clocks, detector, pending, sent, spoken>>

Frame == 0..(MaxFrames - 1)
Time == (-MaxDrift)..(MaxFrames + MaxDrift)

Segment == [start : Time, samples : Seq(Frame), preRoll : Seq(Frame)]
Sent == [start : Time, samples : Seq(Frame), audio : Seq(Frame)]

TypeOK ==
    /\ mode \in Modes /\ length \in 1..MaxFrames
    /\ pc \in {"append", "vad", "flush", "drain", "ended"}
    /\ captured \in 0..length /\ seen \in 0..captured
    /\ faults \in 0..MaxFaults /\ vadTime \in Time
    /\ inSpeech \in BOOLEAN /\ speechStart \in Time
    /\ silence \in 0..MaxFrames
    /\ buffer \in Seq(Frame)
    /\ pending \in Seq(Segment) /\ sent \in Seq(Sent)
    /\ spoken \in SUBSET Frame

Init ==
    /\ mode \in Modes /\ length \in 1..MaxFrames
    /\ pc = "append"
    /\ captured = 0 /\ seen = 0 /\ faults = 0 /\ vadTime = 0
    /\ inSpeech = FALSE /\ speechStart = 0 /\ silence = 0 /\ buffer = <<>>
    /\ pending = <<>> /\ sent = <<>> /\ spoken = {}

-----------------------------------------------------------------------------
(* The ring and the padding *)

Clip(t, low, high) == IF t < low THEN low ELSE IF t > high THEN high ELSE t

\* The frames from a up to b, without b.
Span(a, b) == [i \in 1..Clip(b - a, 0, MaxFrames) |-> a + i - 1]

\* The oldest frame the ring holds.
FirstStored == Clip(captured - Ring, 0, captured)

\* Mutant: the end of the range is one frame late.
RangeTooLong(a, b) == Span(Clip(a, FirstStored, captured),
                           Clip(b + 1, FirstStored, captured))

\* PreRollBuffer::getRange
GetRange(a, b) == Span(Clip(a, FirstStored, captured),
                       Clip(b, FirstStored, captured))

\* The segment's padded range.
PaddedStart(start) == IF start > Pre THEN start - Pre ELSE 0
PaddedEnd(start, samples) == start + Len(samples) + Post

\* What flushPendingLiveSegments puts together.
Audio(seg) ==
    seg.preRoll \o seg.samples
      \o GetRange(seg.start + Len(seg.samples),
                  PaddedEnd(seg.start, seg.samples))

\* The padded range of the file, or the segment when that is empty.
FileAudio(start, samples) ==
    LET range == Span(Clip(PaddedStart(start), 0, length),
                      Clip(PaddedEnd(start, samples), 0, length))
    IN  IF range = <<>> THEN samples ELSE range

Hand(start, samples, audio) ==
    sent' = Append(sent, [start |-> start, samples |-> samples, audio |-> audio])

\* onSpeechSegment: a file's segment is sent at once, another waits for its
\* post-roll.
OnSpeechSegment(start, samples) ==
    \/ /\ mode = "file"
       /\ Hand(start, samples, FileAudio(start, samples))
       /\ UNCHANGED pending
    \/ /\ mode # "file"
       /\ pending' = Append(pending,
                            [start |-> start, samples |-> samples,
                             preRoll |-> GetRange(PaddedStart(start), start)])
       /\ UNCHANGED sent

\* detectSegment's call of it.
NoSegment == UNCHANGED <<pending, sent>>
DetectSegment(start, samples) ==
    IF samples = <<>> THEN NoSegment ELSE OnSpeechSegment(start, samples)

-----------------------------------------------------------------------------
(* The thread *)

\* A chunk arrives and is appended to the ring.
Capture ==
    /\ pc = "append" /\ captured < length
    /\ \E n \in 1..Clip(length - captured, 1, MaxChunk) :
          captured' = captured + n
    /\ pc' = "vad"
    /\ UNCHANGED <<input, seen, faults, vadTime, detector, pending, sent, spoken>>

\* The detector takes the next frame; the last one of the chunk is followed
\* by the flush.
TakeFrame ==
    /\ pc = "vad" /\ seen < captured
    /\ seen' = seen + 1
    /\ UNCHANGED <<input, captured>>

\* The detector's clock moves by a frame, up to rounding.
AdvanceTime ==
    \E r \in {-1, 0, 1} :
       /\ vadTime' = vadTime + 1 + r
       /\ vadTime' - (seen' - faults) \in (-MaxDrift)..MaxDrift

Continue == pc' = IF seen' = captured THEN "flush" ELSE "vad"

\* Speech while none was going on starts an utterance; the buffer may reach
\* its maximum with the frame.
Starts ==
    /\ ~inSpeech
    /\ inSpeech' = TRUE /\ speechStart' = vadTime' - 1 /\ silence' = 0

\* Silence in an utterance is added up; more speech does not reset it.
Goes(isSpeech) ==
    /\ inSpeech
    /\ silence' = IF isSpeech THEN silence ELSE silence + 1
    /\ isSpeech \/ silence' < EndSilence
    /\ UNCHANGED <<inSpeech, speechStart>>

\* A frame of an utterance is kept; a full buffer becomes a segment, and the
\* utterance goes on.
BufferFrame ==
    LET full == Append(buffer, seen)
    IN  IF Len(full) > MaxSpeech
        THEN buffer' = <<>> /\ DetectSegment(speechStart', full)
        ELSE buffer' = full /\ NoSegment

\* updateSpeechState of a frame that starts or continues an utterance.
SpeechFrame(isSpeech) ==
    /\ TakeFrame /\ AdvanceTime /\ Continue
    /\ (isSpeech /\ Starts) \/ Goes(isSpeech)
    /\ BufferFrame
    /\ spoken' = IF isSpeech THEN spoken \cup {seen} ELSE spoken
    /\ UNCHANGED faults

\* updateSpeechState of the silence that ends an utterance; the frame itself
\* is not part of the segment.
EndUtterance ==
    /\ TakeFrame /\ AdvanceTime /\ Continue
    /\ inSpeech /\ silence + 1 >= EndSilence
    /\ silence' = silence + 1
    /\ DetectSegment(speechStart, buffer)
    /\ buffer' = <<>> /\ inSpeech' = FALSE
    /\ UNCHANGED <<faults, speechStart, spoken>>

\* updateSpeechState of silence between utterances.
IdleFrame ==
    /\ TakeFrame /\ AdvanceTime /\ Continue
    /\ ~inSpeech
    /\ UNCHANGED <<faults, detector, pending, sent, spoken>>

\* Inference fails: the frame is lost, the rest of the chunk waits for the
\* next call.
Fault ==
    /\ TakeFrame
    /\ faults < MaxFaults /\ faults' = faults + 1
    /\ pc' = "flush"
    /\ UNCHANGED <<vadTime, detector, pending, sent, spoken>>

-----------------------------------------------------------------------------
(* Flushing *)

\* Mutant: a segment waits for twice its post-roll.
ReadyLate(seg) == captured >= PaddedEnd(seg.start, seg.samples) + Post

\* Mutant: a segment does not wait for its post-roll.
ReadyEarly(seg) == captured >= seg.start + Len(seg.samples)

\* The post-roll has been captured.
Ready(seg) == captured >= PaddedEnd(seg.start, seg.samples)

SendFront ==
    /\ pending # <<>>
    /\ Hand(Head(pending).start, Head(pending).samples, Audio(Head(pending)))
    /\ pending' = Tail(pending)
    /\ UNCHANGED <<input, pc, clocks, detector, spoken>>

\* flushPendingLiveSegments(false): one turn of its loop, and its end.
FrontReady == pending # <<>> /\ Ready(Head(pending))
FlushReady == pc = "flush" /\ FrontReady /\ SendFront
FlushDone ==
    /\ pc = "flush" /\ ~FrontReady
    /\ pc' = "append"
    /\ UNCHANGED <<input, clocks, detector, pending, sent, spoken>>

\* Mutant: the end of a file is handled as the end of live capture.
AfterInputLive == "ended"

\* Live, nobody looks at the pending segments any more.
AfterInput == IF mode = "live" THEN "ended" ELSE "drain"

\* The end of the input: Vad::flush.
FlushVad ==
    /\ pc = "append" /\ captured = length
    /\ IF inSpeech /\ buffer # <<>>
       THEN /\ DetectSegment(speechStart, buffer)
            /\ buffer' = <<>> /\ inSpeech' = FALSE
       ELSE NoSegment /\ UNCHANGED <<buffer, inSpeech>>
    /\ pc' = AfterInput
    /\ UNCHANGED <<input, clocks, speechStart, silence, spoken>>

\* flushPendingLiveSegments(true)
Drain == pc = "drain" /\ SendFront
DrainDone ==
    /\ pc = "drain" /\ pending = <<>>
    /\ pc' = "ended"
    /\ UNCHANGED <<input, clocks, detector, pending, sent, spoken>>

Next ==
    \/ Capture
    \/ \E isSpeech \in BOOLEAN : SpeechFrame(isSpeech)
    \/ EndUtterance
    \/ IdleFrame
    \/ Fault
    \/ FlushReady \/ FlushDone
    \/ FlushVad
    \/ Drain \/ DrainDone

Spec == Init /\ [][Next]_vars

-----------------------------------------------------------------------------
(* Properties *)

FramesOf(segments) == UNION {ToSet(segments[i].audio) : i \in DOMAIN segments}

\* The frames of the segments themselves, without padding.
CoresOf(segments) == [i \in DOMAIN segments |-> segments[i].samples]
CoreFrames(segments) == UNION {ToSet(segments[i].samples) : i \in DOMAIN segments}

\* The frames of the segment are the ones its times name.  This is not so for
\* the later parts of an utterance that was cut, after a failed inference,
\* and when the clock drifts.
WhereReported(seg) ==
    seg.samples = Span(seg.start, seg.start + Len(seg.samples))

\* Every frame of speech is sent, waits or is in the detector's buffer, and
\* when a file is done it is sent: no cut, end of an utterance, failed
\* inference or flush loses one.  --wav-vad looks up its audio by times, so
\* it can only promise this while they are right.
SpeechKept ==
    (mode = "file" => \A i \in DOMAIN sent : WhereReported(sent[i])) =>
       /\ spoken \subseteq FramesOf(sent) \cup CoreFrames(pending) \cup ToSet(buffer)
       /\ pc = "ended" /\ mode # "live" => spoken \subseteq FramesOf(sent)

\* The segments, one after the other, sent, pending and in the buffer, run
\* through the captured frames forwards: none is in two, none is overtaken.
CoresInOrder ==
    LET cores == CoresOf(sent) \o CoresOf(pending) \o <<buffer>>
    IN  \A i, j \in DOMAIN cores :
           \A k \in DOMAIN cores[i], l \in DOMAIN cores[j] :
              i < j \/ (i = j /\ k < l) => cores[i][k] < cores[j][l]

\* The audio of a segment that is where its times say is one piece of the
\* stream that contains it: no gap and no repetition where padding and
\* segment meet, although the ring may have lost some of the pre-roll.
SentConsecutive ==
    \A i \in DOMAIN sent :
       WhereReported(sent[i]) =>
          LET audio == sent[i].audio
          IN  /\ \A j \in 1..(Len(audio) - 1) : audio[j + 1] = audio[j] + 1
              /\ ToSet(sent[i].samples) \subseteq ToSet(audio)

\* What leaves the PC is the stream of speech, cut but not rearranged.
StreamInOrder == CoresInOrder /\ SentConsecutive

\* As long as no inference failed, a segment that is where its times say and
\* left room in the ring is sent with its whole pre-roll and, unless the input
\* ended, its whole post-roll.
FullPadding ==
    \A i \in DOMAIN sent :
       LET seg == sent[i]
       IN  /\ faults = 0 /\ WhereReported(seg)
           /\ Len(seg.samples) + MaxChunk + Pre <= Ring
           => /\ Head(seg.audio) = PaddedStart(seg.start)
              /\ Last(seg.audio) = Clip(PaddedEnd(seg.start, seg.samples),
                                        0, length) - 1

\* Between two chunks no finished segment is held back for longer than its
\* post-roll and the drift of the detector's clock.
DelayBounded ==
    pc = "append" =>
       \A i \in DOMAIN pending :
          captured < Last(pending[i].samples) + 1 + Post + MaxDrift

=============================================================================
