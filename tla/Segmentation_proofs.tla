-------------------------- MODULE Segmentation_proofs --------------------------
(***************************************************************************)
(* Proofs about the way of speech from the ring and the detector to the    *)
(* merge buffer, for streams and rings of any length, any padding, limits, *)
(* sizes of chunks, failures of the inference and rounding of its clock.   *)
(***************************************************************************)
EXTENDS Segmentation, SequenceFacts, TLAPS

\* Where in the stream a segment ends.
End(samples) == samples[Len(samples)] + 1

ClockInv ==
    /\ faults <= seen
    /\ vadTime - (seen - faults) \in (-MaxDrift)..MaxDrift
    /\ silence <= seen

\* What a phase of the thread leaves empty.
ControlInv ==
    /\ mode = "file" => pending = <<>>
    /\ ~inSpeech => buffer = <<>>
    /\ pc \in {"drain", "ended"} => buffer = <<>>
    /\ pc = "drain" => captured = length
    /\ pc = "ended" /\ mode # "live" => pending = <<>>

(* Order: the frames of the segments go up, and all of them were taken. *)
Rows(segments) ==
    /\ \A i \in DOMAIN segments : segments[i].samples # <<>> /\ InOrder(segments[i].samples)
    /\ \A i, j \in DOMAIN segments :
          i < j => Before(segments[i].samples, segments[j].samples)

Below(samples, n) == \A k \in 1..Len(samples) : samples[k] < n

OrderInv ==
    /\ Rows(sent) /\ Rows(pending) /\ InOrder(buffer)
    /\ \A i \in DOMAIN sent, j \in DOMAIN pending :
          Before(sent[i].samples, pending[j].samples)
    /\ \A i \in DOMAIN sent : Before(sent[i].samples, buffer) /\ Below(sent[i].samples, seen)
    /\ \A j \in DOMAIN pending : Before(pending[j].samples, buffer) /\ Below(pending[j].samples, seen)
    /\ Below(buffer, seen)

(* Speech is in a segment or will be; live, a segment is in its audio. *)
KeptInv ==
    /\ spoken \subseteq CoreFrames(sent) \cup CoreFrames(pending) \cup ToSet(buffer)
    /\ mode # "file" =>
          \A i \in DOMAIN sent : ToSet(sent[i].samples) \subseteq ToSet(sent[i].audio)

(* The detector's clock is not far ahead, so no segment waits for long. *)
StartsInTime(seg) == seg.start + Len(seg.samples) <= End(seg.samples) + MaxDrift

StartInv ==
    /\ inSpeech => speechStart <= seen + MaxDrift
    /\ buffer # <<>> => speechStart + Len(buffer) <= End(buffer) + MaxDrift
    /\ \A j \in DOMAIN pending : StartsInTime(pending[j])

(* The detector lags behind the ring by the chunks it has lost frames of. *)
LagInv ==
    /\ pc = "vad" => captured + faults <= seen + (faults + 1) * MaxChunk
    /\ pc # "vad" => captured + faults <= seen + faults * MaxChunk
    /\ buffer # <<>> => seen <= End(buffer) + faults

(* The ring still holds what follows a segment that waits. *)
RingInv == \A j \in DOMAIN pending : captured <= End(pending[j].samples) + Ring

(* Padding: what a segment has in front of it, and what it is sent with, *)
(* after n failed inferences of an input of m frames.                    *)
Roomy(seg, n) == n = 0 /\ Len(seg.samples) + MaxChunk + Pre <= Ring

HasPreRoll(seg, n) ==
    WhereReported(seg) =>
       \E x \in 0..seg.start :
          /\ seg.preRoll = Span(x, seg.start)
          /\ Roomy(seg, n) => x = PaddedStart(seg.start)

HasPadding(seg, n, m) ==
    WhereReported(seg) =>
       \E x \in 0..seg.start, y \in (seg.start + Len(seg.samples))..m :
          /\ seg.audio = Span(x, y)
          /\ Roomy(seg, n) => /\ x = PaddedStart(seg.start)
                              /\ y = Clip(PaddedEnd(seg.start, seg.samples), 0, m)

\* The ring is long enough for the post-roll of a segment that waits for it,
\* the next chunk, and the chunks the detector is behind.  The program's ring
\* holds the longest utterance and both paddings.
RingSuffices ==
    /\ Post + MaxDrift + MaxChunk <= Ring + 1
    /\ (MaxFaults + 1) * MaxChunk <= Ring

PaddingInv ==
    /\ \A j \in DOMAIN pending : HasPreRoll(pending[j], faults)
    /\ mode = "file" \/ RingSuffices => \A i \in DOMAIN sent : HasPadding(sent[i], faults, length)

SegmentationInv ==
    /\ TypeOK /\ ClockInv /\ ControlInv
    /\ OrderInv /\ KeptInv
    /\ StartInv /\ DelayBounded /\ LagInv
    /\ RingSuffices => RingInv
    /\ PaddingInv

-----------------------------------------------------------------------------
(* Spans of the stream *)

LEMMA ClipFacts ==
    ASSUME NEW t \in Int, NEW low \in Int, NEW high \in Int, low <= high
    PROVE  /\ Clip(t, low, high) \in low..high
           /\ t <= low => Clip(t, low, high) = low
           /\ t >= high => Clip(t, low, high) = high
           /\ t \in low..high => Clip(t, low, high) = t
BY DEF Clip

LEMMA Constants ==
    /\ Pre \in Nat /\ Post \in Nat /\ Ring \in Nat /\ MaxFaults \in Nat /\ MaxDrift \in Nat
    /\ EndSilence \in Nat /\ EndSilence > 0 /\ MaxSpeech \in Nat /\ MaxSpeech > 0
    /\ MaxChunk \in Nat /\ MaxChunk > 0 /\ MaxFrames \in Nat /\ MaxFrames > 0
    /\ Frame = {n \in Nat : n < MaxFrames}
BY SegmentationAssumption DEF Frame

\* The frames of a span are those from its first up to its last.
LEMMA SpanFacts ==
    ASSUME NEW a \in 0..MaxFrames, NEW b \in a..MaxFrames
    PROVE  /\ Span(a, b) \in Seq(Frame) /\ Len(Span(a, b)) = b - a
           /\ DOMAIN Span(a, b) = 1..(b - a)
           /\ \A i \in 1..(b - a) : Span(a, b)[i] = a + i - 1
           /\ ToSet(Span(a, b)) = a..(b - 1)
<1> USE Constants
<1>1. Clip(b - a, 0, MaxFrames) = b - a
  BY ClipFacts
<1>2. Span(a, b) = [i \in 1..(b - a) |-> a + i - 1]
  BY <1>1 DEF Span
<1>3. b - a \in Nat /\ \A i \in 1..(b - a) : a + i - 1 \in Frame
  OBVIOUS
<1>4. Span(a, b) \in Seq(Frame) /\ Len(Span(a, b)) = b - a
  BY <1>2, <1>3
<1>5. DOMAIN Span(a, b) = 1..(b - a) /\ \A i \in 1..(b - a) : Span(a, b)[i] = a + i - 1
  BY <1>2
<1>6. ToSet(Span(a, b)) \subseteq a..(b - 1)
  BY <1>5 DEF ToSet
<1>7. ASSUME NEW x \in a..(b - 1) PROVE x \in ToSet(Span(a, b))
  <2>1. x - a + 1 \in 1..(b - a) /\ Span(a, b)[x - a + 1] = x
    BY <1>5
  <2> QED
    BY <2>1, <1>5 DEF ToSet
<1> QED
  BY <1>4, <1>5, <1>6, <1>7

LEMMA SpanEmpty ==
    ASSUME NEW a \in 0..MaxFrames, NEW b \in 0..MaxFrames, b <= a
    PROVE  Span(a, b) = <<>>
<1>1. Clip(b - a, 0, MaxFrames) = 0
  BY ClipFacts, Constants
<1>2. 1..0 = {}
  OBVIOUS
<1> QED
  BY <1>1, <1>2 DEF Span

LEMMA SpanType ==
    ASSUME NEW a \in 0..MaxFrames, NEW b \in 0..MaxFrames
    PROVE  Span(a, b) \in Seq(Frame)
<1>1. CASE b <= a
  <2>1. Span(a, b) = <<>>
    BY <1>1, SpanEmpty
  <2> QED
    BY <2>1
<1>2. CASE a <= b
  <2>1. b \in a..MaxFrames
    BY <1>2, Constants
  <2> QED
    BY <2>1, SpanFacts
<1> QED
  BY <1>1, <1>2, Constants

\* Two spans that meet are one.
LEMMA SpanConcat ==
    ASSUME NEW a \in 0..MaxFrames, NEW m \in a..MaxFrames, NEW b \in m..MaxFrames
    PROVE  Span(a, m) \o Span(m, b) = Span(a, b)
<1> USE Constants
<1> DEFINE s == Span(a, m)  t == Span(m, b)  u == Span(a, b)
<1>0. m \in 0..MaxFrames /\ b \in a..MaxFrames
  OBVIOUS
<1>1. /\ s \in Seq(Frame) /\ Len(s) = m - a
      /\ \A i \in 1..(m - a) : s[i] = a + i - 1
  BY SpanFacts
<1>2. /\ t \in Seq(Frame) /\ Len(t) = b - m
      /\ \A i \in 1..(b - m) : t[i] = m + i - 1
  BY <1>0, SpanFacts
<1>3. /\ u \in Seq(Frame) /\ Len(u) = b - a
      /\ \A i \in 1..(b - a) : u[i] = a + i - 1
  BY <1>0, SpanFacts
<1> HIDE DEF s, t, u
<1>4. /\ s \o t \in Seq(Frame) /\ Len(s \o t) = b - a
      /\ \A i \in 1..(b - a) : (s \o t)[i] = IF i <= m - a THEN s[i] ELSE t[i - (m - a)]
  <2>1. /\ s \o t \in Seq(Frame) /\ Len(s \o t) = Len(s) + Len(t)
        /\ \A i \in 1..(Len(s) + Len(t)) :
              (s \o t)[i] = IF i <= Len(s) THEN s[i] ELSE t[i - Len(s)]
    BY <1>1, <1>2, ConcatProperties
  <2> QED
    BY <2>1, <1>1, <1>2
<1>5. ASSUME NEW i \in 1..(b - a) PROVE (s \o t)[i] = u[i]
  <2>1. CASE i <= m - a
    BY <2>1, <1>1, <1>3, <1>4
  <2>2. CASE ~(i <= m - a)
    <3>1. i - (m - a) \in 1..(b - m) /\ t[i - (m - a)] = a + i - 1
      BY <2>2, <1>2
    <3> QED
      BY <2>2, <3>1, <1>3, <1>4
  <2> QED
    BY <2>1, <2>2
<1>6. s \o t = u
  BY <1>3, <1>4, <1>5, SeqEqual
<1> QED
  BY <1>6 DEF s, t, u

\* Frames that are where their start says are a span of the stream.
LEMMA SpanOfFrames ==
    ASSUME NEW a \in Int, NEW s \in Seq(Frame), s # <<>>, NEW e \in Int,
           e = a + Len(s), s = Span(a, e)
    PROVE  /\ a \in Frame /\ e \in (a + 1)..MaxFrames /\ End(s) = e
           /\ ToSet(s) = a..(e - 1)
<1> USE Constants
<1>1. /\ Len(s) \in Nat /\ Len(s) > 0 /\ DOMAIN s = 1..Len(s)
      /\ \A i \in 1..Len(s) : s[i] \in Frame
  OBVIOUS
<1>2. DOMAIN s = 1..Clip(e - a, 0, MaxFrames)
      /\ \A i \in 1..Clip(e - a, 0, MaxFrames) : s[i] = a + i - 1
  BY DEF Span
<1>3. \A i \in 1..Len(s) : s[i] = a + i - 1
  BY <1>1, <1>2
<1>4. s[1] = a /\ s[Len(s)] = a + Len(s) - 1
  <2>1. s[1] = a + 1 - 1 /\ s[Len(s)] = a + Len(s) - 1
    BY <1>1, <1>3
  <2> QED
    BY <2>1
<1>5. a \in Frame /\ e - 1 \in Frame
  BY <1>1, <1>4
<1>6. e \in (a + 1)..MaxFrames /\ a \in 0..MaxFrames /\ e \in a..MaxFrames
  BY <1>1, <1>5
<1>7. End(s) = e
  BY <1>1, <1>4 DEF End
<1>8. ToSet(Span(a, e)) = a..(e - 1)
  BY <1>6, SpanFacts
<1> QED
  BY <1>5, <1>6, <1>7, <1>8

-----------------------------------------------------------------------------
(* Sequences of segments *)

\* The positions of a sequence with one element appended, or without the first.
LEMMA AppendAt ==
    ASSUME NEW S, NEW s \in Seq(S), NEW e \in S
    PROVE  /\ Append(s, e) \in Seq(S)
           /\ \A i \in DOMAIN Append(s, e) :
                 \/ i \in DOMAIN s /\ Append(s, e)[i] = s[i]
                 \/ i = Len(s) + 1 /\ Append(s, e)[i] = e
           /\ \A i \in DOMAIN s : i \in DOMAIN Append(s, e) /\ Append(s, e)[i] = s[i]
           /\ Len(s) + 1 \in DOMAIN Append(s, e) /\ Append(s, e)[Len(s) + 1] = e
           /\ DOMAIN s = 1..Len(s) /\ Len(s) \in Nat
<1>1. /\ Append(s, e) \in Seq(S) /\ Len(Append(s, e)) = Len(s) + 1
      /\ \A i \in 1..Len(s) : Append(s, e)[i] = s[i]
      /\ Append(s, e)[Len(s) + 1] = e
      /\ Len(s) \in Nat /\ DOMAIN s = 1..Len(s)
  OBVIOUS
<1>2. DOMAIN Append(s, e) = 1..(Len(s) + 1)
  BY <1>1
<1>3. \A i \in 1..(Len(s) + 1) : i \in 1..Len(s) \/ i = Len(s) + 1
  BY <1>1
<1>4. Len(s) + 1 \in 1..(Len(s) + 1) /\ \A i \in 1..Len(s) : i \in 1..(Len(s) + 1)
  BY <1>1
<1> QED
  BY <1>1, <1>2, <1>3, <1>4

LEMMA TailAt ==
    ASSUME NEW S, NEW s \in Seq(S), s # <<>>
    PROVE  /\ Tail(s) \in Seq(S) /\ Head(s) \in S /\ Head(s) = s[1] /\ 1 \in DOMAIN s
           /\ \A i \in DOMAIN Tail(s) :
                 i + 1 \in DOMAIN s /\ Tail(s)[i] = s[i + 1] /\ i \in Nat /\ i >= 1
           /\ \A i \in DOMAIN s :
                 i = 1 \/ (i - 1 \in DOMAIN Tail(s) /\ Tail(s)[i - 1] = s[i])
<1>1. /\ Tail(s) \in Seq(S) /\ Head(s) \in S /\ Len(Tail(s)) = Len(s) - 1
      /\ Len(s) \in Nat /\ Len(s) > 0 /\ DOMAIN s = 1..Len(s)
      /\ \A i \in 1..(Len(s) - 1) : Tail(s)[i] = s[i + 1]
      /\ Head(s) = s[1]
  OBVIOUS
<1>2. DOMAIN Tail(s) = 1..(Len(s) - 1)
  BY <1>1
<1>3. \A i \in 1..(Len(s) - 1) : i + 1 \in 1..Len(s) /\ i \in Nat /\ i >= 1
  BY <1>1
<1>4. ASSUME NEW i \in 1..Len(s), i # 1
      PROVE  i - 1 \in 1..(Len(s) - 1) /\ Tail(s)[i - 1] = s[i]
  <2>1. i - 1 \in 1..(Len(s) - 1) /\ (i - 1) + 1 = i
    BY <1>1, <1>4
  <2> QED
    BY <2>1, <1>1
<1> QED
  BY <1>1, <1>2, <1>3, <1>4

\* A segment behind all others may be appended.
LEMMA RowsAppend ==
    ASSUME NEW S, NEW s \in Seq(S), NEW seg \in S, Rows(s),
           seg.samples # <<>>, InOrder(seg.samples),
           \A i \in DOMAIN s : Before(s[i].samples, seg.samples)
    PROVE  Rows(Append(s, seg))
<1> DEFINE t == Append(s, seg)
<1>1. /\ \A i \in DOMAIN t : (i \in DOMAIN s /\ t[i] = s[i]) \/ (i = Len(s) + 1 /\ t[i] = seg)
      /\ DOMAIN s = 1..Len(s) /\ Len(s) \in Nat
  BY AppendAt
<1> HIDE DEF t
<1>2. ASSUME NEW i \in DOMAIN t PROVE t[i].samples # <<>> /\ InOrder(t[i].samples)
  BY <1>1 DEF Rows
<1>3. ASSUME NEW i \in DOMAIN t, NEW j \in DOMAIN t, i < j
      PROVE  Before(t[i].samples, t[j].samples)
  <2>1. i \in DOMAIN s /\ t[i] = s[i]
    <3>1. ~(i = Len(s) + 1)
      BY <1>1, <1>3
    <3> QED
      BY <3>1, <1>1
  <2> QED
    BY <2>1, <1>1, <1>3 DEF Rows
<1>4. Rows(t)
  BY <1>2, <1>3 DEF Rows
<1> QED
  BY <1>4 DEF t

LEMMA RowsTail ==
    ASSUME NEW S, NEW s \in Seq(S), s # <<>>, Rows(s)
    PROVE  /\ Rows(Tail(s)) /\ Head(s).samples # <<>> /\ InOrder(Head(s).samples)
           /\ \A i \in DOMAIN Tail(s) : Before(Head(s).samples, Tail(s)[i].samples)
<1> DEFINE t == Tail(s)
<1>1. /\ Head(s) = s[1] /\ 1 \in DOMAIN s
      /\ \A i \in DOMAIN t : i + 1 \in DOMAIN s /\ t[i] = s[i + 1] /\ i \in Nat /\ i >= 1
  BY TailAt
<1> HIDE DEF t
<1>2. ASSUME NEW i \in DOMAIN t PROVE t[i].samples # <<>> /\ InOrder(t[i].samples)
  BY <1>1 DEF Rows
<1>3. ASSUME NEW i \in DOMAIN t, NEW j \in DOMAIN t, i < j
      PROVE  Before(t[i].samples, t[j].samples)
  <2>1. i + 1 < j + 1
    BY <1>1, <1>3
  <2> QED
    BY <2>1, <1>1 DEF Rows
<1>4. ASSUME NEW i \in DOMAIN t PROVE Before(s[1].samples, t[i].samples)
  <2>1. 1 < i + 1
    BY <1>1
  <2> QED
    BY <2>1, <1>1 DEF Rows
<1>5. Rows(t)
  BY <1>2, <1>3 DEF Rows
<1>6. s[1].samples # <<>> /\ InOrder(s[1].samples)
  BY <1>1 DEF Rows
<1> QED
  BY <1>1, <1>4, <1>5, <1>6 DEF t

-----------------------------------------------------------------------------
(* Types *)

LEMMA Types ==
    ASSUME TypeOK
    PROVE  /\ length \in Nat /\ length >= 1 /\ length <= MaxFrames
           /\ captured \in Nat /\ captured <= length
           /\ seen \in Nat /\ seen <= captured
           /\ faults \in Nat /\ faults <= MaxFaults
           /\ vadTime \in Int /\ speechStart \in Int /\ silence \in Nat
           /\ inSpeech \in BOOLEAN
           /\ buffer \in Seq(Frame) /\ pending \in Seq(Segment) /\ sent \in Seq(Sent)
           /\ spoken \subseteq Frame
           /\ captured <= MaxFrames
<1> USE Constants DEF TypeOK
<1>1. length \in Nat /\ length >= 1 /\ length <= MaxFrames
  OBVIOUS
<1>2. captured \in Nat /\ captured <= length
  BY <1>1
<1>3. seen \in Nat /\ seen <= captured
  BY <1>2
<1>4. faults \in Nat /\ faults <= MaxFaults
  OBVIOUS
<1>5. vadTime \in Int /\ speechStart \in Int /\ silence \in Nat
  BY DEF Time
<1>6. captured <= MaxFrames
  BY <1>1, <1>2
<1>7. spoken \subseteq Frame
  OBVIOUS
<1> QED
  BY <1>1, <1>2, <1>3, <1>4, <1>5, <1>6, <1>7

LEMMA SegmentFields ==
    /\ \A seg \in Segment :
          /\ seg.start \in Time /\ seg.samples \in Seq(Frame) /\ seg.preRoll \in Seq(Frame)
          /\ seg.start \in Int
    /\ \A seg \in Sent :
          /\ seg.start \in Time /\ seg.samples \in Seq(Frame) /\ seg.audio \in Seq(Frame)
          /\ seg.start \in Int
BY Constants DEF Segment, Sent, Time

LEMMA RingFacts ==
    ASSUME TypeOK
    PROVE  FirstStored \in 0..captured /\ (captured <= Ring => FirstStored = 0)
           /\ (captured >= Ring => FirstStored = captured - Ring)
BY Types, Constants DEF FirstStored, Clip

LEMMA GetRangeType ==
    ASSUME TypeOK, NEW a \in Int, NEW b \in Int
    PROVE  GetRange(a, b) \in Seq(Frame)
<1>1. /\ FirstStored \in Int /\ captured \in Int /\ FirstStored <= captured
      /\ FirstStored >= 0 /\ captured <= MaxFrames
  BY RingFacts, Types
<1>2. Clip(a, FirstStored, captured) \in FirstStored..captured
  BY <1>1, ClipFacts
<1>3. Clip(b, FirstStored, captured) \in FirstStored..captured
  BY <1>1, ClipFacts
<1>4. Clip(a, FirstStored, captured) \in 0..MaxFrames
      /\ Clip(b, FirstStored, captured) \in 0..MaxFrames
  BY <1>1, <1>2, <1>3, Constants
<1> QED
  BY <1>4, SpanType DEF GetRange


\* A segment that is handed on, and one that waits.
LEMMA OnSpeechFacts ==
    ASSUME TypeOK, NEW start \in Time, NEW samples \in Seq(Frame),
           OnSpeechSegment(start, samples)
    PROVE  \/ /\ mode = "file" /\ pending' = pending
              /\ \E seg \in Sent :
                    /\ sent' = Append(sent, seg)
                    /\ seg.start = start /\ seg.samples = samples
                    /\ seg.audio = FileAudio(start, samples)
           \/ /\ mode # "file" /\ sent' = sent
              /\ \E seg \in Segment :
                    /\ pending' = Append(pending, seg)
                    /\ seg.start = start /\ seg.samples = samples
                    /\ seg.preRoll = GetRange(PaddedStart(start), start)
<1> USE Constants
<1>1. start \in Int /\ PaddedStart(start) \in Int /\ PaddedEnd(start, samples) \in Int
  BY DEF Time, PaddedStart, PaddedEnd
<1>2. GetRange(PaddedStart(start), start) \in Seq(Frame)
  BY <1>1, GetRangeType
<1>3. FileAudio(start, samples) \in Seq(Frame)
  <2>1. 0 \in Int /\ length \in Int /\ 0 <= length /\ length <= MaxFrames
    BY Types
  <2>2. Clip(PaddedStart(start), 0, length) \in 0..length
    BY <1>1, <2>1, ClipFacts
  <2>3. Clip(PaddedEnd(start, samples), 0, length) \in 0..length
    BY <1>1, <2>1, ClipFacts
  <2>4. /\ Clip(PaddedStart(start), 0, length) \in 0..MaxFrames
        /\ Clip(PaddedEnd(start, samples), 0, length) \in 0..MaxFrames
    BY <2>1, <2>2, <2>3
  <2>5. Span(Clip(PaddedStart(start), 0, length), Clip(PaddedEnd(start, samples), 0, length))
          \in Seq(Frame)
    BY <2>4, SpanType
  <2> QED
    BY <2>5 DEF FileAudio
<1>4. CASE mode = "file"
  <2> DEFINE seg == [start |-> start, samples |-> samples,
                     audio |-> FileAudio(start, samples)]
  <2>1. seg \in Sent
    BY <1>3 DEF Sent
  <2>2. sent' = Append(sent, seg) /\ pending' = pending
    BY <1>4 DEF OnSpeechSegment, Hand
  <2> QED
    BY <1>4, <2>1, <2>2
<1>5. CASE mode # "file"
  <2> DEFINE seg == [start |-> start, samples |-> samples,
                     preRoll |-> GetRange(PaddedStart(start), start)]
  <2>1. seg \in Segment
    BY <1>2 DEF Segment
  <2>2. pending' = Append(pending, seg) /\ sent' = sent
    BY <1>5 DEF OnSpeechSegment
  <2> QED
    BY <1>5, <2>1, <2>2
<1> QED
  BY <1>4, <1>5

LEMMA SendFacts ==
    ASSUME TypeOK, SendFront
    PROVE  /\ pending # <<>> /\ pending' = Tail(pending) /\ Head(pending) \in Segment
           /\ \E seg \in Sent :
                 /\ sent' = Append(sent, seg)
                 /\ seg.start = Head(pending).start /\ seg.samples = Head(pending).samples
                 /\ seg.audio = Audio(Head(pending))
<1> USE Constants
<1> DEFINE front == Head(pending)
           seg == [start |-> front.start, samples |-> front.samples, audio |-> Audio(front)]
<1>1. pending # <<>> /\ pending' = Tail(pending) /\ sent' = Append(sent, seg)
  BY DEF SendFront, Hand
<1>2. front \in Segment
  BY <1>1, Types, TailAt
<1>3. /\ front.start \in Time /\ front.start \in Int
      /\ front.samples \in Seq(Frame) /\ front.preRoll \in Seq(Frame)
  BY <1>2, SegmentFields
<1>4. front.start + Len(front.samples) \in Int
      /\ PaddedEnd(front.start, front.samples) \in Int
  BY <1>3 DEF PaddedEnd
<1>5. GetRange(front.start + Len(front.samples), PaddedEnd(front.start, front.samples))
        \in Seq(Frame)
  BY <1>4, GetRangeType
<1>6. Audio(front) \in Seq(Frame)
  BY <1>3, <1>5, ConcatProperties DEF Audio
<1>7. seg \in Sent
  BY <1>3, <1>6 DEF Sent
<1> QED
  BY <1>1, <1>2, <1>7

LEMMA OnSpeechType ==
    ASSUME TypeOK, NEW start \in Time, NEW samples \in Seq(Frame),
           DetectSegment(start, samples)
    PROVE  pending' \in Seq(Segment) /\ sent' \in Seq(Sent)
<1>1. CASE samples = <<>>
  BY <1>1, Types DEF DetectSegment, NoSegment
<1>2. CASE samples # <<>>
  <2>1. OnSpeechSegment(start, samples)
    BY <1>2 DEF DetectSegment
  <2>2. CASE \E seg \in Sent : pending' = pending /\ sent' = Append(sent, seg)
    BY <2>2, Types
  <2>3. CASE \E seg \in Segment : sent' = sent /\ pending' = Append(pending, seg)
    BY <2>3, Types
  <2> QED
    BY <2>1, <2>2, <2>3, OnSpeechFacts
<1> QED
  BY <1>1, <1>2

\* The detector's clocks after it took a frame.
LEMMA ClockStep ==
    ASSUME TypeOK, ClockInv, TakeFrame, AdvanceTime, faults' = faults
    PROVE  /\ seen' = seen + 1 /\ seen' \in Nat /\ seen' <= captured /\ seen \in Frame
           /\ captured' = captured /\ length' = length /\ mode' = mode
           /\ vadTime' \in Int /\ vadTime' \in Time /\ vadTime' - 1 \in Time
           /\ vadTime' - (seen' - faults') \in (-MaxDrift)..MaxDrift
<1> USE Constants, Types
<1>1. /\ seen' = seen + 1 /\ captured' = captured /\ length' = length /\ mode' = mode
      /\ seen < captured
  BY DEF TakeFrame, input
<1>2. seen' \in Nat /\ seen' <= captured /\ seen \in Frame
  BY <1>1
<1>3. vadTime' \in Int /\ vadTime' - (seen' - faults) \in (-MaxDrift)..MaxDrift
  BY DEF AdvanceTime
<1>4. seen' - faults >= 1 /\ seen' - faults <= MaxFrames /\ seen' - faults \in Int
  BY <1>1, <1>2 DEF ClockInv
<1>5. vadTime' \in Time /\ vadTime' - 1 \in Time
  <2>1. vadTime' >= 1 - MaxDrift /\ vadTime' <= MaxFrames + MaxDrift
    BY <1>3, <1>4
  <2>2. ASSUME NEW t \in Int, NEW d \in Nat, NEW n \in Nat, t >= 1 - d, t <= n + d
        PROVE  t \in (-d)..(n + d) /\ t - 1 \in (-d)..(n + d)
    BY <2>2
  <2>3. vadTime' \in Int /\ MaxDrift \in Nat /\ MaxFrames \in Nat
    BY <1>3
  <2> QED
    BY <2>1, <2>2, <2>3 DEF Time
<1> QED
  BY <1>1, <1>2, <1>3, <1>5

LEMMA BufferType ==
    ASSUME TypeOK, seen \in Frame, speechStart' \in Time, BufferFrame
    PROVE  buffer' \in Seq(Frame) /\ pending' \in Seq(Segment) /\ sent' \in Seq(Sent)
<1> DEFINE full == Append(buffer, seen)
<1>1. full \in Seq(Frame) /\ <<>> \in Seq(Frame)
  BY Types
<1>2. CASE Len(full) > MaxSpeech
  <2>1. buffer' = <<>> /\ DetectSegment(speechStart', full)
    BY <1>2 DEF BufferFrame
  <2> QED
    BY <1>1, <2>1, OnSpeechType
<1>3. CASE ~(Len(full) > MaxSpeech)
  BY <1>1, <1>3, Types DEF BufferFrame, NoSegment
<1> QED
  BY <1>2, <1>3


LEMMA InitType == Init => TypeOK /\ ClockInv
<1> SUFFICES ASSUME Init PROVE TypeOK /\ ClockInv
  OBVIOUS
<1> USE Constants DEF Init
<1>1. /\ mode \in Modes /\ length \in 1..MaxFrames /\ captured = 0 /\ seen = 0
      /\ faults = 0 /\ vadTime = 0 /\ inSpeech = FALSE /\ speechStart = 0 /\ silence = 0
      /\ buffer = <<>> /\ pending = <<>> /\ sent = <<>> /\ spoken = {} /\ pc = "append"
  OBVIOUS
<1>2. 0 \in Time
  BY DEF Time
<1>3. <<>> \in Seq(Frame) /\ <<>> \in Seq(Segment) /\ <<>> \in Seq(Sent)
  OBVIOUS
<1>4. /\ captured \in 0..length /\ seen \in 0..captured /\ faults \in 0..MaxFaults
      /\ silence \in 0..MaxFrames
  BY <1>1
<1>5. TypeOK
  BY <1>1, <1>2, <1>3, <1>4 DEF TypeOK
<1>6. ClockInv
  BY <1>1 DEF ClockInv
<1> QED
  BY <1>5, <1>6

LEMMA NextType == TypeOK /\ ClockInv /\ [Next]_vars => TypeOK' /\ ClockInv'
<1> SUFFICES ASSUME TypeOK, ClockInv, [Next]_vars PROVE TypeOK' /\ ClockInv'
  OBVIOUS
<1> USE Constants
<1>0. /\ seen \in Nat /\ faults \in Nat /\ silence \in Nat /\ captured \in Nat
      /\ silence <= seen /\ faults <= seen /\ captured <= MaxFrames /\ seen <= captured
      /\ faults <= MaxFaults
  BY Types DEF ClockInv
<1>1. CASE UNCHANGED vars
  BY <1>1 DEF vars, input, clocks, detector, TypeOK, ClockInv
<1>2. CASE Capture
  <2>1. PICK n \in 1..Clip(length - captured, 1, MaxChunk) : captured' = captured + n
    BY <1>2 DEF Capture
  <2>2. captured < length
    BY <1>2 DEF Capture
  <2>3. captured + n \in 0..length /\ captured <= captured + n
    <3>1. length - captured \in Int /\ 1 <= length - captured
      BY <2>2, Types
    <3>2. Clip(length - captured, 1, MaxChunk) <= length - captured
      BY <3>1 DEF Clip
    <3>3. n \in Nat /\ n <= length - captured
      BY <3>1, <3>2 DEF Clip
    <3> QED
      BY <3>3, Types
  <2>4. seen \in 0..captured'
    BY <2>1, <2>3, Types
  <2> QED
    BY <1>2, <2>1, <2>3, <2>4 DEF Capture, input, detector, TypeOK, ClockInv
<1>3. CASE \E isSpeech \in BOOLEAN : SpeechFrame(isSpeech)
  <2>1. PICK isSpeech \in BOOLEAN : SpeechFrame(isSpeech)
    BY <1>3
  <2>2. /\ TakeFrame /\ AdvanceTime /\ Continue /\ BufferFrame /\ faults' = faults
        /\ (isSpeech /\ Starts) \/ Goes(isSpeech)
        /\ spoken' = IF isSpeech THEN spoken \cup {seen} ELSE spoken
    BY <2>1 DEF SpeechFrame
  <2>3. /\ seen' = seen + 1 /\ seen' \in Nat /\ seen' <= captured /\ seen \in Frame
        /\ captured' = captured /\ length' = length /\ mode' = mode
        /\ vadTime' \in Time /\ vadTime' - 1 \in Time
        /\ vadTime' - (seen' - faults') \in (-MaxDrift)..MaxDrift
    BY <2>2, ClockStep
  <2>4. inSpeech' \in BOOLEAN /\ speechStart' \in Time
    BY <2>2, <2>3 DEF Starts, Goes, TypeOK
  <2>5. silence' \in Nat /\ silence' <= seen'
    <3>1. silence' \in {0, silence, silence + 1}
      BY <2>2 DEF Starts, Goes
    <3> QED
      BY <3>1, <2>3, <1>0
  <2>6. silence' \in 0..MaxFrames
    BY <2>3, <2>5, Types
  <2>7. buffer' \in Seq(Frame) /\ pending' \in Seq(Segment) /\ sent' \in Seq(Sent)
    BY <2>2, <2>3, <2>4, BufferType
  <2>8. spoken' \in SUBSET Frame
    BY <2>2, <2>3, Types
  <2>9. pc' \in {"append", "vad", "flush", "drain", "ended"}
    BY <2>2 DEF Continue
  <2>10. seen' \in 0..captured' /\ faults' \in 0..MaxFaults /\ faults' <= seen'
    BY <2>2, <2>3, Types DEF ClockInv
  <2> QED
    BY <2>3, <2>4, <2>5, <2>6, <2>7, <2>8, <2>9, <2>10 DEF TypeOK, ClockInv
<1>4. CASE EndUtterance
  <2>1. /\ TakeFrame /\ AdvanceTime /\ Continue /\ faults' = faults
        /\ silence' = silence + 1 /\ DetectSegment(speechStart, buffer)
        /\ buffer' = <<>> /\ inSpeech' = FALSE /\ speechStart' = speechStart
        /\ spoken' = spoken
    BY <1>4 DEF EndUtterance
  <2>2. /\ seen' = seen + 1 /\ seen' \in Nat /\ seen' <= captured /\ seen \in Frame
        /\ captured' = captured /\ length' = length /\ mode' = mode
        /\ vadTime' \in Time
        /\ vadTime' - (seen' - faults') \in (-MaxDrift)..MaxDrift
    BY <2>1, ClockStep
  <2>3. silence' \in 0..MaxFrames /\ silence' <= seen'
    BY <2>1, <2>2, <1>0
  <2>4. pending' \in Seq(Segment) /\ sent' \in Seq(Sent)
    BY <2>1, OnSpeechType, Types DEF TypeOK
  <2>5. pc' \in {"append", "vad", "flush", "drain", "ended"}
    BY <2>1 DEF Continue
  <2>6. seen' \in 0..captured' /\ faults' \in 0..MaxFaults /\ faults' <= seen'
    BY <2>1, <2>2, Types DEF ClockInv
  <2>7. buffer' \in Seq(Frame)
    BY <2>1
  <2> QED
    BY <2>1, <2>2, <2>3, <2>4, <2>5, <2>6, <2>7 DEF TypeOK, ClockInv
<1>5. CASE IdleFrame
  <2>1. /\ TakeFrame /\ AdvanceTime /\ Continue /\ faults' = faults
        /\ inSpeech' = inSpeech /\ speechStart' = speechStart /\ silence' = silence
        /\ buffer' = buffer /\ pending' = pending /\ sent' = sent /\ spoken' = spoken
    BY <1>5 DEF IdleFrame, detector
  <2>2. /\ seen' = seen + 1 /\ seen' \in Nat /\ seen' <= captured /\ seen \in Frame
        /\ captured' = captured /\ length' = length /\ mode' = mode
        /\ vadTime' \in Time
        /\ vadTime' - (seen' - faults') \in (-MaxDrift)..MaxDrift
    BY <2>1, ClockStep
  <2>3. silence <= seen'
    BY <2>2, Types DEF ClockInv
  <2>4. pc' \in {"append", "vad", "flush", "drain", "ended"}
    BY <2>1 DEF Continue
  <2>5. seen' \in 0..captured' /\ faults' \in 0..MaxFaults /\ faults' <= seen'
    BY <2>1, <2>2, Types DEF ClockInv
  <2> QED
    BY <2>1, <2>2, <2>3, <2>4, <2>5 DEF TypeOK, ClockInv
<1>6. CASE Fault
  <2>1. /\ seen < captured /\ seen' = seen + 1 /\ captured' = captured /\ mode' = mode
        /\ length' = length /\ faults < MaxFaults /\ faults' = faults + 1
        /\ vadTime' = vadTime /\ pc' = "flush"
        /\ inSpeech' = inSpeech /\ speechStart' = speechStart /\ silence' = silence
        /\ buffer' = buffer /\ pending' = pending /\ sent' = sent /\ spoken' = spoken
    BY <1>6 DEF Fault, TakeFrame, detector, input
  <2>2. /\ seen' \in 0..captured' /\ faults' \in 0..MaxFaults /\ faults' <= seen'
        /\ silence' <= seen' /\ seen' - faults' = seen - faults
    BY <2>1, <1>0
  <2> QED
    BY <2>1, <2>2 DEF TypeOK, ClockInv
<1>7. CASE FlushReady \/ Drain
  <2>1. SendFront /\ pc' \in {pc}
    BY <1>7 DEF FlushReady, Drain, SendFront
  <2>2. pending' = Tail(pending) /\ \E seg \in Sent : sent' = Append(sent, seg)
    BY <2>1, SendFacts
  <2>3. pending' \in Seq(Segment)
    BY <2>1, <2>2, SendFacts, Types
  <2>4. sent' \in Seq(Sent)
    BY <2>2, Types
  <2> QED
    BY <2>1, <2>3, <2>4 DEF SendFront, input, clocks, detector, TypeOK, ClockInv
<1>8. CASE FlushDone
  BY <1>8 DEF FlushDone, input, clocks, detector, TypeOK, ClockInv
<1>9. CASE FlushVad
  <2>1. /\ pc' \in {"ended", "drain"} /\ UNCHANGED <<input, clocks, speechStart, silence, spoken>>
    BY <1>9 DEF FlushVad, AfterInput
  <2>2. /\ buffer' \in Seq(Frame) /\ inSpeech' \in BOOLEAN
        /\ pending' \in Seq(Segment) /\ sent' \in Seq(Sent)
    <3>1. CASE inSpeech /\ buffer # <<>>
      <4>1. DetectSegment(speechStart, buffer) /\ buffer' = <<>> /\ inSpeech' = FALSE
        BY <1>9, <3>1 DEF FlushVad
      <4>2. speechStart \in Time /\ buffer \in Seq(Frame)
        BY DEF TypeOK
      <4>3. pending' \in Seq(Segment) /\ sent' \in Seq(Sent)
        BY <4>1, <4>2, OnSpeechType
      <4>4. <<>> \in Seq(Frame)
        OBVIOUS
      <4> QED
        BY <4>1, <4>3, <4>4
    <3>2. CASE ~(inSpeech /\ buffer # <<>>)
      <4>1. UNCHANGED <<pending, sent, buffer, inSpeech>>
        BY <1>9, <3>2 DEF FlushVad, NoSegment
      <4> QED
        BY <4>1, Types
    <3> QED
      BY <3>1, <3>2
  <2> QED
    BY <2>1, <2>2 DEF input, clocks, TypeOK, ClockInv
<1>10. CASE DrainDone
  BY <1>10 DEF DrainDone, input, clocks, detector, TypeOK, ClockInv
<1> QED
  BY <1>1, <1>2, <1>3, <1>4, <1>5, <1>6, <1>7, <1>8, <1>9, <1>10 DEF Next


-----------------------------------------------------------------------------
(* What a step does to the segments: nothing, a frame more in the buffer, a *)
(* segment made of the buffer, or a segment sent.                           *)

Same ==
    /\ UNCHANGED <<buffer, pending, sent, spoken, speechStart>>
    /\ (inSpeech' => inSpeech) /\ seen <= seen' /\ faults <= faults'

\* An utterance goes on or begins with the frame that is taken.
Begun ==
    /\ inSpeech'
    /\ \/ inSpeech /\ speechStart' = speechStart
       \/ buffer = <<>> /\ speechStart' = vadTime' - 1

Grow ==
    /\ buffer' = Append(buffer, seen) /\ UNCHANGED <<pending, sent>>
    /\ seen' = seen + 1 /\ seen \in Frame /\ spoken' \subseteq spoken \cup {seen}
    /\ faults' = faults /\ captured' = captured /\ Begun

\* samples is the buffer, with the frame that was taken or without.
CutOff(start, samples) ==
    /\ samples # <<>> /\ OnSpeechSegment(start, samples) /\ buffer' = <<>>
    /\ faults' = faults /\ captured' = captured /\ seen <= seen'
    /\ \/ /\ samples = buffer /\ start = speechStart /\ spoken' = spoken /\ ~inSpeech'
       \/ /\ samples = Append(buffer, seen) /\ start = speechStart'
          /\ seen' = seen + 1 /\ seen \in Frame /\ spoken' \subseteq spoken \cup {seen}
          /\ Begun

Cut == \E start \in Time, samples \in Seq(Frame) : CutOff(start, samples)

LEMMA Shapes ==
    ASSUME TypeOK, TypeOK', ClockInv, ClockInv', ControlInv, [Next]_vars
    PROVE  /\ Same \/ Grow \/ Cut \/ SendFront
           /\ Same \/ Grow \/ Cut \/ Ready(Head(pending)) \/ captured = length
           /\ mode' = mode /\ length' = length /\ seen \in Nat /\ seen' \in Nat
           /\ faults' \in Nat /\ (faults' = 0 => faults = 0)
<1> USE Constants
<1>0. /\ seen \in Nat /\ seen' \in Nat /\ faults \in Nat /\ faults' \in Nat
      /\ buffer \in Seq(Frame) /\ speechStart \in Time /\ speechStart' \in Time
  <2>1. seen' \in Nat /\ faults' \in Nat
    BY DEF TypeOK
  <2> QED
    BY <2>1, Types DEF TypeOK
<1>1. CASE UNCHANGED vars
  BY <1>1, <1>0 DEF vars, input, clocks, detector, Same
<1>2. CASE Capture
  BY <1>2, <1>0 DEF Capture, input, detector, Same
<1>3. CASE \E isSpeech \in BOOLEAN : SpeechFrame(isSpeech)
  <2>1. PICK isSpeech \in BOOLEAN : SpeechFrame(isSpeech)
    BY <1>3
  <2>2. /\ TakeFrame /\ BufferFrame /\ faults' = faults /\ AdvanceTime
        /\ spoken' = IF isSpeech THEN spoken \cup {seen} ELSE spoken
    BY <2>1 DEF SpeechFrame
  <2>3. /\ seen' = seen + 1 /\ seen \in Frame /\ captured' = captured
        /\ length' = length /\ mode' = mode
    BY <2>2, ClockStep
  <2>4. spoken' \subseteq spoken \cup {seen}
    BY <2>2
  <2>0. Begun
    BY <2>1 DEF SpeechFrame, Starts, Goes, Begun, ControlInv
  <2> DEFINE full == Append(buffer, seen)
  <2>5. full \in Seq(Frame) /\ full # <<>>
    BY <1>0, <2>3
  <2>6. CASE Len(full) > MaxSpeech
    <3>1. buffer' = <<>> /\ DetectSegment(speechStart', full)
      BY <2>2, <2>6 DEF BufferFrame
    <3>2. OnSpeechSegment(speechStart', full)
      BY <3>1, <2>5 DEF DetectSegment
    <3>3. seen <= seen'
      BY <2>3, <1>0
    <3>4. CutOff(speechStart', full)
      BY <2>0, <2>2, <2>3, <2>4, <2>5, <3>1, <3>2, <3>3 DEF CutOff
    <3>5. Cut
      BY <1>0, <2>5, <3>4 DEF Cut
    <3> QED
      BY <3>5, <2>2, <2>3, <1>0
  <2>7. CASE ~(Len(full) > MaxSpeech)
    <3>1. buffer' = full /\ UNCHANGED <<pending, sent>>
      BY <2>2, <2>7 DEF BufferFrame, NoSegment
    <3> QED
      BY <3>1, <2>0, <2>2, <2>3, <2>4, <1>0 DEF Grow
  <2> QED
    BY <2>6, <2>7
<1>4. CASE EndUtterance
  <2>1. /\ TakeFrame /\ faults' = faults /\ AdvanceTime
        /\ DetectSegment(speechStart, buffer) /\ buffer' = <<>> /\ spoken' = spoken
        /\ inSpeech' = FALSE /\ speechStart' = speechStart
    BY <1>4 DEF EndUtterance
  <2>2. /\ seen' = seen + 1 /\ captured' = captured /\ length' = length /\ mode' = mode
    BY <2>1, ClockStep
  <2>3. seen <= seen' /\ faults <= faults'
    BY <2>1, <2>2, <1>0
  <2>4. CASE buffer = <<>>
    <3>1. UNCHANGED <<buffer, pending, sent, spoken>>
      BY <2>1, <2>4 DEF DetectSegment, NoSegment
    <3> QED
      BY <3>1, <2>1, <2>2, <2>3, <1>0 DEF Same
  <2>5. CASE buffer # <<>>
    <3>1. OnSpeechSegment(speechStart, buffer)
      BY <2>1, <2>5 DEF DetectSegment
    <3>2. CutOff(speechStart, buffer)
      BY <3>1, <2>1, <2>2, <2>3, <2>5 DEF CutOff
    <3>3. Cut
      BY <3>2, <1>0 DEF Cut
    <3> QED
      BY <3>3, <2>1, <2>2, <1>0
  <2> QED
    BY <2>4, <2>5
<1>5. CASE IdleFrame
  BY <1>5, <1>0 DEF IdleFrame, TakeFrame, input, detector, Same
<1>6. CASE Fault
  BY <1>6, <1>0 DEF Fault, TakeFrame, input, detector, Same
<1>7. CASE FlushReady \/ Drain
  BY <1>7, <1>0 DEF FlushReady, FrontReady, Drain, SendFront, input, clocks, ControlInv
<1>8. CASE FlushDone
  BY <1>8, <1>0 DEF FlushDone, input, clocks, detector, Same
<1>9. CASE FlushVad
  <2>1. UNCHANGED <<input, clocks, speechStart, silence, spoken>>
    BY <1>9 DEF FlushVad
  <2>2. CASE inSpeech /\ buffer # <<>>
    <3>1. DetectSegment(speechStart, buffer) /\ buffer' = <<>> /\ inSpeech' = FALSE
      BY <1>9, <2>2 DEF FlushVad
    <3>2. OnSpeechSegment(speechStart, buffer)
      BY <3>1, <2>2 DEF DetectSegment
    <3>3. CutOff(speechStart, buffer)
      BY <3>1, <3>2, <2>1, <2>2, <1>0 DEF CutOff, clocks
    <3>4. Cut
      BY <3>3, <1>0 DEF Cut
    <3> QED
      BY <3>4, <2>1, <1>0 DEF input, clocks
  <2>3. CASE ~(inSpeech /\ buffer # <<>>)
    <3>1. UNCHANGED <<pending, sent, buffer, inSpeech>>
      BY <1>9, <2>3 DEF FlushVad, NoSegment
    <3> QED
      BY <3>1, <2>1, <1>0 DEF Same, input, clocks
  <2> QED
    BY <2>2, <2>3
<1>10. CASE DrainDone
  BY <1>10, <1>0 DEF DrainDone, input, clocks, detector, Same
<1> QED
  BY <1>1, <1>2, <1>3, <1>4, <1>5, <1>6, <1>7, <1>8, <1>9, <1>10 DEF Next


-----------------------------------------------------------------------------
(* Order *)

\* The buffer with the frame that was taken goes up, behind all segments.
LEMMA GrownBuffer ==
    ASSUME TypeOK, OrderInv, seen \in Frame
    PROVE  LET full == Append(buffer, seen)
           IN  /\ full \in Seq(Frame) /\ InOrder(full) /\ End(full) = seen + 1
               /\ \A k \in 1..Len(full) : full[k] < seen + 1
               /\ \A i \in DOMAIN sent : Before(sent[i].samples, full)
               /\ \A j \in DOMAIN pending : Before(pending[j].samples, full)
               /\ Len(full) = Len(buffer) + 1 /\ full # <<>>
               /\ ToSet(full) = ToSet(buffer) \cup {seen}
<1> USE Constants
<1> DEFINE full == Append(buffer, seen)
<1>1. /\ full \in Seq(Frame) /\ Len(full) = Len(buffer) + 1 /\ Len(buffer) \in Nat
      /\ full[Len(buffer) + 1] = seen /\ full # <<>>
      /\ \A k \in 1..Len(buffer) : full[k] = buffer[k] /\ buffer[k] \in Frame
      /\ DOMAIN full = 1..(Len(buffer) + 1) /\ DOMAIN buffer = 1..Len(buffer)
  <2> HIDE Constants
  <2>1. buffer \in Seq(Frame)
    BY Types
  <2>2. full \in Seq(Frame) /\ Len(full) = Len(buffer) + 1 /\ Len(buffer) \in Nat
    BY <2>1
  <2>3. full[Len(buffer) + 1] = seen /\ \A k \in 1..Len(buffer) : full[k] = buffer[k]
    BY <2>1
  <2>4. DOMAIN full = 1..(Len(buffer) + 1) /\ DOMAIN buffer = 1..Len(buffer) /\ full # <<>>
    BY <2>1, <2>2
  <2>5. \A k \in 1..Len(buffer) : buffer[k] \in Frame
    BY <2>1
  <2> QED
    BY <2>2, <2>3, <2>4, <2>5
<1> HIDE DEF full
<1>2. \A k \in 1..Len(full) :
         \/ k \in 1..Len(buffer) /\ full[k] = buffer[k]
         \/ k = Len(buffer) + 1 /\ full[k] = seen
  BY <1>1
<1>3. \A k \in 1..Len(buffer) : buffer[k] < seen
  BY DEF OrderInv, Below
<1>4. \A k \in 1..Len(full) : full[k] < seen + 1
  <2> SUFFICES ASSUME NEW k \in 1..Len(full) PROVE full[k] < seen + 1
    OBVIOUS
  <2>1. CASE k \in 1..Len(buffer) /\ full[k] = buffer[k]
    <3>1. buffer[k] \in Nat /\ seen \in Nat /\ buffer[k] < seen
      BY <2>1, <1>1, <1>3
    <3> QED
      BY <2>1, <3>1
  <2>2. CASE full[k] = seen
    BY <2>2
  <2> QED
    BY <2>1, <2>2, <1>2
<1>5. InOrder(full)
  <2> SUFFICES ASSUME NEW k \in 1..Len(full), NEW l \in 1..Len(full), k < l
               PROVE  full[k] < full[l]
    BY DEF InOrder
  <2>1. k \in 1..Len(buffer) /\ full[k] = buffer[k]
    <3>1. k # Len(buffer) + 1
      BY <1>1
    <3> QED
      BY <3>1, <1>2
  <2>2. InOrder(buffer)
    BY DEF OrderInv
  <2> QED
    BY <2>1, <2>2, <1>2, <1>3 DEF InOrder
<1>6. ASSUME NEW s, Before(s, buffer), \A k \in 1..Len(s) : s[k] < seen
      PROVE  Before(s, full)
  BY <1>2, <1>6 DEF Before
<1>7. \A i \in DOMAIN sent : Before(sent[i].samples, full)
  BY <1>6 DEF OrderInv, Below
<1>8. \A j \in DOMAIN pending : Before(pending[j].samples, full)
  BY <1>6 DEF OrderInv, Below
<1>9. End(full) = seen + 1
  BY <1>1 DEF End
<1>10. ToSet(full) = ToSet(buffer) \cup {seen}
  <2>1. Len(buffer) + 1 \in DOMAIN full /\ \A k \in DOMAIN buffer : k \in DOMAIN full
    BY <1>1
  <2> QED
    BY <1>1, <1>2, <2>1 DEF ToSet
<1> QED
  BY <1>1, <1>4, <1>5, <1>7, <1>8, <1>9, <1>10 DEF full

\* Frames that were taken stay taken.
LEMMA BelowStep ==
    ASSUME NEW s \in Seq(Frame), NEW m \in Nat, NEW n \in Nat, m <= n, Below(s, m)
    PROVE  Below(s, n)
<1>1. \A k \in 1..Len(s) : s[k] \in Nat
  BY Constants
<1> QED
  BY <1>1 DEF Below

LEMMA Rowed ==
    ASSUME TypeOK
    PROVE  /\ \A i \in DOMAIN sent : sent[i] \in Sent /\ sent[i].samples \in Seq(Frame)
           /\ \A j \in DOMAIN pending : pending[j] \in Segment /\ pending[j].samples \in Seq(Frame)
BY Types, SegmentFields

\* What is cut off: frames in order, behind all segments, and taken.
LEMMA CutFacts ==
    ASSUME TypeOK, TypeOK', OrderInv, NEW start \in Time, NEW samples \in Seq(Frame),
           CutOff(start, samples)
    PROVE  /\ InOrder(samples) /\ samples # <<>> /\ Below(samples, seen')
           /\ \A i \in DOMAIN sent : Before(sent[i].samples, samples)
           /\ \A j \in DOMAIN pending : Before(pending[j].samples, samples)
           /\ ToSet(buffer) \subseteq ToSet(samples) /\ spoken' \subseteq spoken \cup ToSet(samples)
<1>0. seen \in Nat /\ seen' \in Nat /\ seen <= seen'
  BY Types, Constants DEF CutOff, TypeOK
<1>1. CASE samples = buffer /\ spoken' = spoken
  BY <1>0, <1>1, BelowStep DEF OrderInv, CutOff
<1>2. CASE samples = Append(buffer, seen) /\ seen' = seen + 1 /\ seen \in Frame
           /\ spoken' \subseteq spoken \cup {seen}
  BY <1>2, GrownBuffer DEF CutOff, Below
<1> QED
  BY <1>1, <1>2 DEF CutOff


\* Wherever a segment is added, it is behind those that are there.
LEMMA NextOrder ==
    ASSUME TypeOK, TypeOK', ClockInv, ClockInv', ControlInv, OrderInv, [Next]_vars
    PROVE  OrderInv'
<1>0. /\ sent \in Seq(Sent) /\ pending \in Seq(Segment) /\ buffer \in Seq(Frame)
      /\ seen \in Nat /\ seen' \in Nat
  BY Types, Shapes
<1>1. /\ Rows(sent) /\ Rows(pending) /\ InOrder(buffer) /\ Below(buffer, seen)
      /\ \A i \in DOMAIN sent, j \in DOMAIN pending :
            Before(sent[i].samples, pending[j].samples)
      /\ \A i \in DOMAIN sent : Before(sent[i].samples, buffer) /\ Below(sent[i].samples, seen)
      /\ \A j \in DOMAIN pending :
            Before(pending[j].samples, buffer) /\ Below(pending[j].samples, seen)
  BY DEF OrderInv
<1>2. ASSUME seen <= seen'
      PROVE  /\ \A i \in DOMAIN sent : Below(sent[i].samples, seen')
             /\ \A j \in DOMAIN pending : Below(pending[j].samples, seen')
             /\ Below(buffer, seen')
  BY <1>0, <1>1, <1>2, Rowed, BelowStep
<1>3. CASE Same
  <2>1. /\ buffer' = buffer /\ pending' = pending /\ sent' = sent /\ seen <= seen'
    BY <1>3 DEF Same
  <2> QED
    BY <2>1, <1>1, <1>2 DEF OrderInv
<1>4. CASE Grow
  <2>1. /\ buffer' = Append(buffer, seen) /\ pending' = pending /\ sent' = sent
        /\ seen \in Frame /\ seen' = seen + 1 /\ seen <= seen'
    BY <1>4, <1>0 DEF Grow
  <2>2. /\ InOrder(buffer') /\ Below(buffer', seen')
        /\ \A i \in DOMAIN sent : Before(sent[i].samples, buffer')
        /\ \A j \in DOMAIN pending : Before(pending[j].samples, buffer')
    BY <2>1, GrownBuffer DEF Below
  <2> QED
    BY <2>1, <2>2, <1>1, <1>2 DEF OrderInv
<1>5. CASE Cut
  <2>1. PICK start \in Time, samples \in Seq(Frame) : CutOff(start, samples)
    BY <1>5 DEF Cut
  <2>2. /\ InOrder(samples) /\ samples # <<>> /\ Below(samples, seen')
        /\ \A i \in DOMAIN sent : Before(sent[i].samples, samples)
        /\ \A j \in DOMAIN pending : Before(pending[j].samples, samples)
    BY <2>1, CutFacts
  <2>3. OnSpeechSegment(start, samples) /\ buffer' = <<>> /\ seen <= seen'
    BY <2>1 DEF CutOff
  <2>4. /\ InOrder(buffer') /\ Below(buffer', seen')
        /\ \A s : Before(s, buffer')
    BY <2>3 DEF InOrder, Below, Before
  <2>5. CASE mode = "file" /\ pending' = pending
             /\ \E seg \in Sent : sent' = Append(sent, seg) /\ seg.samples = samples
    <3>1. PICK seg \in Sent : sent' = Append(sent, seg) /\ seg.samples = samples
      BY <2>5
    <3>2. pending = <<>> /\ pending' = <<>>
      BY <2>5 DEF ControlInv
    <3>3. DOMAIN pending' = {} /\ Rows(pending')
      BY <3>2 DEF Rows
    <3>4. Rows(sent')
      BY <3>1, <2>2, <1>0, <1>1, RowsAppend
    <3>5. \A i \in DOMAIN sent' :
             (i \in DOMAIN sent /\ sent'[i] = sent[i]) \/ sent'[i] = seg
      BY <3>1, <1>0, AppendAt
    <3>6. \A i \in DOMAIN sent' : Below(sent'[i].samples, seen')
      BY <3>1, <3>5, <2>2, <2>3, <1>2
    <3> QED
      BY <3>3, <3>4, <3>6, <2>4 DEF OrderInv
  <2>6. CASE sent' = sent
             /\ \E seg \in Segment : pending' = Append(pending, seg) /\ seg.samples = samples
    <3>1. PICK seg \in Segment : pending' = Append(pending, seg) /\ seg.samples = samples
      BY <2>6
    <3>2. Rows(pending')
      BY <3>1, <2>2, <1>0, <1>1, RowsAppend
    <3>3. \A j \in DOMAIN pending' :
             (j \in DOMAIN pending /\ pending'[j] = pending[j]) \/ pending'[j] = seg
      BY <3>1, <1>0, AppendAt
    <3>4. \A j \in DOMAIN pending' : Below(pending'[j].samples, seen')
      BY <3>1, <3>3, <2>2, <2>3, <1>2
    <3>5. \A i \in DOMAIN sent, j \in DOMAIN pending' :
             Before(sent[i].samples, pending'[j].samples)
      BY <3>1, <3>3, <2>2, <1>1
    <3> QED
      BY <3>2, <3>4, <3>5, <2>3, <2>4, <2>6, <1>1, <1>2 DEF OrderInv
  <2> QED
    BY <2>3, <2>5, <2>6, OnSpeechFacts
<1>6. CASE SendFront
  <2>1. /\ pending # <<>> /\ pending' = Tail(pending) /\ buffer' = buffer /\ seen' = seen
    BY <1>6 DEF SendFront, detector, clocks
  <2>2. PICK seg \in Sent : sent' = Append(sent, seg) /\ seg.samples = Head(pending).samples
    BY <1>6, SendFacts
  <2>3. /\ Rows(pending') /\ seg.samples # <<>> /\ InOrder(seg.samples)
        /\ \A j \in DOMAIN pending' : Before(seg.samples, pending'[j].samples)
    BY <2>1, <2>2, <1>0, <1>1, RowsTail
  <2>4. /\ Head(pending) = pending[1] /\ 1 \in DOMAIN pending
        /\ \A j \in DOMAIN pending' :
              j + 1 \in DOMAIN pending /\ pending'[j] = pending[j + 1]
    BY <2>1, <1>0, TailAt
  <2>5. Rows(sent')
    BY <2>2, <2>3, <2>4, <1>0, <1>1, RowsAppend
  <2>6. \A i \in DOMAIN sent' :
           (i \in DOMAIN sent /\ sent'[i] = sent[i]) \/ sent'[i] = seg
    BY <2>2, <1>0, AppendAt
  <2>7. \A i \in DOMAIN sent' :
           Before(sent'[i].samples, buffer') /\ Below(sent'[i].samples, seen')
    BY <2>1, <2>2, <2>4, <2>6, <1>1
  <2>8. \A j \in DOMAIN pending' :
           Before(pending'[j].samples, buffer') /\ Below(pending'[j].samples, seen')
    BY <2>1, <2>4, <1>1
  <2>9. \A i \in DOMAIN sent', j \in DOMAIN pending' :
           Before(sent'[i].samples, pending'[j].samples)
    BY <2>3, <2>4, <2>6, <1>1
  <2> QED
    BY <2>1, <2>3, <2>5, <2>7, <2>8, <2>9, <1>1 DEF OrderInv
<1> QED
  BY <1>3, <1>4, <1>5, <1>6, Shapes


-----------------------------------------------------------------------------
(* Control *)

LEMMA NextControl ==
    ASSUME TypeOK, TypeOK', ClockInv, ClockInv', ControlInv, [Next]_vars
    PROVE  ControlInv'
<1>1. mode' = "file" => pending' = <<>>
  <2> SUFFICES ASSUME mode' = "file" PROVE pending' = <<>>
    OBVIOUS
  <2>1. mode = "file" /\ pending = <<>>
    BY Shapes DEF ControlInv
  <2>2. CASE Same \/ Grow
    BY <2>1, <2>2 DEF Same, Grow
  <2>3. CASE Cut
    BY <2>1, <2>3, OnSpeechFacts DEF Cut, CutOff
  <2>4. CASE SendFront
    BY <2>1, <2>4 DEF SendFront
  <2> QED
    BY <2>2, <2>3, <2>4, Shapes
<1>2. /\ ~inSpeech' => buffer' = <<>>
      /\ pc' \in {"drain", "ended"} => buffer' = <<>>
      /\ pc' = "drain" => captured' = length'
  <2>1. CASE UNCHANGED vars
    BY <2>1 DEF vars, input, clocks, detector, ControlInv
  <2>2. CASE Capture
    BY <2>2 DEF Capture, detector, ControlInv
  <2>3. CASE \E isSpeech \in BOOLEAN : SpeechFrame(isSpeech)
    BY <2>3 DEF SpeechFrame, Starts, Goes, Continue
  <2>4. CASE EndUtterance
    BY <2>4 DEF EndUtterance, Continue
  <2>5. CASE IdleFrame
    BY <2>5 DEF IdleFrame, Continue, detector, ControlInv
  <2>6. CASE Fault
    BY <2>6 DEF Fault, detector, ControlInv
  <2>7. CASE FlushReady \/ Drain
    BY <2>7 DEF FlushReady, Drain, SendFront, detector, input, clocks, ControlInv
  <2>8. CASE FlushDone
    BY <2>8 DEF FlushDone, detector, ControlInv
  <2>9. CASE FlushVad
    BY <2>9 DEF FlushVad, AfterInput, input, clocks, ControlInv
  <2>10. CASE DrainDone
    BY <2>10 DEF DrainDone, detector, ControlInv
  <2> QED
    BY <2>1, <2>2, <2>3, <2>4, <2>5, <2>6, <2>7, <2>8, <2>9, <2>10 DEF Next
<1>3. pc' = "ended" /\ mode' # "live" => pending' = <<>>
  <2>1. CASE UNCHANGED vars
    BY <2>1 DEF vars, input, ControlInv
  <2>2. CASE Capture \/ Fault \/ FlushDone
    BY <2>2 DEF Capture, Fault, FlushDone
  <2>3. CASE (\E isSpeech \in BOOLEAN : SpeechFrame(isSpeech)) \/ EndUtterance \/ IdleFrame
    BY <2>3 DEF SpeechFrame, EndUtterance, IdleFrame, Continue
  <2>4. CASE FlushReady \/ Drain
    BY <2>4 DEF FlushReady, Drain, SendFront
  <2>5. CASE FlushVad
    BY <2>5 DEF FlushVad, AfterInput, input
  <2>6. CASE DrainDone
    BY <2>6 DEF DrainDone
  <2> QED
    BY <2>1, <2>2, <2>3, <2>4, <2>5, <2>6 DEF Next
<1> QED
  BY <1>1, <1>2, <1>3 DEF ControlInv

-----------------------------------------------------------------------------
(* Speech is kept *)

LEMMA CoreAppend ==
    ASSUME NEW S, NEW s \in Seq(S), NEW seg \in S
    PROVE  CoreFrames(Append(s, seg)) = CoreFrames(s) \cup ToSet(seg.samples)
<1> DEFINE t == Append(s, seg)
<1>1. /\ \A i \in DOMAIN t : (i \in DOMAIN s /\ t[i] = s[i]) \/ (i = Len(s) + 1 /\ t[i] = seg)
      /\ \A i \in DOMAIN s : i \in DOMAIN t /\ t[i] = s[i]
      /\ Len(s) + 1 \in DOMAIN t /\ t[Len(s) + 1] = seg
  BY AppendAt
<1> HIDE DEF t
<1>2. CoreFrames(t) = CoreFrames(s) \cup ToSet(seg.samples)
  BY <1>1 DEF CoreFrames
<1> QED
  BY <1>2 DEF t

LEMMA CoreTail ==
    ASSUME NEW S, NEW s \in Seq(S), s # <<>>
    PROVE  CoreFrames(s) \subseteq ToSet(Head(s).samples) \cup CoreFrames(Tail(s))
<1> DEFINE t == Tail(s)
<1>1. /\ Head(s) = s[1]
      /\ \A i \in DOMAIN s : i = 1 \/ (i - 1 \in DOMAIN t /\ t[i - 1] = s[i])
  BY TailAt
<1> HIDE DEF t
<1>2. CoreFrames(s) \subseteq ToSet(Head(s).samples) \cup CoreFrames(t)
  BY <1>1 DEF CoreFrames
<1> QED
  BY <1>2 DEF t

\* The audio of a segment from the device holds the segment.
LEMMA AudioHolds ==
    ASSUME TypeOK, NEW seg \in Segment
    PROVE  ToSet(seg.samples) \subseteq ToSet(Audio(seg))
<1> DEFINE range == GetRange(seg.start + Len(seg.samples),
                             PaddedEnd(seg.start, seg.samples))
<1>1. seg.start \in Int /\ seg.samples \in Seq(Frame) /\ seg.preRoll \in Seq(Frame)
  BY SegmentFields
<1>2. seg.start + Len(seg.samples) \in Int /\ PaddedEnd(seg.start, seg.samples) \in Int
  BY <1>1, Constants DEF PaddedEnd
<1>3. range \in Seq(Frame)
  BY <1>2, GetRangeType
<1> HIDE DEF range
<1>4. seg.preRoll \o seg.samples \in Seq(Frame)
  BY <1>1, ConcatProperties
<1>5. Range((seg.preRoll \o seg.samples) \o range)
        = (Range(seg.preRoll) \cup Range(seg.samples)) \cup Range(range)
  <2>1. Range(seg.preRoll \o seg.samples) = Range(seg.preRoll) \cup Range(seg.samples)
    BY <1>1, ConcatRange
  <2>2. ASSUME NEW s \in Seq(Frame) PROVE Range(s \o range) = Range(s) \cup Range(range)
    BY <1>3, ConcatRange
  <2>3. Range((seg.preRoll \o seg.samples) \o range)
          = Range(seg.preRoll \o seg.samples) \cup Range(range)
    BY <1>4, <2>2
  <2> QED
    BY <2>1, <2>3
<1>6. \A s \in Seq(Frame) : ToSet(s) = Range(s)
  BY DEF ToSet, Range
<1>7. (seg.preRoll \o seg.samples) \o range \in Seq(Frame)
  BY <1>3, <1>4, ConcatProperties
<1>8. ToSet(seg.samples) \subseteq ToSet((seg.preRoll \o seg.samples) \o range)
  BY <1>1, <1>5, <1>6, <1>7
<1> QED
  BY <1>8 DEF Audio, range

LEMMA NextKept ==
    ASSUME TypeOK, TypeOK', ClockInv, ClockInv', ControlInv, OrderInv, KeptInv, [Next]_vars
    PROVE  KeptInv'
<1>0. /\ sent \in Seq(Sent) /\ pending \in Seq(Segment) /\ mode' = mode
      /\ spoken \subseteq CoreFrames(sent) \cup CoreFrames(pending) \cup ToSet(buffer)
      /\ mode # "file" =>
            \A i \in DOMAIN sent : ToSet(sent[i].samples) \subseteq ToSet(sent[i].audio)
  BY Types, Shapes DEF KeptInv
<1>1. CASE Same
  <2>1. buffer' = buffer /\ pending' = pending /\ sent' = sent /\ spoken' = spoken
    BY <1>1 DEF Same
  <2> QED
    BY <2>1, <1>0 DEF KeptInv
<1>2. CASE Grow
  <2>1. /\ buffer' = Append(buffer, seen) /\ pending' = pending /\ sent' = sent
        /\ seen \in Frame /\ spoken' \subseteq spoken \cup {seen}
    BY <1>2 DEF Grow
  <2>2. ToSet(buffer') = ToSet(buffer) \cup {seen}
    BY <2>1, GrownBuffer
  <2> QED
    BY <2>1, <2>2, <1>0 DEF KeptInv
<1>3. CASE Cut
  <2>1. PICK start \in Time, samples \in Seq(Frame) : CutOff(start, samples)
    BY <1>3 DEF Cut
  <2>2. ToSet(buffer) \subseteq ToSet(samples) /\ spoken' \subseteq spoken \cup ToSet(samples)
    BY <2>1, CutFacts
  <2>3. OnSpeechSegment(start, samples)
    BY <2>1 DEF CutOff
  <2>4. CASE mode = "file" /\ pending' = pending
             /\ \E seg \in Sent : sent' = Append(sent, seg) /\ seg.samples = samples
    <3>1. CoreFrames(sent') = CoreFrames(sent) \cup ToSet(samples)
      BY <2>4, <1>0, CoreAppend
    <3> QED
      BY <3>1, <2>2, <2>4, <1>0 DEF KeptInv
  <2>5. CASE sent' = sent
             /\ \E seg \in Segment : pending' = Append(pending, seg) /\ seg.samples = samples
    <3>1. CoreFrames(pending') = CoreFrames(pending) \cup ToSet(samples)
      BY <2>5, <1>0, CoreAppend
    <3> QED
      BY <3>1, <2>2, <2>5, <1>0 DEF KeptInv
  <2> QED
    BY <2>3, <2>4, <2>5, OnSpeechFacts
<1>4. CASE SendFront
  <2>1. pending # <<>> /\ pending' = Tail(pending) /\ Head(pending) \in Segment
    BY <1>4, SendFacts
  <2>2. buffer' = buffer /\ spoken' = spoken
    BY <1>4 DEF SendFront, detector
  <2>3. PICK seg \in Sent : /\ sent' = Append(sent, seg)
                           /\ seg.samples = Head(pending).samples
                           /\ seg.audio = Audio(Head(pending))
    BY <1>4, SendFacts
  <2>4. CoreFrames(sent') = CoreFrames(sent) \cup ToSet(seg.samples)
    BY <2>3, <1>0, CoreAppend
  <2>5. CoreFrames(pending) \subseteq ToSet(seg.samples) \cup CoreFrames(pending')
    BY <2>1, <2>3, <1>0, CoreTail
  <2>6. ToSet(seg.samples) \subseteq ToSet(seg.audio)
    BY <2>1, <2>3, AudioHolds
  <2>7. \A i \in DOMAIN sent' :
           (i \in DOMAIN sent /\ sent'[i] = sent[i]) \/ sent'[i] = seg
    BY <2>3, <1>0, AppendAt
  <2> QED
    BY <2>2, <2>4, <2>5, <2>6, <2>7, <1>0 DEF KeptInv
<1> QED
  BY <1>1, <1>2, <1>3, <1>4, Shapes


-----------------------------------------------------------------------------
(* Time *)

\* A segment ends with a frame; whatever its end is below, its frames are.
LEMMA EndFacts ==
    ASSUME NEW s \in Seq(Frame), s # <<>>
    PROVE  /\ End(s) \in Nat /\ Len(s) \in Nat /\ Len(s) > 0
           /\ s[Len(s)] \in Frame /\ Last(s) + 1 = End(s)
           /\ \A n \in Nat : Below(s, n) => End(s) <= n
           /\ \A t \in Seq(Frame) : t # <<>> /\ Before(s, t) => End(s) < End(t)
<1> USE Constants
<1>1. Len(s) \in Nat /\ Len(s) > 0 /\ Len(s) \in 1..Len(s) /\ s[Len(s)] \in Frame
  OBVIOUS
<1>2. End(s) \in Nat /\ Last(s) + 1 = End(s)
  BY <1>1 DEF End, Last
<1>3. ASSUME NEW n \in Nat, Below(s, n) PROVE End(s) <= n
  <2>1. s[Len(s)] < n
    BY <1>1, <1>3 DEF Below
  <2> QED
    BY <2>1, <1>1 DEF End
<1>4. ASSUME NEW t \in Seq(Frame), t # <<>>, Before(s, t) PROVE End(s) < End(t)
  <2>1. Len(t) \in 1..Len(t) /\ t[Len(t)] \in Frame
    BY <1>4
  <2>2. s[Len(s)] < t[Len(t)]
    BY <1>1, <1>4, <2>1 DEF Before
  <2> QED
    BY <1>1, <2>1, <2>2 DEF End
<1> QED
  BY <1>1, <1>2, <1>3, <1>4

\* Where an utterance begins, and how long it is, before the frame that is
\* taken.
LEMMA BegunFacts ==
    ASSUME TypeOK, TypeOK', ClockInv', OrderInv, StartInv, Begun, seen' = seen + 1
    PROVE  speechStart' <= seen + MaxDrift /\ speechStart' + Len(buffer) <= seen + MaxDrift
<1>d. MaxDrift \in Nat
  BY Constants
<1>0. /\ seen \in Nat /\ speechStart \in Int /\ buffer \in Seq(Frame) /\ Len(buffer) \in Nat
      /\ speechStart' \in Int /\ vadTime' \in Int /\ faults' \in Nat
      /\ vadTime' <= (seen' - faults') + MaxDrift
  <2>1. speechStart' \in Int /\ vadTime' \in Int /\ faults' \in Nat
    BY DEF TypeOK, Time
  <2>2. seen \in Nat /\ speechStart \in Int /\ buffer \in Seq(Frame) /\ seen' \in Nat
    BY Types
  <2>3. vadTime' - (seen' - faults') \in (-MaxDrift)..MaxDrift
    BY DEF ClockInv
  <2>4. ASSUME NEW t \in Int, NEW m \in Nat, NEW n \in Nat, NEW d \in Nat,
               t - (m - n) \in (-d)..d
        PROVE  t <= (m - n) + d
    BY <2>4
  <2>5. vadTime' <= (seen' - faults') + MaxDrift
    BY <1>d, <2>1, <2>2, <2>3, <2>4
  <2> QED
    BY <2>1, <2>2, <2>5
<1>1. CASE inSpeech /\ speechStart' = speechStart
  <2>1. speechStart <= seen + MaxDrift
    BY <1>1 DEF StartInv
  <2>2. CASE buffer = <<>>
    <3>1. Len(buffer) = 0
      BY <2>2
    <3> QED
      BY <1>d, <1>0, <1>1, <2>1, <3>1
  <2>3. CASE buffer # <<>>
    <3>1. speechStart + Len(buffer) <= End(buffer) + MaxDrift
      BY <2>3 DEF StartInv
    <3>2. End(buffer) <= seen /\ End(buffer) \in Nat
      BY <2>3, <1>0, EndFacts DEF OrderInv
    <3> QED
      BY <1>d, <1>0, <1>1, <2>1, <3>1, <3>2
  <2> QED
    BY <2>2, <2>3
<1>2. CASE buffer = <<>> /\ speechStart' = vadTime' - 1
  <2>1. Len(buffer) = 0
    BY <1>2
  <2>2. ASSUME NEW t \in Int, NEW m \in Nat, NEW n \in Nat, NEW d \in Nat,
               t <= ((m + 1) - n) + d
        PROVE  t - 1 <= m + d /\ (t - 1) + 0 <= m + d
    BY <2>2
  <2>3. vadTime' - 1 <= seen + MaxDrift /\ (vadTime' - 1) + 0 <= seen + MaxDrift
    BY <1>d, <1>0, <2>2
  <2> QED
    BY <1>2, <2>1, <2>3
<1> QED
  BY <1>1, <1>2 DEF Begun

LEMMA NextStart ==
    ASSUME TypeOK, TypeOK', ClockInv, ClockInv', ControlInv, OrderInv, StartInv, [Next]_vars
    PROVE  StartInv'
<1>d. MaxDrift \in Nat
  BY Constants
<1>0. /\ sent \in Seq(Sent) /\ pending \in Seq(Segment) /\ buffer \in Seq(Frame)
      /\ seen \in Nat /\ seen' \in Nat /\ speechStart \in Int
      /\ inSpeech => speechStart <= seen + MaxDrift
      /\ buffer # <<>> => speechStart + Len(buffer) <= End(buffer) + MaxDrift
      /\ \A j \in DOMAIN pending : StartsInTime(pending[j])
  BY Types, Shapes DEF StartInv
<1>1. CASE Same
  <2>1. /\ buffer' = buffer /\ pending' = pending /\ speechStart' = speechStart
        /\ inSpeech' => inSpeech
        /\ seen <= seen'
    BY <1>1 DEF Same
  <2>2. inSpeech' => speechStart' <= seen' + MaxDrift
    <3>1. inSpeech' => speechStart <= seen + MaxDrift
      BY <2>1, <1>0
    <3>2. ASSUME NEW t \in Int, NEW m \in Nat, NEW n \in Nat, NEW d \in Nat,
                 t <= m + d, m <= n
          PROVE  t <= n + d
      BY <3>2
    <3> QED
      BY <2>1, <3>1, <3>2, <1>0, <1>d
  <2> QED
    BY <2>1, <2>2, <1>0 DEF StartInv
<1>2. CASE Grow
  <2>1. /\ buffer' = Append(buffer, seen) /\ pending' = pending /\ seen \in Frame
        /\ seen' = seen + 1 /\ Begun
    BY <1>2 DEF Grow
  <2>2. speechStart' <= seen + MaxDrift /\ speechStart' + Len(buffer) <= seen + MaxDrift
    BY <2>1, BegunFacts
  <2>3. Len(buffer') = Len(buffer) + 1 /\ End(buffer') = seen + 1 /\ Len(buffer) \in Nat
    BY <2>1, <1>0, GrownBuffer
  <2>4. speechStart' \in Int
    BY DEF TypeOK, Time
  <2>5. /\ speechStart' <= seen' + MaxDrift
        /\ speechStart' + Len(buffer') <= End(buffer') + MaxDrift
    BY <2>1, <2>2, <2>3, <2>4, <1>0, <1>d
  <2> QED
    BY <2>1, <2>5, <1>0 DEF StartInv
<1>3. CASE Cut
  <2>1. PICK start \in Time, samples \in Seq(Frame) : CutOff(start, samples)
    BY <1>3 DEF Cut
  <2>2. OnSpeechSegment(start, samples) /\ buffer' = <<>> /\ seen <= seen'
    BY <2>1 DEF CutOff
  <2>3. start \in Int
    BY DEF Time
  <2>4. /\ start + Len(samples) <= End(samples) + MaxDrift
        /\ inSpeech' => speechStart' <= seen' + MaxDrift
    <3>1. CASE samples = buffer /\ start = speechStart /\ ~inSpeech'
      BY <2>1, <3>1, <1>0 DEF CutOff
    <3>2. CASE /\ samples = Append(buffer, seen) /\ start = speechStart' /\ seen \in Frame
               /\ seen' = seen + 1 /\ Begun
      <4>1. speechStart' <= seen + MaxDrift /\ speechStart' + Len(buffer) <= seen + MaxDrift
        BY <3>2, BegunFacts
      <4>2. Len(samples) = Len(buffer) + 1 /\ End(samples) = seen + 1 /\ Len(buffer) \in Nat
        BY <3>2, <1>0, GrownBuffer
      <4> QED
        BY <2>3, <3>2, <4>1, <4>2, <1>0, <1>d
    <3> QED
      BY <2>1, <3>1, <3>2 DEF CutOff
  <2>5. CASE pending' = pending
    BY <2>2, <2>4, <2>5, <1>0 DEF StartInv
  <2>6. CASE \E seg \in Segment : /\ pending' = Append(pending, seg)
                                /\ seg.start = start /\ seg.samples = samples
    <3>1. PICK seg \in Segment : /\ pending' = Append(pending, seg)
                                 /\ seg.start = start /\ seg.samples = samples
      BY <2>6
    <3>2. StartsInTime(seg)
      BY <3>1, <2>4 DEF StartsInTime
    <3>3. \A j \in DOMAIN pending' : StartsInTime(pending'[j])
      BY <3>1, <3>2, <1>0, AppendAt
    <3> QED
      BY <2>2, <2>4, <3>3 DEF StartInv
  <2> QED
    BY <2>2, <2>5, <2>6, OnSpeechFacts
<1>4. CASE SendFront
  <2>1. /\ pending # <<>> /\ pending' = Tail(pending)
        /\ buffer' = buffer /\ seen' = seen /\ inSpeech' = inSpeech /\ speechStart' = speechStart
    BY <1>4 DEF SendFront, detector, clocks
  <2>2. \A j \in DOMAIN pending' : StartsInTime(pending'[j])
    BY <2>1, <1>0, TailAt
  <2> QED
    BY <2>1, <2>2, <1>0 DEF StartInv
<1> QED
  BY <1>1, <1>2, <1>3, <1>4, Shapes


\* When the thread goes on to the next chunk, the first segment that waits is
\* not complete, so none is late.
LEMMA NextDelay ==
    ASSUME TypeOK, OrderInv, StartInv, DelayBounded, [Next]_vars
    PROVE  DelayBounded'
<1>1. CASE UNCHANGED vars
  BY <1>1 DEF vars, clocks, DelayBounded
<1>2. CASE FlushDone
  <2>1. captured' = captured /\ pending' = pending /\ ~FrontReady
    BY <1>2 DEF FlushDone, clocks
  <2> SUFFICES ASSUME NEW i \in DOMAIN pending
               PROVE  captured < Last(pending[i].samples) + 1 + Post + MaxDrift
    BY <2>1 DEF DelayBounded
  <2>2. pending # <<>> /\ pending \in Seq(Segment) /\ captured \in Nat
    BY Types
  <2>3. Head(pending) = pending[1] /\ 1 \in DOMAIN pending /\ i \in Nat /\ i >= 1
    BY <2>2, TailAt
  <2> DEFINE front == pending[1]
  <2>4. /\ front.start \in Int /\ front.samples \in Seq(Frame) /\ front.samples # <<>>
        /\ pending[i].samples \in Seq(Frame) /\ pending[i].samples # <<>>
    BY <2>2, <2>3, Rowed, SegmentFields DEF OrderInv, Rows
  <2>5. captured < front.start + Len(front.samples) + Post
    <3>1. ~(captured >= front.start + Len(front.samples) + Post)
      BY <2>1, <2>2, <2>3 DEF FrontReady, Ready, PaddedEnd
    <3>2. front.start + Len(front.samples) + Post \in Int
      BY <2>4, Constants
    <3> QED
      BY <3>1, <3>2, <2>2
  <2>6. front.start + Len(front.samples) <= End(front.samples) + MaxDrift
    BY <2>3 DEF StartInv, StartsInTime
  <2>7. End(front.samples) <= End(pending[i].samples)
    <3>1. CASE i = 1
      BY <3>1, <2>4, EndFacts
    <3>2. CASE i # 1
      <4>1. Before(front.samples, pending[i].samples)
        BY <2>3, <3>2 DEF OrderInv, Rows
      <4> QED
        BY <4>1, <2>4, EndFacts
    <3> QED
      BY <3>1, <3>2
  <2>8. /\ End(front.samples) \in Nat /\ End(pending[i].samples) \in Nat
        /\ Last(pending[i].samples) + 1 = End(pending[i].samples)
        /\ Len(front.samples) \in Nat
    BY <2>4, EndFacts
  <2>9. ASSUME NEW a \in Int, NEW n \in Nat, NEW c \in Nat, NEW e \in Nat, NEW f \in Nat,
               NEW p \in Nat, NEW d \in Nat,
               c < a + n + p, a + n <= e + d, e <= f
        PROVE  c < f + p + d
    BY <2>9
  <2>10. captured < End(pending[i].samples) + Post + MaxDrift
    BY <2>2, <2>4, <2>5, <2>6, <2>7, <2>8, <2>9, Constants
  <2> QED
    BY <2>8, <2>10
<1>3. CASE pc' # "append"
  BY <1>3 DEF DelayBounded
<1>4. Next => FlushDone \/ pc' # "append"
  BY DEF Next, Capture, SpeechFrame, EndUtterance, IdleFrame, Continue, Fault, FlushReady,
         SendFront, FlushVad, AfterInput, Drain, DrainDone
<1> QED
  BY <1>1, <1>2, <1>3, <1>4

\* Chunks of the failed inferences.
LEMMA Chunks ==
    ASSUME NEW n \in Nat
    PROVE  /\ n * MaxChunk \in Nat /\ n <= n * MaxChunk
           /\ (n + 1) * MaxChunk = n * MaxChunk + MaxChunk
           /\ \A m \in Nat : n <= m => n * MaxChunk <= m * MaxChunk
<1>1. MaxChunk \in Nat /\ MaxChunk >= 1
  BY Constants
<1>2. n * MaxChunk \in Nat /\ (n + 1) * MaxChunk = n * MaxChunk + MaxChunk
  BY <1>1
<1>3. \A m \in Nat : n <= m => n * MaxChunk <= m * MaxChunk
  BY <1>1
<1>4. n <= n * MaxChunk
  BY <1>1
<1> QED
  BY <1>2, <1>3, <1>4

LEMMA NextLag ==
    ASSUME TypeOK, TypeOK', ClockInv, ClockInv', ControlInv, OrderInv, LagInv, [Next]_vars
    PROVE  LagInv'
<1>0. /\ seen \in Nat /\ captured \in Nat /\ faults \in Nat /\ buffer \in Seq(Frame)
      /\ MaxChunk \in Nat /\ MaxChunk > 0
      /\ faults * MaxChunk \in Nat /\ faults <= faults * MaxChunk
      /\ (faults + 1) * MaxChunk = faults * MaxChunk + MaxChunk
  BY Types, Constants, Chunks
<1>1. /\ pc = "vad" => captured + faults <= seen + (faults * MaxChunk + MaxChunk)
      /\ pc # "vad" => captured + faults <= seen + faults * MaxChunk
      /\ buffer # <<>> => seen <= End(buffer) + faults
  BY <1>0 DEF LagInv
<1>2. CASE UNCHANGED vars
  BY <1>2 DEF vars, clocks, detector, LagInv
<1>3. CASE Capture
  <2>1. PICK n \in 1..Clip(length - captured, 1, MaxChunk) : captured' = captured + n
    BY <1>3 DEF Capture
  <2>2. n \in Nat /\ n <= MaxChunk
    <3>1. length - captured \in Int
      BY Types
    <3>2. 1 \in Int /\ MaxChunk \in Int /\ 1 <= MaxChunk
      BY <1>0
    <3>3. Clip(length - captured, 1, MaxChunk) \in 1..MaxChunk
      BY <3>1, <3>2, ClipFacts
    <3>4. ASSUME NEW c \in 1..MaxChunk, NEW k \in 1..c PROVE k \in Nat /\ k <= MaxChunk
      BY <3>2, <3>4
    <3> QED
      BY <3>3, <3>4
  <2>3. pc = "append" /\ pc' = "vad" /\ seen' = seen /\ faults' = faults /\ buffer' = buffer
    BY <1>3 DEF Capture, detector
  <2>4. captured' + faults <= seen + (faults * MaxChunk + MaxChunk)
    BY <2>1, <2>2, <2>3, <1>0, <1>1
  <2> QED
    BY <2>3, <2>4, <1>0, <1>1 DEF LagInv
<1>4. CASE (\E isSpeech \in BOOLEAN : SpeechFrame(isSpeech)) \/ EndUtterance \/ IdleFrame
  <2>1. /\ pc = "vad" /\ seen' = seen + 1 /\ captured' = captured /\ faults' = faults
        /\ pc' = IF seen' = captured THEN "flush" ELSE "vad"
    BY <1>4 DEF SpeechFrame, EndUtterance, IdleFrame, TakeFrame, Continue
  <2>2. /\ pc' = "vad" => captured' + faults' <= seen' + (faults' + 1) * MaxChunk
        /\ pc' # "vad" => captured' + faults' <= seen' + faults' * MaxChunk
    <3>1. CASE seen' = captured
      BY <2>1, <3>1, <1>0
    <3>2. CASE seen' # captured
      BY <2>1, <3>2, <1>0, <1>1
    <3> QED
      BY <3>1, <3>2
  <2>3. buffer' # <<>> => seen' <= End(buffer') + faults'
    <3>1. CASE IdleFrame
      BY <3>1 DEF IdleFrame, detector, ControlInv
    <3>2. CASE EndUtterance
      BY <3>2 DEF EndUtterance
    <3>3. CASE \E isSpeech \in BOOLEAN : SpeechFrame(isSpeech)
      <4>1. buffer' = <<>> \/ buffer' = Append(buffer, seen)
        BY <3>3 DEF SpeechFrame, BufferFrame
      <4>2. seen \in Frame
        BY <3>3, ClockStep DEF SpeechFrame
      <4>3. buffer' = Append(buffer, seen) => End(buffer') = seen + 1
        BY <4>2, GrownBuffer
      <4> QED
        BY <2>1, <4>1, <4>3, <1>0
    <3> QED
      BY <1>4, <3>1, <3>2, <3>3
  <2> QED
    BY <2>2, <2>3 DEF LagInv
<1>5. CASE Fault
  <2>1. /\ pc = "vad" /\ seen' = seen + 1 /\ captured' = captured /\ faults' = faults + 1
        /\ pc' = "flush" /\ buffer' = buffer
    BY <1>5 DEF Fault, TakeFrame, detector
  <2>2. captured' + faults' <= seen' + faults' * MaxChunk
    BY <2>1, <1>0, <1>1
  <2>3. buffer # <<>> => seen' <= End(buffer) + faults'
    <3> SUFFICES ASSUME buffer # <<>> PROVE seen' <= End(buffer) + faults'
      OBVIOUS
    <3>1. End(buffer) \in Nat
      BY <1>0, EndFacts
    <3> QED
      BY <2>1, <3>1, <1>0, <1>1
  <2> QED
    BY <2>1, <2>2, <2>3 DEF LagInv
<1>6. CASE FlushReady \/ Drain \/ FlushDone \/ FlushVad \/ DrainDone
  <2>1. /\ seen' = seen /\ captured' = captured /\ faults' = faults
        /\ pc # "vad" /\ pc' # "vad" /\ (buffer' = buffer \/ buffer' = <<>>)
    BY <1>6 DEF FlushReady, Drain, SendFront, FlushDone, FlushVad, DrainDone, AfterInput,
                clocks, detector
  <2> QED
    BY <2>1, <1>1 DEF LagInv
<1> QED
  BY <1>2, <1>3, <1>4, <1>5, <1>6 DEF Next


\* The ring is not far ahead of a segment that is cut off.
LEMMA CutLag ==
    ASSUME TypeOK, OrderInv, LagInv, NEW start \in Time, NEW samples \in Seq(Frame),
           CutOff(start, samples)
    PROVE  captured <= End(samples) + (faults + 1) * MaxChunk
<1>0. /\ seen \in Nat /\ captured \in Nat /\ faults \in Nat /\ MaxChunk \in Nat
      /\ faults * MaxChunk \in Nat
      /\ (faults + 1) * MaxChunk = faults * MaxChunk + MaxChunk
  BY Types, Constants, Chunks
<1>1. captured + faults <= seen + (faults * MaxChunk + MaxChunk)
  BY <1>0 DEF LagInv
<1>2. CASE samples = buffer
  <2>1. samples # <<>> /\ seen <= End(samples) + faults /\ End(samples) \in Nat
    BY <1>2, EndFacts DEF CutOff, LagInv
  <2> QED
    BY <2>1, <1>0, <1>1
<1>3. CASE samples = Append(buffer, seen) /\ seen \in Frame
  <2>1. End(samples) = seen + 1
    BY <1>3, GrownBuffer
  <2> QED
    BY <2>1, <1>0, <1>1
<1> QED
  BY <1>2, <1>3 DEF CutOff

LEMMA NextRing ==
    ASSUME TypeOK, TypeOK', ClockInv, ClockInv', ControlInv, OrderInv, StartInv, LagInv,
           DelayBounded, RingInv, RingSuffices, [Next]_vars
    PROVE  RingInv'
<1>0. /\ captured \in Nat /\ faults \in Nat /\ faults <= MaxFaults /\ pending \in Seq(Segment)
      /\ MaxChunk \in Nat /\ MaxChunk > 0 /\ Ring \in Nat /\ MaxFaults \in Nat
      /\ Post \in Nat /\ MaxDrift \in Nat
  BY Types, Constants
<1>1. \A j \in DOMAIN pending :
         /\ pending[j].samples \in Seq(Frame) /\ pending[j].samples # <<>>
         /\ End(pending[j].samples) \in Nat
         /\ Last(pending[j].samples) + 1 = End(pending[j].samples)
  BY Rowed, EndFacts DEF OrderInv, Rows
<1>2. CASE Capture
  <2>1. PICK n \in 1..Clip(length - captured, 1, MaxChunk) : captured' = captured + n
    BY <1>2 DEF Capture
  <2>2. n \in Nat /\ n <= MaxChunk
    <3>1. length - captured \in Int
      BY Types
    <3>2. 1 \in Int /\ MaxChunk \in Int /\ 1 <= MaxChunk
      BY <1>0
    <3>3. Clip(length - captured, 1, MaxChunk) \in 1..MaxChunk
      BY <3>1, <3>2, ClipFacts
    <3>4. ASSUME NEW c \in 1..MaxChunk, NEW k \in 1..c PROVE k \in Nat /\ k <= MaxChunk
      BY <3>2, <3>4
    <3> QED
      BY <3>3, <3>4
  <2>3. pc = "append" /\ pending' = pending
    BY <1>2 DEF Capture
  <2> SUFFICES ASSUME NEW j \in DOMAIN pending
               PROVE  captured' <= End(pending[j].samples) + Ring
    BY <2>3 DEF RingInv
  <2>4. captured < End(pending[j].samples) + Post + MaxDrift
    BY <2>3, <1>1 DEF DelayBounded
  <2>5. Post + MaxDrift + MaxChunk <= Ring + 1
    BY DEF RingSuffices
  <2>6. End(pending[j].samples) \in Nat
    BY <1>1
  <2> QED
    BY <2>1, <2>2, <2>4, <2>5, <2>6, <1>0
<1>3. Next => Capture \/ captured' = captured
  BY DEF Next, SpeechFrame, EndUtterance, IdleFrame, TakeFrame, Fault, FlushReady,
         SendFront, FlushDone, FlushVad, Drain, DrainDone, clocks
<1>4. CASE captured' = captured
  <2>1. CASE Same \/ Grow
    BY <1>4, <2>1 DEF Same, Grow, RingInv
  <2>2. CASE Cut
    <3>1. PICK start \in Time, samples \in Seq(Frame) : CutOff(start, samples)
      BY <2>2 DEF Cut
    <3>2. OnSpeechSegment(start, samples) /\ samples # <<>>
      BY <3>1 DEF CutOff
    <3>3. captured <= End(samples) + Ring
      <4>1. captured <= End(samples) + (faults + 1) * MaxChunk
        BY <3>1, CutLag
      <4>2. (faults + 1) * MaxChunk <= (MaxFaults + 1) * MaxChunk
            /\ (faults + 1) * MaxChunk \in Nat /\ (MaxFaults + 1) * MaxChunk \in Nat
        <5>1. faults + 1 \in Nat /\ MaxFaults + 1 \in Nat /\ faults + 1 <= MaxFaults + 1
          BY <1>0
        <5> QED
          BY <5>1, Chunks
      <4>3. End(samples) \in Nat
        BY <3>2, EndFacts
      <4>4. (MaxFaults + 1) * MaxChunk <= Ring
        BY DEF RingSuffices
      <4> QED
        BY <4>1, <4>2, <4>3, <4>4, <1>0
    <3>4. CASE pending' = pending
      BY <1>4, <3>4 DEF RingInv
    <3>5. CASE \E seg \in Segment : pending' = Append(pending, seg) /\ seg.samples = samples
      <4>1. PICK seg \in Segment : pending' = Append(pending, seg) /\ seg.samples = samples
        BY <3>5
      <4>2. \A j \in DOMAIN pending' :
               (j \in DOMAIN pending /\ pending'[j] = pending[j]) \/ pending'[j] = seg
        BY <4>1, <1>0, AppendAt
      <4> QED
        BY <1>4, <3>3, <4>1, <4>2 DEF RingInv
    <3> QED
      BY <3>2, <3>4, <3>5, OnSpeechFacts
  <2>3. CASE SendFront
    <3>1. pending # <<>> /\ pending' = Tail(pending)
      BY <2>3 DEF SendFront
    <3>2. \A j \in DOMAIN pending' : j + 1 \in DOMAIN pending /\ pending'[j] = pending[j + 1]
      BY <3>1, <1>0, TailAt
    <3> QED
      BY <1>4, <3>2 DEF RingInv
  <2> QED
    BY <2>1, <2>2, <2>3, Shapes
<1>5. CASE UNCHANGED vars
  BY <1>5 DEF vars, clocks, RingInv
<1> QED
  BY <1>2, <1>3, <1>4, <1>5


-----------------------------------------------------------------------------
(* Padding *)

\* A segment that is where it was reported, in numbers.
LEMMA WhereFacts ==
    ASSUME NEW seg, NEW a \in Int, NEW e \in Int, seg.start = a,
           seg.samples \in Seq(Frame), seg.samples # <<>>,
           e = a + Len(seg.samples), WhereReported(seg)
    PROVE  /\ a \in Nat /\ e \in Nat /\ a < e /\ e <= MaxFrames
           /\ seg.samples = Span(a, e) /\ End(seg.samples) = e
           /\ ToSet(seg.samples) = a..(e - 1)
<1>1. seg.samples = Span(a, e)
  BY DEF WhereReported
<1>2. /\ a \in Frame /\ e \in (a + 1)..MaxFrames /\ End(seg.samples) = e
      /\ ToSet(seg.samples) = a..(e - 1)
  BY <1>1, SpanOfFrames
<1> QED
  BY <1>1, <1>2, Constants

\* The pre-roll ends where the segment begins, and begins where it should
\* unless the ring has lost that already.
LEMMA PreRollOfCut ==
    ASSUME TypeOK, NEW seg, NEW a \in Int, seg.start = a,
           seg.samples \in Seq(Frame), seg.samples # <<>>,
           seg.preRoll = GetRange(PaddedStart(a), a),
           End(seg.samples) <= captured,
           captured <= End(seg.samples) + (faults + 1) * MaxChunk
    PROVE  HasPreRoll(seg, faults)
<1> SUFFICES ASSUME WhereReported(seg)
             PROVE  \E x \in 0..seg.start :
                       /\ seg.preRoll = Span(x, seg.start)
                       /\ Roomy(seg, faults) => x = PaddedStart(seg.start)
  BY DEF HasPreRoll
<1> SUFFICES \E x \in 0..a : /\ seg.preRoll = Span(x, a)
                             /\ Roomy(seg, faults) => x = PaddedStart(a)
  OBVIOUS
<1> DEFINE n == Len(seg.samples)  p == PaddedStart(a)  f == FirstStored
<1>1. n \in Nat /\ a + n \in Int
  OBVIOUS
<1>2. a \in Nat /\ a + n \in Nat /\ a < a + n /\ a + n <= MaxFrames /\ End(seg.samples) = a + n
  BY <1>1, WhereFacts
<1>3. captured \in Nat /\ captured <= MaxFrames /\ a < captured
  BY <1>1, <1>2, Types
<1>4. Pre \in Nat /\ Ring \in Nat /\ MaxChunk \in Nat /\ MaxFrames \in Nat
  BY Constants
<1>5. p \in Nat /\ p <= a /\ (a > Pre => p = a - Pre) /\ (a <= Pre => p = 0)
  BY <1>2, <1>4 DEF PaddedStart
<1>6. f \in Nat /\ f <= captured /\ (captured <= Ring => f = 0)
      /\ (captured >= Ring => f = captured - Ring)
  BY <1>3, RingFacts
<1>7. Roomy(seg, faults) => f <= p
  <2> SUFFICES ASSUME Roomy(seg, faults) PROVE f <= p
    OBVIOUS
  <2>1. faults = 0 /\ n + MaxChunk + Pre <= Ring
    BY DEF Roomy
  <2>2. (faults + 1) * MaxChunk = MaxChunk
    BY <2>1, <1>4
  <2>3. captured <= a + n + MaxChunk
    BY <2>2, <1>2
  <2> HIDE DEF n, p, f
  <2>4. CASE captured <= Ring
    BY <2>4, <1>5, <1>6
  <2>5. CASE captured > Ring
    <3>1. f = captured - Ring
      BY <2>5, <1>3, <1>4, <1>6
    <3>2. captured - Ring <= a - Pre
      BY <2>1, <2>3, <1>1, <1>2, <1>3, <1>4
    <3> QED
      BY <3>1, <3>2, <1>2, <1>3, <1>4, <1>5, <2>5
  <2> QED
    BY <2>4, <2>5, <1>3, <1>4
<1>8. seg.preRoll = Span(Clip(p, f, captured), Clip(a, f, captured))
  BY DEF GetRange
<1> HIDE DEF n, p, f
<1>9. CASE f >= a
  <2>1. Clip(p, f, captured) = f /\ Clip(a, f, captured) = f
    BY <1>2, <1>3, <1>5, <1>6, <1>9 DEF Clip
  <2>2. f \in 0..MaxFrames /\ a \in 0..MaxFrames
    BY <1>2, <1>3, <1>4, <1>6
  <2>3. Span(f, f) = <<>>
    BY <2>2, SpanEmpty
  <2>4. Span(a, a) = <<>>
    BY <2>2, SpanEmpty
  <2>5. Roomy(seg, faults) => a = p
    BY <1>2, <1>5, <1>6, <1>7, <1>9
  <2>6. a \in 0..a
    BY <1>2
  <2> QED
    BY <2>1, <2>3, <2>4, <2>5, <2>6, <1>8 DEF p
<1>10. CASE f < a
  <2> DEFINE x == Clip(p, f, captured)
  <2>1. Clip(a, f, captured) = a
    BY <1>2, <1>3, <1>6, <1>10 DEF Clip
  <2>2. x \in 0..a
    BY <1>2, <1>3, <1>5, <1>6, <1>10 DEF Clip
  <2>3. Roomy(seg, faults) => x = p
    BY <1>2, <1>3, <1>5, <1>6, <1>7, <1>10 DEF Clip
  <2> QED
    BY <2>1, <2>2, <2>3, <1>8 DEF p
<1> QED
  BY <1>2, <1>6, <1>9, <1>10

\* Pre-roll, segment and post-roll are one span when the ring still holds what
\* follows the segment.
LEMMA PaddingOfSent ==
    ASSUME TypeOK, NEW front \in Segment, front.samples # <<>>, HasPreRoll(front, faults),
           End(front.samples) <= captured, captured <= End(front.samples) + Ring,
           Ready(front) \/ captured = length,
           NEW seg, seg.start = front.start, seg.samples = front.samples,
           seg.audio = Audio(front)
    PROVE  HasPadding(seg, faults, length)
<1> DEFINE a == front.start  n == Len(front.samples)  e == a + n
           f == FirstStored  y == Clip(e + Post, f, captured)
<1> SUFFICES ASSUME WhereReported(seg)
             PROVE  \E x \in 0..a, z \in e..length :
                       /\ seg.audio = Span(x, z)
                       /\ Roomy(seg, faults) =>
                             /\ x = PaddedStart(a)
                             /\ z = Clip(PaddedEnd(a, front.samples), 0, length)
  BY DEF HasPadding
<1>1. a \in Int /\ front.samples \in Seq(Frame) /\ n \in Nat /\ e \in Int
  BY SegmentFields
<1>2. WhereReported(front)
  BY DEF WhereReported
<1>3. /\ a \in Nat /\ e \in Nat /\ a < e /\ e <= MaxFrames /\ front.samples = Span(a, e)
      /\ End(front.samples) = e
  BY <1>1, <1>2, WhereFacts
<1>4. PICK x \in 0..a : /\ front.preRoll = Span(x, a)
                        /\ Roomy(front, faults) => x = PaddedStart(a)
  BY <1>2 DEF HasPreRoll
<1>5. captured \in Nat /\ captured <= length /\ length \in Nat /\ length <= MaxFrames
      /\ e <= captured /\ captured <= e + Ring
  BY <1>3, Types
<1>6. Post \in Nat /\ Ring \in Nat /\ MaxFrames \in Nat
  BY Constants
<1>7. f \in Nat /\ f <= e
  BY <1>3, <1>5, <1>6, RingFacts
<1>8. PaddedEnd(a, front.samples) = e + Post
  BY DEF PaddedEnd
<1>9. Ready(front) => captured >= e + Post
  BY <1>8 DEF Ready
<1>10. seg.audio = (front.preRoll \o front.samples)
                     \o Span(Clip(e, f, captured), Clip(e + Post, f, captured))
  BY <1>8 DEF Audio, GetRange
<1> HIDE DEF a, n, e, f
<1>11. Clip(e, f, captured) = e
  BY <1>3, <1>5, <1>7 DEF Clip
<1>12. y \in Nat /\ e <= y /\ y <= captured /\ (captured >= e + Post => y = e + Post)
       /\ (captured < e + Post => y = captured)
  BY <1>3, <1>5, <1>6, <1>7 DEF Clip
<1> HIDE DEF y
<1>13. seg.audio = Span(x, y)
  <2>1. /\ x \in 0..MaxFrames /\ a \in x..MaxFrames /\ e \in a..MaxFrames
        /\ e \in x..MaxFrames /\ y \in e..MaxFrames
    BY <1>3, <1>4, <1>5, <1>6, <1>12
  <2>2. Span(x, a) \o Span(a, e) = Span(x, e)
    BY <2>1, SpanConcat
  <2>3. Span(x, e) \o Span(e, y) = Span(x, y)
    BY <2>1, SpanConcat
  <2> QED
    BY <2>2, <2>3, <1>3, <1>4, <1>10, <1>11 DEF y
<1>14. y \in e..length
  BY <1>3, <1>5, <1>12
<1>15. y = Clip(e + Post, 0, length)
  BY <1>3, <1>5, <1>6, <1>9, <1>12 DEF Clip
<1>16. Roomy(seg, faults) => x = PaddedStart(a)
  BY <1>4 DEF Roomy, a
<1> QED
  BY <1>4, <1>8, <1>13, <1>14, <1>15, <1>16

\* A file has all of the padding that is in it.
LEMMA PaddingOfFile ==
    ASSUME TypeOK, NEW seg, NEW a \in Int, seg.start = a, seg.samples \in Seq(Frame),
           seg.samples # <<>>, End(seg.samples) <= length,
           seg.audio = FileAudio(a, seg.samples)
    PROVE  HasPadding(seg, faults, length)
<1> DEFINE n == Len(seg.samples)  e == a + n
           x == Clip(PaddedStart(a), 0, length)  y == Clip(e + Post, 0, length)
<1> SUFFICES ASSUME WhereReported(seg)
             PROVE  \E p \in 0..a, z \in e..length :
                       /\ seg.audio = Span(p, z)
                       /\ Roomy(seg, faults) =>
                             /\ p = PaddedStart(a)
                             /\ z = Clip(PaddedEnd(a, seg.samples), 0, length)
  BY DEF HasPadding
<1>1. n \in Nat /\ e \in Int
  OBVIOUS
<1>2. a \in Nat /\ e \in Nat /\ a < e /\ e <= MaxFrames /\ End(seg.samples) = e
  BY <1>1, WhereFacts
<1>3. length \in Nat /\ length <= MaxFrames /\ e <= length
  BY <1>2, Types
<1>4. Post \in Nat /\ Pre \in Nat /\ MaxFrames \in Nat
  BY Constants
<1>5. PaddedEnd(a, seg.samples) = e + Post
  BY DEF PaddedEnd
<1>6. PaddedStart(a) \in Nat /\ PaddedStart(a) <= a
  BY <1>2, <1>4 DEF PaddedStart
<1>7. seg.audio = IF Span(x, y) = <<>> THEN seg.samples ELSE Span(x, y)
  BY <1>5 DEF FileAudio
<1> HIDE DEF n, e
<1>8. x = PaddedStart(a)
  BY <1>2, <1>3, <1>6 DEF Clip
<1>9. y \in e..length
  BY <1>2, <1>3, <1>4 DEF Clip
<1> HIDE DEF x, y
<1>10. x \in 0..MaxFrames /\ y \in x..MaxFrames /\ y - x > 0
  BY <1>2, <1>3, <1>4, <1>6, <1>8, <1>9
<1>11. Len(Span(x, y)) > 0
  BY <1>10, SpanFacts
<1>12. seg.audio = Span(x, y)
  BY <1>7, <1>11
<1>13. x \in 0..a
  BY <1>2, <1>6, <1>8
<1> QED
  BY <1>5, <1>8, <1>9, <1>12, <1>13 DEF y


LEMMA NextPadding ==
    ASSUME TypeOK, TypeOK', ClockInv, ClockInv', ControlInv, OrderInv, LagInv,
           RingSuffices => RingInv, PaddingInv, [Next]_vars
    PROVE  PaddingInv'
<1> DEFINE Whole == mode = "file" \/ RingSuffices
<1>0. /\ pending \in Seq(Segment) /\ sent \in Seq(Sent) /\ mode' = mode /\ length' = length
      /\ captured \in Nat /\ captured <= length /\ length \in Nat
      /\ seen \in Nat /\ seen <= captured
      /\ faults' = 0 => faults = 0
      /\ seen' \in Nat /\ seen' <= captured'
  BY Types, Shapes DEF TypeOK
<1>1. \A seg : HasPreRoll(seg, faults) => HasPreRoll(seg, faults')
  BY <1>0 DEF HasPreRoll, Roomy
<1>2. \A seg : HasPadding(seg, faults, length) => HasPadding(seg, faults', length')
  BY <1>0 DEF HasPadding, Roomy
<1>3. /\ \A j \in DOMAIN pending : HasPreRoll(pending[j], faults')
      /\ Whole => \A i \in DOMAIN sent : HasPadding(sent[i], faults', length')
  BY <1>1, <1>2 DEF PaddingInv
<1>w. (mode' = "file" \/ RingSuffices) <=> Whole
  BY <1>0
<1> HIDE DEF Whole
<1> SUFFICES /\ \A j \in DOMAIN pending' : HasPreRoll(pending'[j], faults')
             /\ Whole => \A i \in DOMAIN sent' : HasPadding(sent'[i], faults', length')
  BY <1>w DEF PaddingInv
<1>4. CASE Same \/ Grow
  <2>1. pending' = pending /\ sent' = sent
    BY <1>4 DEF Same, Grow
  <2> QED
    BY <2>1, <1>3
<1>5. CASE Cut
  <2>1. PICK start \in Time, samples \in Seq(Frame) : CutOff(start, samples)
    BY <1>5 DEF Cut
  <2>2. OnSpeechSegment(start, samples) /\ samples # <<>> /\ captured' = captured
    BY <2>1 DEF CutOff
  <2>3. start \in Int
    BY Constants DEF Time
  <2>4. End(samples) <= captured
    <3>1. Below(samples, seen')
      BY <2>1, CutFacts
    <3>2. End(samples) <= seen' /\ End(samples) \in Nat
      BY <2>2, <3>1, <1>0, EndFacts
    <3> QED
      BY <2>2, <3>2, <1>0
  <2>5. ASSUME mode = "file", pending' = pending,
               NEW seg \in Sent, sent' = Append(sent, seg), seg.start = start,
               seg.samples = samples, seg.audio = FileAudio(start, samples)
        PROVE  /\ \A j \in DOMAIN pending' : HasPreRoll(pending'[j], faults')
               /\ Whole => \A i \in DOMAIN sent' : HasPadding(sent'[i], faults', length')
    <3>1. HasPadding(seg, faults, length)
      <4>1. End(seg.samples) \in Nat /\ End(seg.samples) <= length
        BY <2>2, <2>4, <2>5, <1>0, EndFacts
      <4> QED
        BY <2>2, <2>3, <2>5, <4>1, PaddingOfFile
    <3>2. HasPadding(seg, faults', length')
      BY <3>1, <1>2
    <3>3. \A i \in DOMAIN sent' :
             (i \in DOMAIN sent /\ sent'[i] = sent[i]) \/ sent'[i] = seg
      BY <2>5, <1>0, AppendAt
    <3> QED
      BY <3>2, <3>3, <2>5, <1>3
  <2>6. ASSUME sent' = sent,
               NEW seg \in Segment, pending' = Append(pending, seg), seg.start = start,
               seg.samples = samples, seg.preRoll = GetRange(PaddedStart(start), start)
        PROVE  /\ \A j \in DOMAIN pending' : HasPreRoll(pending'[j], faults')
               /\ Whole => \A i \in DOMAIN sent' : HasPadding(sent'[i], faults', length')
    <3>1. captured <= End(samples) + (faults + 1) * MaxChunk
      BY <2>1, CutLag
    <3>2. HasPreRoll(seg, faults)
      BY <2>2, <2>3, <2>4, <2>6, <3>1, PreRollOfCut
    <3>3. HasPreRoll(seg, faults')
      BY <3>2, <1>1
    <3>4. \A j \in DOMAIN pending' :
             (j \in DOMAIN pending /\ pending'[j] = pending[j]) \/ pending'[j] = seg
      BY <2>6, <1>0, AppendAt
    <3> QED
      BY <3>3, <3>4, <2>6, <1>3
  <2> QED
    BY <2>2, <2>5, <2>6, OnSpeechFacts
<1>6. CASE SendFront /\ (Ready(Head(pending)) \/ captured = length)
  <2> DEFINE front == Head(pending)
  <2>1. pending # <<>> /\ pending' = Tail(pending) /\ front \in Segment
    BY <1>6, SendFacts
  <2>2. PICK seg \in Sent : /\ sent' = Append(sent, seg)
                           /\ seg.start = front.start /\ seg.samples = front.samples
                           /\ seg.audio = Audio(front)
    BY <1>6, SendFacts
  <2>3. /\ front = pending[1] /\ 1 \in DOMAIN pending
        /\ \A j \in DOMAIN pending' :
              j + 1 \in DOMAIN pending /\ pending'[j] = pending[j + 1]
    BY <2>1, <1>0, TailAt
  <2>4. \A j \in DOMAIN pending' : HasPreRoll(pending'[j], faults')
    BY <2>3, <1>3
  <2>5. Whole => HasPadding(seg, faults, length)
    <3> SUFFICES ASSUME Whole PROVE HasPadding(seg, faults, length)
      OBVIOUS
    <3>1. front.samples \in Seq(Frame) /\ front.samples # <<>> /\ Below(front.samples, seen)
      BY <2>1, <2>3, SegmentFields DEF OrderInv, Rows
    <3>2. End(front.samples) \in Nat /\ End(front.samples) <= seen
      BY <3>1, <1>0, EndFacts
    <3>3. End(front.samples) <= captured
      BY <3>2, <1>0
    <3>4. captured <= End(front.samples) + Ring
      <4>1. mode # "file"
        BY <2>1 DEF ControlInv
      <4>2. RingInv
        BY <4>1 DEF Whole
      <4> QED
        BY <4>2, <2>3 DEF RingInv
    <3>5. HasPreRoll(front, faults)
      BY <2>3 DEF PaddingInv
    <3>6. Ready(front) \/ captured = length
      BY <1>6
    <3> QED
      BY <2>1, <2>2, <3>1, <3>3, <3>4, <3>5, <3>6, PaddingOfSent
  <2>6. \A i \in DOMAIN sent' :
           (i \in DOMAIN sent /\ sent'[i] = sent[i]) \/ sent'[i] = seg
    BY <2>2, <1>0, AppendAt
  <2>7. Whole => \A i \in DOMAIN sent' : HasPadding(sent'[i], faults', length')
    BY <2>5, <2>6, <1>2, <1>3
  <2> QED
    BY <2>4, <2>7
<1> QED
  BY <1>4, <1>5, <1>6, Shapes



-----------------------------------------------------------------------------
(* The invariant *)

LEMMA SegmentationStart == Init => SegmentationInv
<1> SUFFICES ASSUME Init PROVE SegmentationInv
  OBVIOUS
<1>1. /\ captured = 0 /\ seen = 0 /\ faults = 0 /\ inSpeech = FALSE /\ pc = "append"
      /\ buffer = <<>> /\ pending = <<>> /\ sent = <<>> /\ spoken = {} /\ speechStart = 0
  BY DEF Init
<1>2. DOMAIN sent = {} /\ DOMAIN pending = {} /\ Len(buffer) = 0
  BY <1>1
<1>3. TypeOK /\ ClockInv
  BY InitType
<1>4. ControlInv
  BY <1>1 DEF ControlInv
<1>5. OrderInv
  BY <1>2 DEF OrderInv, Rows, InOrder, Below
<1>6. KeptInv
  BY <1>1, <1>2 DEF KeptInv
<1>7. StartInv
  BY <1>1, <1>2 DEF StartInv
<1>8. DelayBounded
  BY <1>2 DEF DelayBounded
<1>9. LagInv
  BY <1>1, Constants DEF LagInv
<1>10. RingInv
  BY <1>2 DEF RingInv
<1>11. PaddingInv
  BY <1>2 DEF PaddingInv
<1> QED
  BY <1>3, <1>4, <1>5, <1>6, <1>7, <1>8, <1>9, <1>10, <1>11 DEF SegmentationInv

LEMMA SegmentationStep == SegmentationInv /\ [Next]_vars => SegmentationInv'
<1> SUFFICES ASSUME SegmentationInv, [Next]_vars PROVE SegmentationInv'
  OBVIOUS
<1>1. /\ TypeOK /\ ClockInv /\ ControlInv /\ OrderInv /\ KeptInv /\ StartInv
      /\ DelayBounded /\ LagInv /\ PaddingInv /\ (RingSuffices => RingInv)
  BY DEF SegmentationInv
<1>2. TypeOK' /\ ClockInv'
  BY <1>1, NextType
<1>3. ControlInv'
  BY <1>1, <1>2, NextControl
<1>4. OrderInv'
  BY <1>1, <1>2, NextOrder
<1>5. KeptInv'
  BY <1>1, <1>2, NextKept
<1>6. StartInv'
  BY <1>1, <1>2, NextStart
<1>7. DelayBounded'
  BY <1>1, NextDelay
<1>8. LagInv'
  BY <1>1, <1>2, NextLag
<1>9. RingSuffices => RingInv'
  BY <1>1, <1>2, NextRing
<1>10. PaddingInv'
  BY <1>1, <1>2, NextPadding
<1>11. RingSuffices' <=> RingSuffices
  BY DEF RingSuffices
<1> QED
  BY <1>2, <1>3, <1>4, <1>5, <1>6, <1>7, <1>8, <1>9, <1>10, <1>11 DEF SegmentationInv

LEMMA SegmentationInvariance == Spec => []SegmentationInv
BY SegmentationStart, SegmentationStep, PTL DEF Spec

\* A segment that is where its times say is sent as one span of the stream
\* that holds it.
LEMMA PaddedFacts ==
    ASSUME TypeOK, NEW seg \in Sent, seg.samples # <<>>,
           HasPadding(seg, faults, length), WhereReported(seg)
    PROVE  \E x \in Nat, y \in Nat :
              /\ x < y /\ seg.audio = Span(x, y) /\ ToSet(seg.audio) = x..(y - 1)
              /\ seg.audio # <<>> /\ Len(seg.audio) = y - x
              /\ \A j \in 1..(y - x) : seg.audio[j] = x + j - 1
              /\ ToSet(seg.samples) \subseteq ToSet(seg.audio)
              /\ Roomy(seg, faults) =>
                    /\ x = PaddedStart(seg.start)
                    /\ y = Clip(PaddedEnd(seg.start, seg.samples), 0, length)
<1> DEFINE a == seg.start  n == Len(seg.samples)  e == a + n
<1>1. a \in Int /\ seg.samples \in Seq(Frame) /\ n \in Nat /\ e \in Int
  BY SegmentFields
<1>2. /\ a \in Nat /\ e \in Nat /\ a < e /\ e <= MaxFrames
      /\ ToSet(seg.samples) = a..(e - 1)
  BY <1>1, WhereFacts
<1>3. PICK x \in 0..a, y \in e..length :
         /\ seg.audio = Span(x, y)
         /\ Roomy(seg, faults) =>
               /\ x = PaddedStart(seg.start)
               /\ y = Clip(PaddedEnd(seg.start, seg.samples), 0, length)
  BY DEF HasPadding
<1> HIDE DEF a, n, e
<1>4. length \in Nat /\ length <= MaxFrames /\ MaxFrames \in Nat
  BY Types, Constants
<1>5. x \in Nat /\ y \in Nat /\ x < y /\ x <= a /\ e <= y
  BY <1>2, <1>3, <1>4
<1>6. x \in 0..MaxFrames /\ y \in x..MaxFrames
  BY <1>3, <1>4, <1>5
<1>7. /\ Len(Span(x, y)) = y - x /\ ToSet(Span(x, y)) = x..(y - 1)
      /\ \A j \in 1..(y - x) : Span(x, y)[j] = x + j - 1
  BY <1>6, SpanFacts
<1>8. Span(x, y) # <<>>
  BY <1>5, <1>7
<1>9. ToSet(seg.samples) \subseteq x..(y - 1)
  BY <1>2, <1>5
<1> QED
  BY <1>3, <1>5, <1>7, <1>8, <1>9

-----------------------------------------------------------------------------
(* What is promised *)

\* In every state the values are what the code's types and limits allow.
THEOREM SegmentationTypeCorrect == Spec => []TypeOK
<1>1. SegmentationInv => TypeOK
  BY DEF SegmentationInv
<1> QED
  BY <1>1, SegmentationInvariance, PTL

\* No cut, end of an utterance, failed inference or flush loses a frame of
\* speech: it is sent, waits, or is in the buffer.
THEOREM SpeechIsKept == Spec => []SpeechKept
<1>1. SegmentationInv => SpeechKept
  <2> SUFFICES ASSUME SegmentationInv,
                      mode = "file" => \A i \in DOMAIN sent : WhereReported(sent[i])
               PROVE  /\ spoken \subseteq FramesOf(sent) \cup CoreFrames(pending) \cup ToSet(buffer)
                      /\ pc = "ended" /\ mode # "live" => spoken \subseteq FramesOf(sent)
    BY DEF SpeechKept
  <2>1. TypeOK /\ ControlInv /\ OrderInv /\ KeptInv /\ PaddingInv
    BY DEF SegmentationInv
  <2>2. \A i \in DOMAIN sent : ToSet(sent[i].samples) \subseteq ToSet(sent[i].audio)
    <3>1. CASE mode # "file"
      BY <2>1, <3>1 DEF KeptInv
    <3>2. CASE mode = "file"
      <4> SUFFICES ASSUME NEW i \in DOMAIN sent
                   PROVE  ToSet(sent[i].samples) \subseteq ToSet(sent[i].audio)
        OBVIOUS
      <4>1. /\ HasPadding(sent[i], faults, length) /\ WhereReported(sent[i])
            /\ sent[i] \in Sent /\ sent[i].samples # <<>>
        BY <2>1, <3>2, Rowed DEF PaddingInv, OrderInv, Rows
      <4> QED
        BY <2>1, <4>1, PaddedFacts
    <3> QED
      BY <3>1, <3>2
  <2>3. CoreFrames(sent) \subseteq FramesOf(sent)
    BY <2>2 DEF CoreFrames, FramesOf
  <2>4. spoken \subseteq CoreFrames(sent) \cup CoreFrames(pending) \cup ToSet(buffer)
    BY <2>1 DEF KeptInv
  <2>5. ASSUME pc = "ended", mode # "live" PROVE spoken \subseteq FramesOf(sent)
    <3>1. buffer = <<>> /\ pending = <<>>
      BY <2>1, <2>5 DEF ControlInv
    <3>2. CoreFrames(pending) = {} /\ ToSet(buffer) = {}
      BY <3>1 DEF CoreFrames, ToSet
    <3> QED
      BY <2>3, <2>4, <3>2
  <2> QED
    BY <2>3, <2>4, <2>5
<1> QED
  BY <1>1, SegmentationInvariance, PTL

\* Between two chunks no finished segment is held back for longer than its
\* post-roll and the drift of the detector's clock.
THEOREM DelayIsBounded == Spec => []DelayBounded
<1>1. SegmentationInv => DelayBounded
  BY DEF SegmentationInv
<1> QED
  BY <1>1, SegmentationInvariance, PTL


\* The segments one after the other: sent, waiting, in the buffer.
LEMMA CoresAreInOrder ==
    ASSUME TypeOK, OrderInv
    PROVE  CoresInOrder
<1> DEFINE A == CoresOf(sent)  B == CoresOf(pending)  C == <<buffer>>
           m == Len(sent)  n == Len(pending)
           cores == (A \o B) \o C
<1>0. sent \in Seq(Sent) /\ pending \in Seq(Segment) /\ buffer \in Seq(Frame)
  BY Types
<1>1. m \in Nat /\ n \in Nat /\ DOMAIN sent = 1..m /\ DOMAIN pending = 1..n
  BY <1>0
<1>2. /\ A = [i \in 1..m |-> sent[i].samples] /\ B = [i \in 1..n |-> pending[i].samples]
  BY <1>1 DEF CoresOf
<1>3. /\ \A i \in 1..m : sent[i].samples \in Seq(Frame)
      /\ \A i \in 1..n : pending[i].samples \in Seq(Frame)
  BY <1>1, Rowed
<1> HIDE DEF m, n
<1>4. /\ A \in Seq(Seq(Frame)) /\ Len(A) = m /\ \A i \in 1..m : A[i] = sent[i].samples
  BY <1>1, <1>2, <1>3
<1>5. /\ B \in Seq(Seq(Frame)) /\ Len(B) = n /\ \A i \in 1..n : B[i] = pending[i].samples
  BY <1>1, <1>2, <1>3
<1>6. C \in Seq(Seq(Frame)) /\ Len(C) = 1 /\ C[1] = buffer
  BY <1>0
<1> HIDE DEF A, B, C
<1>7. /\ A \o B \in Seq(Seq(Frame)) /\ Len(A \o B) = m + n
      /\ \A i \in 1..(m + n) : (A \o B)[i] = IF i <= m THEN A[i] ELSE B[i - m]
  BY <1>1, <1>4, <1>5, ConcatProperties
<1>8. /\ cores \in Seq(Seq(Frame)) /\ Len(cores) = m + n + 1
      /\ \A i \in 1..(m + n + 1) :
            cores[i] = IF i <= m + n THEN (A \o B)[i] ELSE C[i - (m + n)]
  BY <1>1, <1>6, <1>7, ConcatProperties
<1>9. DOMAIN cores = 1..(m + n + 1) /\ \A i \in DOMAIN cores : cores[i] \in Seq(Frame)
  BY <1>8
<1> HIDE DEF cores
<1>10. ASSUME NEW i \in DOMAIN cores
       PROVE  \/ i \in 1..m /\ cores[i] = sent[i].samples
              \/ i > m /\ i - m \in 1..n /\ cores[i] = pending[i - m].samples
              \/ i = m + n + 1 /\ cores[i] = buffer
  <2>0. i \in Nat /\ i >= 1 /\ i <= m + n + 1
    BY <1>1, <1>9
  <2>1. CASE i <= m
    <3>1. i \in 1..m /\ i \in 1..(m + n) /\ i <= m + n /\ i \in 1..(m + n + 1)
      BY <2>0, <2>1, <1>1
    <3> QED
      BY <3>1, <2>1, <1>4, <1>7, <1>8
  <2>2. CASE i > m /\ i <= m + n
    <3>1. i - m \in 1..n /\ i \in 1..(m + n) /\ ~(i <= m) /\ i \in 1..(m + n + 1)
      BY <2>0, <2>2, <1>1
    <3> QED
      BY <3>1, <2>2, <1>5, <1>7, <1>8
  <2>3. CASE i = m + n + 1
    <3>1. i \in 1..(m + n + 1) /\ ~(i <= m + n) /\ i - (m + n) = 1
      BY <2>3, <1>1
    <3> QED
      BY <3>1, <2>3, <1>6, <1>8
  <2> QED
    BY <2>0, <2>1, <2>2, <2>3, <1>1
<1>11. ASSUME NEW i \in DOMAIN cores PROVE InOrder(cores[i])
  <2>1. CASE i \in 1..m /\ cores[i] = sent[i].samples
    BY <2>1, <1>1 DEF OrderInv, Rows
  <2>2. CASE i - m \in 1..n /\ cores[i] = pending[i - m].samples
    BY <2>2, <1>1 DEF OrderInv, Rows
  <2>3. CASE cores[i] = buffer
    BY <2>3 DEF OrderInv
  <2> QED
    BY <1>10, <2>1, <2>2, <2>3
<1>12. ASSUME NEW i \in DOMAIN cores, NEW j \in DOMAIN cores, i < j
       PROVE  Before(cores[i], cores[j])
  <2>0. i \in Nat /\ j \in Nat /\ j <= m + n + 1
    BY <1>1, <1>9
  <2>1. CASE i \in 1..m /\ cores[i] = sent[i].samples
    <3>1. CASE j \in 1..m /\ cores[j] = sent[j].samples
      BY <1>12, <2>1, <3>1, <1>1 DEF OrderInv, Rows
    <3>2. CASE j - m \in 1..n /\ cores[j] = pending[j - m].samples
      BY <2>1, <3>2, <1>1 DEF OrderInv
    <3>3. CASE cores[j] = buffer
      BY <2>1, <3>3, <1>1 DEF OrderInv
    <3> QED
      BY <1>10, <3>1, <3>2, <3>3
  <2>2. CASE i > m /\ i - m \in 1..n /\ cores[i] = pending[i - m].samples
    <3>1. ~(j \in 1..m)
      BY <1>12, <2>0, <2>2, <1>1
    <3>2. CASE j - m \in 1..n /\ cores[j] = pending[j - m].samples
      <4>1. i - m < j - m
        BY <1>12, <2>0, <1>1
      <4> QED
        BY <2>2, <3>2, <4>1, <1>1 DEF OrderInv, Rows
    <3>3. CASE cores[j] = buffer
      BY <2>2, <3>3, <1>1 DEF OrderInv
    <3> QED
      BY <1>10, <3>1, <3>2, <3>3
  <2>3. ~(i = m + n + 1)
    BY <1>12, <2>0, <1>1
  <2> QED
    BY <1>10, <2>1, <2>2, <2>3
<1>13. ASSUME NEW i \in DOMAIN cores, NEW j \in DOMAIN cores,
              NEW k \in DOMAIN cores[i], NEW l \in DOMAIN cores[j],
              i < j \/ (i = j /\ k < l)
       PROVE  cores[i][k] < cores[j][l]
  <2>1. k \in 1..Len(cores[i]) /\ l \in 1..Len(cores[j])
    BY <1>9
  <2>2. CASE i < j
    BY <2>1, <2>2, <1>12 DEF Before
  <2>3. CASE i = j /\ k < l
    BY <2>1, <2>3, <1>11 DEF InOrder
  <2> QED
    BY <1>13, <2>2, <2>3
<1> QED
  BY <1>13 DEF CoresInOrder, cores, A, B, C

\* What leaves the PC is the stream of speech, cut but not rearranged: the
\* segments go forwards, and the audio of each that is where its times say is
\* one piece of the stream around it.
THEOREM StreamIsInOrder ==
    ASSUME RingSuffices
    PROVE  Spec => []StreamInOrder
<1>1. SegmentationInv => StreamInOrder
  <2> SUFFICES ASSUME SegmentationInv PROVE StreamInOrder
    OBVIOUS
  <2>1. TypeOK /\ OrderInv /\ PaddingInv
    BY DEF SegmentationInv
  <2>2. CoresInOrder
    BY <2>1, CoresAreInOrder
  <2>3. ASSUME NEW i \in DOMAIN sent, WhereReported(sent[i])
        PROVE  /\ \A j \in 1..(Len(sent[i].audio) - 1) :
                     sent[i].audio[j + 1] = sent[i].audio[j] + 1
               /\ ToSet(sent[i].samples) \subseteq ToSet(sent[i].audio)
    <3>1. /\ HasPadding(sent[i], faults, length)
          /\ sent[i] \in Sent /\ sent[i].samples # <<>>
      BY <2>1, Rowed DEF PaddingInv, OrderInv, Rows
    <3> DEFINE audio == sent[i].audio
    <3>2. PICK x \in Nat, y \in Nat :
             /\ x < y /\ Len(audio) = y - x
             /\ \A j \in 1..(y - x) : audio[j] = x + j - 1
             /\ ToSet(sent[i].samples) \subseteq ToSet(audio)
      BY <2>1, <2>3, <3>1, PaddedFacts
    <3> HIDE DEF audio
    <3>3. ASSUME NEW j \in 1..(Len(audio) - 1) PROVE audio[j + 1] = audio[j] + 1
      <4>1. j \in 1..(y - x) /\ j + 1 \in 1..(y - x) /\ j \in Nat
        BY <3>2
      <4>2. audio[j] = x + j - 1 /\ audio[j + 1] = x + (j + 1) - 1
        BY <3>2, <4>1
      <4> QED
        BY <4>1, <4>2
    <3> QED
      BY <3>2, <3>3 DEF audio
  <2>4. SentConsecutive
    BY <2>3 DEF SentConsecutive
  <2> QED
    BY <2>2, <2>4 DEF StreamInOrder
<1> QED
  BY <1>1, SegmentationInvariance, PTL

\* As long as no inference failed, a segment that is where its times say and
\* left room in the ring is sent with its whole padding.
THEOREM PaddingIsFull ==
    ASSUME RingSuffices
    PROVE  Spec => []FullPadding
<1>1. SegmentationInv => FullPadding
  <2> SUFFICES ASSUME SegmentationInv, NEW i \in DOMAIN sent,
                      faults = 0, WhereReported(sent[i]),
                      Len(sent[i].samples) + MaxChunk + Pre <= Ring
               PROVE  /\ Head(sent[i].audio) = PaddedStart(sent[i].start)
                      /\ Last(sent[i].audio)
                           = Clip(PaddedEnd(sent[i].start, sent[i].samples), 0, length) - 1
    BY DEF FullPadding
  <2>1. TypeOK /\ OrderInv /\ PaddingInv
    BY DEF SegmentationInv
  <2>2. /\ HasPadding(sent[i], faults, length)
        /\ sent[i] \in Sent /\ sent[i].samples # <<>> /\ sent[i].audio \in Seq(Frame)
    BY <2>1, Rowed, SegmentFields DEF PaddingInv, OrderInv, Rows
  <2>3. Roomy(sent[i], faults)
    BY DEF Roomy
  <2> DEFINE audio == sent[i].audio
  <2>4. PICK x \in Nat, y \in Nat :
           /\ x < y /\ Len(audio) = y - x /\ audio # <<>>
           /\ \A j \in 1..(y - x) : audio[j] = x + j - 1
           /\ x = PaddedStart(sent[i].start)
           /\ y = Clip(PaddedEnd(sent[i].start, sent[i].samples), 0, length)
    BY <2>1, <2>2, <2>3, PaddedFacts
  <2>5. Head(audio) = audio[1] /\ Last(audio) = audio[Len(audio)]
    BY <2>2, <2>4 DEF Last
  <2> HIDE DEF audio
  <2>6. 1 \in 1..(y - x) /\ y - x \in 1..(y - x)
    BY <2>4
  <2>7. audio[1] = x + 1 - 1 /\ audio[y - x] = x + (y - x) - 1
    BY <2>4, <2>6
  <2>8. Head(audio) = x /\ Last(audio) = y - 1
    BY <2>4, <2>5, <2>7
  <2> QED
    BY <2>4, <2>8 DEF audio
<1> QED
  BY <1>1, SegmentationInvariance, PTL

=================================================================================
