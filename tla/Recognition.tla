------------------------------ MODULE Recognition ------------------------------
(***************************************************************************)
(* SttEngine::recognize (stt_engine.cpp): one call per utterance, always   *)
(* of the worker's thread, answered by the backend that init left.  The    *)
(* backends that are this program's own code are in CtcDecoding and        *)
(* Qwen3Decoding; the others hand the utterance to sherpa-onnx.            *)
(*                                                                         *)
(* For sherpa's recognizers a text is a mark for each feature frame that   *)
(* was decoded.                                                            *)
(***************************************************************************)
EXTENDS CtcDecoding, Qwen3Decoding, QnnSession

CONSTANTS Utterances,   \* what can be said
          TokenFiles,   \* tokens.txt of the packs
          ChunkFrames,  \* frames of the 1600 samples that are fed at once
          Step,         \* frames the online model decodes at a time
          PerChunk, AtEnd \* how often at most, after a chunk and at the end

ASSUME RecognitionAssumption ==
    /\ {ChunkFrames, Step, PerChunk, AtEnd} \subseteq Nat \ {0}
    /\ PerChunk * Step >= ChunkFrames   \* decoding keeps up with the chunks
    /\ \A u \in Utterances : u.frames \in Nat /\ u.best \in Seq(Nat)
                              /\ Len(u.best) = Frames(u.frames)
    /\ TokenFiles \subseteq Seq([sym : STRING, id : Nat])

VARIABLES backend, lines, heard, text

vars == <<backend, lines, heard, text, session, qwen3Vars>>

FireRed == {"session", "library"}   \* the ones that decode with tokens.txt
Own == FireRed \cup {"qwen3"}
Offline == {"sense_voice", "paraformer_qnn", "paraformer_xnnpack"}
Cpu == {"fire_red_ctc", "qwen3_cpu"}

Nothing == [frames |-> 0, best |-> <<>>]
Marks(n) == [i \in 1..n |-> "frame"]
Answer(t) == [success |-> TRUE, text |-> t]

Init ==
    /\ backend \in Own \cup Offline \cup Cpu \cup {"online"}
    /\ lines \in IF backend \in FireRed THEN TokenFiles ELSE {<<>>}
    /\ heard = Nothing /\ text = Failure
    /\ session = NewSession(backend)
    /\ Qwen3Init

(* The utterance and what recognize returns for it; it may fail at several  *)
(* places, which are all the same to the caller.  These backends keep       *)
(* nothing from one call to the next: a run is one call.                    *)
Returns(u, answer) ==
    /\ session.phase = "open" /\ heard = Nothing
    /\ heard' = u
    /\ text' \in {answer, Failure}
    /\ UNCHANGED <<backend, lines, session, qwen3Vars>>

(* FireRedCtcQnn, with one of its two backends. *)
FireRedRecognize(u) ==
    /\ backend \in FireRed
    /\ Returns(u, CASE u.frames = 0 -> Failure
                    [] u.frames > 0 /\ backend = "session" -> Answer(SessionText(u, lines))
                    [] u.frames > 0 /\ backend = "library" -> Answer(LibraryText(u, lines)))

(* The whole utterance at once. *)
OfflineRecognize(u) == backend \in Offline /\ Returns(u, Answer(Marks(u.frames)))
CpuRecognize(u) == backend \in Cpu /\ Returns(u, Answer(Marks(u.frames)))

-----------------------------------------------------------------------------
(* The online recognizer: in chunks, with some decoding after each. *)

Drained(n, times) == n - Step * Min({times, n \div Step})

OnlineDecoded(n) ==
    LET Fed(waiting, chunk) == Drained(waiting + chunk, PerChunk)
        chunks == [i \in 1..(n \div ChunkFrames) |-> ChunkFrames]
        waiting == FoldLeft(Fed, 0, Append(chunks, n % ChunkFrames))
    IN  n - Drained(waiting, AtEnd)

OnlineRecognize(u) == backend = "online" /\ Returns(u, Answer(Marks(OnlineDecoded(u.frames))))

-----------------------------------------------------------------------------
Qwen3Recognize ==
    /\ backend = "qwen3" /\ session.phase = "open"
    /\ Qwen3Next({u.frames : u \in Utterances})
    /\ UNCHANGED <<backend, lines, heard, text, session>>

-----------------------------------------------------------------------------
(* The backend is made ready before, and deleted when the worker is done.   *)
OpenOrClose ==
    /\ backend \in Own /\ phase = "idle"
    /\ SessionNext(backend)
    /\ UNCHANGED <<backend, lines, heard, text, qwen3Vars>>

(* The next backend, when one has failed and was deleted. *)
FallBack ==
    /\ session.phase = "discarded"
    /\ \/ backend = "library" /\ backend' = "session"
       \/ backend = "qwen3" /\ backend' = "qwen3_cpu"
    /\ session' = NewSession(backend')
    /\ UNCHANGED <<lines, heard, text, qwen3Vars>>

Next ==
    \/ OpenOrClose \/ FallBack
    \/ \E u \in Utterances : FireRedRecognize(u) \/ OfflineRecognize(u)
                               \/ CpuRecognize(u) \/ OnlineRecognize(u)
    \/ Qwen3Recognize

Spec == Init /\ [][Next]_vars

-----------------------------------------------------------------------------
RecognitionTypeOK ==
    /\ step \in 0..(MaxSteps + MaxNew) /\ phase \in {"idle", "prefill", "generate"}
    /\ Len(out) <= MaxNew /\ Len(prompt) <= MaxTotal
    /\ DOMAIN cache = 0..(MaxSteps - 1)

(* The text is what was said, whatever padding a backend adds and in        *)
(* whatever order tokens.txt lists the tokens: each symbol once for each    *)
(* run of its token, and nothing that was heard in the padding.  Every      *)
(* token heard has its line in tokens.txt; the library also needs the lines *)
(* in order and an utterance that fits its input.  The online recognizer    *)
(* leaves less than one step.                                               *)
TextIsWhatWasHeard ==
    text.success =>
        /\ backend = "session" /\ Complete(lines, heard) => text.text = SaidText(heard, lines)
        /\ backend = "library" /\ Complete(lines, heard) /\ Numbered(lines)
             /\ Frames(heard.frames) <= StaticOut => text.text = SaidText(heard, lines)
        /\ backend = "online" => heard.frames - Len(text.text) < Step
=============================================================================
