----------------------------- MODULE Qwen3Decoding -----------------------------
(***************************************************************************)
(* The autoregressive recognition of Qwen3 (stt_engine.cpp with            *)
(* qwen3_qnn_backend.cpp): a prompt with one pad per frame of audio is fed *)
(* to the decoder token by token, then the decoder's own answers are.  The *)
(* decoder sees the keys and values of the last W tokens, which the        *)
(* program keeps and cuts out of a cache of MaxSteps positions.            *)
(*                                                                         *)
(* A token is of a kind.  The keys and values of all layers and heads are  *)
(* one entry of the cache: the recognition and the number of the step that *)
(* computed them; a zero entry is Zero.  What the graph answers is up to   *)
(* the environment.                                                        *)
(***************************************************************************)
EXTENDS Integers, SequencesExt

CONSTANTS W,           \* the decoder's window
          MaxSteps,    \* MAX_DECODE_STEPS
          MaxTotal,    \* kQwen3MaxTotalLen
          MaxNew,      \* kQwen3MaxNewTokens
          BeforeLen, AfterLen, \* tokens of the prompt around the audio
          Capacity,    \* frames of audio the decoder takes, 0 for unknown
          ChunkSize,   \* kQwen3ChunkSize
          PrefixWindow, \* where cleanQwen3GeneratedIds looks for <asr_text>
          MaxRequests  \* bound: recognitions of a run

ASSUME Qwen3Assumption ==
    /\ {W, MaxSteps, MaxTotal, MaxNew, BeforeLen, AfterLen, ChunkSize,
        MaxRequests} \subseteq Nat \ {0}
    /\ Capacity \in Nat /\ PrefixWindow \in Nat
    /\ MaxTotal <= MaxSteps              \* two constants, in two files
    /\ BeforeLen + AfterLen < MaxTotal   \* with no hotwords and no language

VARIABLES cache,   \* fullKeyCache, fullValueCache
          step,    \* currentStep
          phase,   \* idle, prefill or generate
          request, \* counts the recognitions
          prompt,
          frames,  \* frames of audio that are given to the decoder
          at,      \* the prompt's index of the token that is fed next
          token,   \* currentToken, in the generation
          out,     \* localGenerated
          result,  \* what the last recognition returned
          past,    \* history: the tokens of this recognition that were decoded
          window,  \* history: what the decoder saw in the last step
          failed   \* history: a step of this recognition has failed

qwen3Vars == <<cache, step, phase, request, prompt, frames, at, token, out, result, past,
               window, failed>>

Zero == [request |-> 0, nth |-> 0]
Word == {"word", "lang", "asr"}
Stop == {"eos", "stop"}

-----------------------------------------------------------------------------
(* The prompt *)

Half(n) == (n + 1) \div 2
AfterCnn(n) == Half(Half(Half(n)))

(* featToAudioTokensLen *)
AudioTokens(featFrames) ==
    LET chunks == (featFrames + ChunkSize - 1) \div ChunkSize
    IN  (chunks - 1) * AfterCnn(ChunkSize) + AfterCnn(featFrames - (chunks - 1) * ChunkSize)

(* Frames the front end gives (external): the last chunk may be padded. *)
ConvFrames(featFrames) ==
    {AudioTokens(featFrames),
     ((featFrames + ChunkSize - 1) \div ChunkSize) * AfterCnn(ChunkSize)}

(* validAudioTokens *)
ValidTokens(featFrames, conv) ==
    Min({AudioTokens(featFrames), conv, IF Capacity > 0 THEN Capacity ELSE conv})

PromptOf(pads) ==
    [i \in 1..BeforeLen |-> "before"] \o [i \in 1..pads |-> "audio"]
        \o [i \in 1..AfterLen |-> "after"]

(* buildQwen3Prompt leaves out pads when the prompt would be too long. *)
Pads(n) ==
    IF BeforeLen + n + AfterLen > MaxTotal THEN MaxTotal - BeforeLen - AfterLen ELSE n

Untrimmed(n) == n    \* mutant: the audio is not cut where the prompt is

(* ... and recognize cuts the audio down to the pads that are left. *)
Trimmed(n) == IF Pads(n) < n /\ Pads(n) > 0 THEN Pads(n) ELSE n

(* Mutant: the cache is cleared, the position stays. *)
ResetCacheOnly == UNCHANGED step /\ cache' = [i \in 0..(MaxSteps - 1) |-> Zero]

(* resetState: nothing of an earlier recognition is left. *)
ResetState == step' = 0 /\ cache' = [i \in 0..(MaxSteps - 1) |-> Zero]

Failure == [success |-> FALSE, text |-> <<>>]

(* After init: the three steps of runDecoderSmokeTest are in the cache, or  *)
(* some of them.                                                            *)
Qwen3Init ==
    /\ step \in 0..3 /\ cache = [i \in 0..(MaxSteps - 1) |->
                              IF i < step THEN [request |-> 0, nth |-> i + 1] ELSE Zero]
    /\ phase = "idle" /\ request = 0 /\ prompt = <<>> /\ frames = 0 /\ at = 1
    /\ token = "none" /\ out = <<>> /\ result = Failure
    /\ past = <<>> /\ window = <<>> /\ failed = FALSE

(* Too little audio, or the front end or the encoder fails. *)
Qwen3Fails ==
    /\ phase = "idle" /\ result' = Failure
    /\ UNCHANGED <<cache, step, phase, request, prompt, frames, at, token, out, past, window, failed>>

(* recognize up to generateQwen3Text. *)
Qwen3Begin(featFrames) ==
    /\ phase = "idle" /\ request < MaxRequests
    /\ featFrames >= 2
    /\ \E conv \in ConvFrames(featFrames) :
         LET n == ValidTokens(featFrames, conv)
         IN  /\ prompt' = PromptOf(Pads(n))
             /\ frames' = Trimmed(n)
    /\ ResetState
    /\ phase' = "prefill" /\ request' = request + 1
    /\ at' = 1 /\ token' = "none" /\ out' = <<>>
    /\ past' = <<>> /\ window' = <<>> /\ failed' = FALSE
    /\ UNCHANGED result

-----------------------------------------------------------------------------
(* decodeStep *)

WindowStart == IF step > W THEN step - W ELSE 0

(* prepareWindow: the positions before this one, W at most; what is past    *)
(* the cache's end is zero.                                                 *)
PrepareWindow ==
    [i \in 1..(step - WindowStart) |->
        IF WindowStart + i - 1 < MaxSteps THEN cache[WindowStart + i - 1] ELSE Zero]

(* The graph was executed: the new keys and values are kept, if there is    *)
(* room for them.                                                           *)
Decoded(t) ==
    /\ window' = PrepareWindow
    /\ past' = Append(past, t)
    /\ cache' = IF step < MaxSteps
                THEN [cache EXCEPT ![step] = [request |-> request, nth |-> Len(past) + 1]] ELSE cache
    /\ step' = step + 1
    /\ UNCHANGED failed

NotDecoded == failed' = TRUE /\ UNCHANGED <<window, past, cache, step>>

(* The prompt but for its last token; when a step fails the rest is left    *)
(* out, and the token it failed for is the first to answer.                 *)
Prefill ==
    /\ phase = "prefill" /\ at < Len(prompt)
    /\ \/ Decoded(prompt[at]) /\ at' = at + 1 /\ UNCHANGED <<phase, token>>
       \/ NotDecoded /\ phase' = "generate" /\ token' = prompt[at] /\ UNCHANGED at
    /\ UNCHANGED <<request, prompt, frames, out, result>>

(* Mutant: the last token of the prompt is dropped. *)
PrefilledShort ==
    /\ phase = "prefill" /\ at = Len(prompt)
    /\ phase' = "generate" /\ token' = prompt[1]
    /\ UNCHANGED <<cache, step, request, prompt, frames, at, out, result, past, window, failed>>

Prefilled ==
    /\ phase = "prefill" /\ at = Len(prompt)
    /\ phase' = "generate" /\ token' = prompt[at]
    /\ UNCHANGED <<cache, step, request, prompt, frames, at, out, result, past, window, failed>>

-----------------------------------------------------------------------------
(* generateQwen3Text *)

CanGenerate == Len(out) < MaxNew /\ Len(prompt) + Len(out) < MaxTotal

(* What can be selected: a first token that would be the end of the         *)
(* sequence is replaced by the next best.                                   *)
Answers == IF out = <<>> THEN Word \cup {"stop"} ELSE Word \cup {"stop", "eos"}

Generate ==
    /\ phase = "generate" /\ CanGenerate
    /\ Decoded(token)
    /\ \E t \in Answers \ Stop : token' = t /\ out' = Append(out, t)
    /\ UNCHANGED <<phase, request, prompt, frames, at, result>>

(* cleanQwen3GeneratedIds: "language ...<asr_text>" at the front is cut. *)
Cleaned ==
    LET k == SelectInSeq(SubSeq(out, 1, Min({Len(out), PrefixWindow})),
                         LAMBDA t : t = "asr")
    IN  IF k > 1 /\ out[1] = "lang" THEN SubSeq(out, k + 1, Len(out)) ELSE out

(* A stop token, one of the limits or a failed step ends the generation; in *)
(* each case it is a success.                                               *)
GenerateEnds ==
    /\ phase = "generate"
    /\ \/ CanGenerate /\ Decoded(token)
       \/ CanGenerate /\ NotDecoded
       \/ ~CanGenerate /\ UNCHANGED <<cache, step, past, window, failed>>
    /\ phase' = "idle"
    /\ result' = [success |-> TRUE, text |-> Cleaned]
    /\ UNCHANGED <<request, prompt, frames, at, token, out>>

Qwen3Next(heard) ==
    \/ \E n \in heard : Qwen3Begin(n)
    \/ Qwen3Fails \/ Prefill \/ Prefilled \/ Generate \/ GenerateEnds

-----------------------------------------------------------------------------
Seen == Min({W, Len(past) - 1})

(* The decoder sees the keys and values of the last W tokens of this        *)
(* recognition, in order: none of an earlier recognition or of the test at  *)
(* the start, none missing, none twice and never beyond the end of the      *)
(* cache, however long prompt and answer are (prepareWindow, updateCache,   *)
(* resetState and the limits of recognize, in two files).                   *)
WindowIsThePast ==
    past # <<>> =>
        window = [i \in 1..Seen |-> [request |-> request, nth |-> Len(past) - 1 - Seen + i]]

(* There is one pad in the prompt for each frame of audio the decoder is    *)
(* given, although pads are left out of a prompt that is too long.          *)
AudioMatchesPrompt ==
    phase # "idle" => Cardinality({i \in DOMAIN prompt : prompt[i] = "audio"}) = frames

(* Without a failed step the decoder reads the whole prompt and then what   *)
(* it has answered, each token once and in order.                           *)
ReadsPromptThenItself == ~failed => IsPrefix(past, prompt \o out)

(* A token is computed from the prompt, the answer so far and nothing else. *)
GeneratesFromItsPast == WindowIsThePast /\ ReadsPromptThenItself
=============================================================================
