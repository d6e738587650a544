---------------------------- MODULE RecognitionCache ----------------------------
(***************************************************************************)
(* RuntimeState (runtime_state.cpp), the cache of recognitions on the      *)
(* phone, with its two users: the worker (recognizeOneAudio), which looks  *)
(* an audio up and, after it was recognised, records the answer, and       *)
(* the switch of the web page (nativeSetRecognitionCacheEnabled), which    *)
(* sets a flag and then the cache in two.  The state outlives the engine:  *)
(* it is a static of the library.                                          *)
(*                                                                         *)
(* A text is named by the model that recognised it.  What the hash and     *)
(* the postprocessing compute, the history of eight and the counters are   *)
(* left out.                                                               *)
(***************************************************************************)
EXTENDS Integers, FiniteSets

CONSTANTS Audio,       \* what may be spoken; equal audio is bit for bit equal
          Models,      \* the model packs an engine can be started with
          NoModel,
          CacheSize,   \* kMaxCacheEntries
          MaxRequests, \* bound of the model: audios the worker takes
          MaxSwitches  \* bound of the model: uses of the switch

ASSUME CacheAssumption ==
    /\ NoModel \notin Models
    /\ CacheSize \in Nat \ {0}
    /\ MaxRequests \in Nat /\ MaxSwitches \in Nat

VARIABLES flag,     \* g_recognitionCacheEnabled
          enabled,  \* m_cacheEnabled
          cache,    \* m_cache: for an audio, the model whose text is kept
          switch,   \* the page's thread between its two statements, or "idle"
          work,     \* the worker: idle, or the audio it works on with its
                    \* engine's model
          requests, switches, \* counters of the bounds
          answer    \* history: the last answer was of the loaded model, of
                    \* another whose texts the cache kept, or strange

cacheVars == <<flag, enabled, cache, switch, work, requests, switches, answer>>

Idle == [audio |-> "none", by |-> NoModel]
Cached == {a \in Audio : cache[a] # NoModel}
EmptyCache == [a \in Audio |-> NoModel]

CacheTypeOK ==
    /\ flag \in BOOLEAN /\ enabled \in BOOLEAN
    /\ cache \in [Audio -> Models \cup {NoModel}]
    /\ switch \in {"idle", "on", "off"}
    /\ work = Idle \/ work \in [audio : Audio, by : Models]
    /\ requests \in 0..MaxRequests /\ switches \in 0..MaxSwitches
    /\ answer \in {"none", "own", "kept", "strange"}

CacheInit ==
    /\ flag = FALSE /\ enabled = FALSE /\ cache = EmptyCache
    /\ switch = "idle" /\ work = Idle /\ requests = 0 /\ switches = 0
    /\ answer = "none"

-----------------------------------------------------------------------------

(* setRecognitionCacheEnabled, under the mutex: switching off clears. *)
SetEnabled(on) ==
    /\ enabled' = on
    /\ cache' = IF on THEN cache ELSE EmptyCache

(* The page's switch: first the flag a later engine starts with ... *)
SwitchFlag(on) ==
    /\ switch = "idle" /\ switches < MaxSwitches
    /\ flag' = on
    /\ switch' = IF on THEN "on" ELSE "off"
    /\ switches' = switches + 1
    /\ UNCHANGED <<enabled, cache, work, requests, answer>>

(* ... then the cache itself. *)
SwitchCache ==
    /\ switch # "idle"
    /\ SetEnabled(switch = "on")
    /\ switch' = "idle"
    /\ UNCHANGED <<flag, work, requests, switches, answer>>

-----------------------------------------------------------------------------
(* What an answer is to the engine that gives it. *)
Kind(by, model, kept) ==
    IF by = model THEN "own" ELSE IF kept THEN "kept" ELSE "strange"

(* recognizeOneAudio: findCached; a hit is answered at once, from whatever  *)
(* model it came, a miss is recognised by the model that is loaded.         *)
LookUp(a, model, kept) ==
    /\ work = Idle /\ requests < MaxRequests
    /\ requests' = requests + 1
    /\ IF enabled /\ a \in Cached
       THEN answer' = Kind(cache[a], model, kept) /\ UNCHANGED work
       ELSE work' = [audio |-> a, by |-> model] /\ UNCHANGED answer
    /\ UNCHANGED <<flag, enabled, cache, switch, switches>>

(* A failed recognition and an empty text are neither kept nor answered. *)
NothingRecognized ==
    /\ work # Idle
    /\ work' = Idle
    /\ UNCHANGED <<flag, enabled, cache, switch, requests, switches, answer>>

(* recordRecognition: a full cache is cleared before the entry is added. *)
Insert(a, by) ==
    [(IF Cardinality(Cached) >= CacheSize THEN EmptyCache ELSE cache)
        EXCEPT ![a] = by]

(* Mutant: the switch is not looked at again after the recognition. *)
RecordAlways(model, kept) ==
    /\ work # Idle
    /\ cache' = Insert(work.audio, work.by)
    /\ answer' = Kind(work.by, model, kept)
    /\ work' = Idle
    /\ UNCHANGED <<flag, enabled, switch, requests, switches>>

(* recordRecognition and sendText. *)
Record(model, kept) ==
    /\ work # Idle
    /\ cache' = IF enabled THEN Insert(work.audio, work.by) ELSE cache
    /\ answer' = Kind(work.by, model, kept)
    /\ work' = Idle
    /\ UNCHANGED <<flag, enabled, switch, requests, switches>>

-----------------------------------------------------------------------------
(* A cache that is switched off is empty, whatever the worker was doing    *)
(* when it was, and it never holds more than kMaxCacheEntries              *)
(* (runtime_state.cpp:45-50 and 64-69).                                    *)
CacheSound ==
    /\ ~enabled => Cached = {}
    /\ Cardinality(Cached) <= CacheSize

=============================================================================
