------------------------------ MODULE ModelPacks ------------------------------
(***************************************************************************)
(* The model packs on the phone's storage and what the app does with them  *)
(* before the engine sees them (MainActivity.java and                      *)
(* SttForegroundService.java): a zip file is unpacked entry by entry by a  *)
(* thread of its own, a policy selects a pack, its libraries are copied    *)
(* from the external to the internal storage, since the linker loads none  *)
(* from the external one, and a runtime directory is filled.               *)
(*                                                                         *)
(*   activity  resolve -> model -> copy* -> runtime -> send                *)
(*   service   accept -> copy* -> fill -> init                             *)
(*                                                                         *)
(* Both run on the main thread, one start after the other.  A directory is *)
(* named by its last component.  A file is written in two steps, and       *)
(* between them, after a failure or when the process died, it is torn: it  *)
(* exists and is shorter.  The vendor's own libraries, which the runtime   *)
(* directories also get, are left out.                                     *)
(***************************************************************************)
EXTENDS Integers, SequencesExt

CONSTANTS Zips,          \* what can be imported, as <<pack, files in order>>
          Installed,     \* what may be there at first: for a pack, its files
          Policies,      \* policies the user chooses from
          SameSize,      \* files whose size an update does not change
          MaxImports, MaxStarts, MaxFaults \* bounds of the model

VARIABLES disk,      \* for a directory, its files; absent ones are no part
          policy,    \* the preference backend_policy
          import,    \* the import's thread: the pack and the files to come
          modelDir,  \* MainActivity.modelDir
          arg,       \* the service's modelDir
          runtime,   \* the runtime directory of the start
          stage,     \* main thread, in a start
          prep,      \* the copying that is under way
          imports, starts, faults, \* counters of the bounds
          selected,  \* history: the pack that was selected by this start
          disturbed  \* history: in this start a fault happened or an import
                     \* wrote

packVars == <<disk, policy, import, modelDir, arg, runtime, stage, prep,
              imports, starts, faults, selected, disturbed>>

None == "none"
\* nativeLibraryDir may hold a SenseVoice libmodel.so that came with the APK
External == {"native", "sensevoice", "fire-red-asr2-ctc", "fire-red-asr2-ctc-qnn",
             "paraformer-qnn", "paraformer-offline", "zipformer-ctc",
             "qwen3-asr-0.6b-qnn", "qwen3-asr-0.6b", "paraformer"}
Internal == {"files/sensevoice", "files/paraformer-qnn", "fire_red_qnn_ml",
             "qnn-runtime", "qnn-runtime-qwen3"}

(* A zip is unpacked into the directory of a pack, and nothing but the      *)
(* packs and the APK puts files there before the app runs.  A preference    *)
(* that is no policy counts as "auto" (getBackendPolicy).                   *)
ASSUME PacksAssumption ==
    /\ MaxImports \in Nat /\ MaxStarts \in Nat /\ MaxFaults \in Nat
    /\ Zips \subseteq (External \ {"native"}) \X Seq(STRING)
    /\ \A i \in Installed : DOMAIN i \subseteq External
    /\ Policies \subseteq {"auto", "standard", "fast", "mixed", "rescue", "firered",
                          "firered_qnn"}

NoPrep == [from |-> None, to |-> None, todo |-> <<>>]
NoImport == [pack |-> None, todo |-> <<>>]
Active == stage # "idle" /\ stage # "done"

-----------------------------------------------------------------------------
(* Files.  A content is known by the pack and the file it came from, its    *)
(* version and whether it is whole.                                         *)
File(p, f, v) == [pack |-> p, file |-> f, version |-> v, whole |-> TRUE]
Torn(c) == [c EXCEPT !.whole = FALSE]
Has(d, files) == files \subseteq DOMAIN disk[d]
Put(storage, d, f, c) ==
    [storage EXCEPT ![d] = [g \in {f} \cup DOMAIN @ |-> IF g = f THEN c ELSE @[g]]]

(* target.length() == source.length() *)
EqualLength(c1, c2) ==
    c1 = c2 \/ (c1.whole /\ c2.whole /\ c1.file = c2.file /\ c1.file \in SameSize)

-----------------------------------------------------------------------------
(* The selection *)

HasAny(d, files) == \E f \in files : Has(d, {f})
Qwen3Files == {"conv_frontend.onnx", "encoder.int8.onnx", "decoder.int8.onnx",
               "tokenizer"}

(* What resolveModelDir asks of a pack before it selects it. *)
Ready(p) ==
    CASE p = "sensevoice" -> HasAny(p, {"model.bin", "libmodel.so"}) /\ Has(p, {"tokens.txt"})
      [] p = "fire-red-asr2-ctc" -> Has(p, {"model.int8.onnx", "tokens.txt"})
      [] p = "fire-red-asr2-ctc-qnn" -> Has(p, {"model.onnx", "tokens.txt"})
      [] p = "paraformer-qnn" ->
            Has(p, {"libencoder.so", "libpredictor.so", "libdecoder.so", "tokens.txt"})
      [] p = "paraformer-offline" ->
            HasAny(p, {"model.int8.onnx", "model.onnx"}) /\ Has(p, {"tokens.txt"})
      [] p = "zipformer-ctc" -> Has(p, {"model.int8.onnx", "bbpe.model", "tokens.txt"})
      [] p = "qwen3-asr-0.6b-qnn" ->
            Has(p, {"decoder-w4", "conv_frontend", "encoder", "tokenizer"})
      [] p = "qwen3-asr-0.6b" -> Has(p, Qwen3Files)

OwnPack(pol) ==
    CASE pol \in {"auto", "standard"} -> "sensevoice"
      [] pol = "fast" -> "paraformer-qnn"
      [] pol = "mixed" -> "paraformer-offline"
      [] pol = "rescue" -> "qwen3-asr-0.6b"
      [] pol = "firered" -> "fire-red-asr2-ctc"
      [] pol = "firered_qnn" -> "fire-red-asr2-ctc-qnn"

Fallbacks == <<"fire-red-asr2-ctc", "paraformer-qnn", "paraformer-offline",
               "zipformer-ctc", "qwen3-asr-0.6b-qnn", "qwen3-asr-0.6b">>

(* Mutant: what works everywhere first. *)
ResolveFallbackFirst ==
    LET order == Fallbacks \o <<OwnPack(policy), "paraformer">>
    IN  order[CHOOSE i \in DOMAIN order :
                  /\ i = Len(order) \/ Ready(order[i])
                  /\ \A j \in 1..(i - 1) : ~Ready(order[j])]

(* resolveModelDir, of the activity and of the service. *)
Resolve ==
    LET order == Append(<<OwnPack(policy)>> \o Fallbacks, "paraformer")
    IN  order[CHOOSE i \in DOMAIN order :
                  /\ i = Len(order) \/ Ready(order[i])
                  /\ \A j \in 1..(i - 1) : ~Ready(order[j])]

-----------------------------------------------------------------------------
(* The copies *)

FireRedDirs == {"fire-red-asr2-ctc", "fire-red-asr2-ctc-qnn", "fire_red_qnn_ml"}
(* The internal directory that stands for a pack whose libraries are loaded *)
(* from the files system by name, and what goes there.                      *)
Target(d) ==
    CASE d \in {"sensevoice", "files/sensevoice"} -> "files/sensevoice"
      [] d \in {"paraformer-qnn", "files/paraformer-qnn"} -> "files/paraformer-qnn"
      [] d \in FireRedDirs -> "fire_red_qnn_ml"
      [] OTHER -> None

Wanted(to) ==
    CASE to = "files/sensevoice" -> <<"libmodel.so", "model.bin", "tokens.txt">>
      [] to = "fire_red_qnn_ml" -> <<"libmodel.so", "cmvn.txt", "tokens.txt">>
      [] OTHER -> <<"libencoder.so", "libpredictor.so", "libdecoder.so", "tokens.txt">>

(* prepareSenseVoiceQnnModelDir, prepareFireRedQnnModelDir (only with a     *)
(* library) and prepareParaformerQnnModelDir.                               *)
Prepares(d) ==
    Target(d) # None /\ (Target(d) = "files/paraformer-qnn" \/ Has(d, {"libmodel.so"}))

(* A fault of the storage, within the bound. *)
Fault == faults < MaxFaults /\ faults' = faults + 1 /\ disturbed' = TRUE
NoFault == UNCHANGED <<faults, disturbed>>

(* The directory is there, or is made, or cannot be made. *)
Prepare(d, next) ==
    IF Prepares(d)
    THEN \/ /\ prep' = [from |-> d, to |-> Target(d), todo |-> Wanted(Target(d))]
            /\ stage' = "copy" /\ NoFault
         \/ prep' = NoPrep /\ stage' = next /\ Fault
    ELSE prep' = NoPrep /\ stage' = next /\ NoFault

(* Mutant: a file that is there is never copied again. *)
StaleIfAbsent(f) == Has(prep.from, {f}) /\ ~Has(prep.to, {f})

Stale(f) ==
    /\ Has(prep.from, {f})
    /\ Has(prep.to, {f}) => ~EqualLength(disk[prep.from][f], disk[prep.to][f])

(* copyFile, opened: what was there is gone. *)
CopyOpen ==
    /\ stage = "copy" /\ prep.todo # <<>> /\ Stale(Head(prep.todo))
    /\ disk' = LET f == Head(prep.todo)
             IN  Put(disk, prep.to, f, Torn(disk[prep.from][f]))
    /\ stage' = "copying"
    /\ UNCHANGED <<policy, import, modelDir, arg, runtime, prep, imports, starts,
                   faults, selected, disturbed>>

(* It is written, or it fails, which is only logged. *)
CopyClose ==
    /\ stage = "copying"
    /\ LET f == Head(prep.todo)
       IN  \/ disk' = Put(disk, prep.to, f, disk[prep.from][f]) /\ NoFault
           \/ Fault /\ UNCHANGED disk
    /\ stage' = "copy" /\ prep' = [prep EXCEPT !.todo = Tail(@)]
    /\ UNCHANGED <<policy, import, modelDir, arg, runtime, imports, starts, selected>>

CopySkip ==
    /\ stage = "copy" /\ prep.todo # <<>> /\ ~Stale(Head(prep.todo))
    /\ prep' = [prep EXCEPT !.todo = Tail(@)]
    /\ UNCHANGED <<disk, policy, import, modelDir, arg, runtime, stage, imports,
                   starts, faults, selected, disturbed>>

(* The internal directory takes the place of the pack: of the activity's    *)
(* field, or, once the command arrived, of the service's variable.          *)
CopyDone ==
    /\ stage = "copy" /\ prep.todo = <<>>
    /\ IF arg = None
       THEN modelDir' = prep.to /\ stage' = "runtime" /\ UNCHANGED arg
       ELSE arg' = prep.to /\ stage' = "fill" /\ UNCHANGED modelDir
    /\ prep' = NoPrep
    /\ UNCHANGED <<disk, policy, import, runtime, imports, starts, faults, selected,
                   disturbed>>

(* prepareQnnRuntimeDir: with the libmodel.so of the APK. *)
Generic(storage) ==
    IF Has("native", {"libmodel.so"})
    THEN Put(storage, "qnn-runtime", "libmodel.so", disk["native"]["libmodel.so"])
    ELSE storage

GenericRuntime == runtime' = "qnn-runtime" /\ disk' = Generic(disk) /\ NoFault

(* The two packs of Qwen3 find each other by name. *)
QnnSibling(d) == IF d = "qwen3-asr-0.6b" THEN "qwen3-asr-0.6b-qnn" ELSE d
CpuSibling(d) == IF d = "qwen3-asr-0.6b-qnn" THEN "qwen3-asr-0.6b" ELSE d

(* prepareQwen3QnnRuntimeDir: with the decoder as its libmodel.so; without  *)
(* a decoder, and when its copy fails, the generic one.                     *)
Qwen3Runtime(d, decoder) ==
    LET to == "qnn-runtime-qwen3"
        c == disk[d][decoder]
    IN  IF ~Has(d, {decoder}) THEN GenericRuntime
        ELSE IF Has(to, {"libmodel.so"}) /\ EqualLength(disk[to]["libmodel.so"], c)
        THEN runtime' = to /\ UNCHANGED disk /\ NoFault
        ELSE \/ runtime' = to /\ disk' = Put(disk, to, "libmodel.so", c) /\ NoFault
             \/ /\ runtime' = "qnn-runtime" /\ Fault
                /\ disk' = Generic(Put(disk, to, "libmodel.so", Torn(c)))

\* The larger decoder, if there is one.
ServiceDecoder(d) ==
    IF Has(d, {"decoder-w128"}) THEN "decoder-w128" ELSE "decoder-w4"

-----------------------------------------------------------------------------
(* A start *)

(* startServer selects ... *)
StartServer ==
    /\ stage \in {"idle", "done"} /\ starts < MaxStarts
    /\ starts' = starts + 1
    /\ modelDir' = Resolve /\ selected' = Resolve
    /\ arg' = None /\ runtime' = None
    /\ stage' = IF Resolve = "qwen3-asr-0.6b-qnn" THEN "qwen3-runtime" ELSE "model"
    /\ disturbed' = (import # NoImport)
    /\ UNCHANGED <<disk, policy, import, prep, imports, faults>>

(* ... and prepares the pack its field names by now ... *)
ActivityModel ==
    /\ stage = "model"
    /\ IF Target(modelDir) = Target(selected) THEN Prepare(modelDir, "runtime")
       ELSE prep' = NoPrep /\ stage' = "runtime" /\ NoFault
    /\ UNCHANGED <<disk, policy, import, modelDir, arg, runtime, imports, starts, selected>>

(* ... and the runtime directory: the activity knows one Qwen3 decoder. *)
ActivityRuntime ==
    /\ \/ stage = "runtime" /\ GenericRuntime
       \/ stage = "qwen3-runtime" /\ Qwen3Runtime(QnnSibling(modelDir), "decoder-w4")
    /\ stage' = "send"
    /\ UNCHANGED <<policy, import, modelDir, arg, prep, imports, starts, selected>>

(* SttForegroundService.start and onStartCommand, which prepares again. *)
Send ==
    /\ stage = "send"
    /\ arg' = modelDir
    /\ Prepare(modelDir, "fill")
    /\ UNCHANGED <<disk, policy, import, modelDir, runtime, imports, starts, selected>>

(* onStartCommand with the null intent of a restarted service: it selects   *)
(* by itself.                                                               *)
Redelivered ==
    /\ stage = "redelivered"
    /\ arg' = Resolve /\ selected' = Resolve /\ runtime' = None
    /\ Prepare(Resolve, "fill")
    /\ UNCHANGED <<disk, policy, import, modelDir, imports, starts>>

(* The service's prepareQnnRuntimeDir selects once more.                    *)
ServiceRuntime ==
    /\ stage = "fill"
    /\ IF runtime # None THEN UNCHANGED <<runtime, disk>> /\ NoFault
       ELSE IF Resolve = "qwen3-asr-0.6b-qnn"
       THEN Qwen3Runtime(Resolve, ServiceDecoder(Resolve))
       ELSE GenericRuntime
    /\ stage' = "init"
    /\ UNCHANGED <<policy, import, modelDir, arg, prep, imports, starts, selected>>

(* setBackendPolicy, between two starts; it stops a server that runs. *)
SetPolicy(p) ==
    /\ stage \in {"idle", "done"} /\ p # policy
    /\ policy' = p /\ stage' = "idle"
    /\ UNCHANGED <<disk, import, modelDir, arg, runtime, prep, imports, starts,
                   faults, selected, disturbed>>

-----------------------------------------------------------------------------
(* An import, concurrent with everything else: a second version of a pack *)

ImportBegin(z) ==
    /\ import = NoImport /\ imports < MaxImports
    /\ imports' = imports + 1
    /\ import' = [pack |-> z[1], todo |-> z[2]]
    /\ disturbed' = TRUE
    /\ UNCHANGED <<disk, policy, modelDir, arg, runtime, stage, prep, starts, faults, selected>>

(* unzipModelPack, one entry: opened and so emptied, then written. *)
ImportEntry ==
    /\ import.todo # <<>>
    /\ LET f == Head(import.todo)
           new == File(import.pack, f, 2)
       IN  IF Has(import.pack, {f}) /\ disk[import.pack][f] = Torn(new)
           THEN disk' = Put(disk, import.pack, f, new) /\ import' = [import EXCEPT !.todo = Tail(@)]
           ELSE disk' = Put(disk, import.pack, f, Torn(new)) /\ UNCHANGED import
    /\ disturbed' = TRUE
    /\ UNCHANGED <<policy, modelDir, arg, runtime, stage, prep, imports, starts, faults, selected>>

(* Done: the thread selects a pack for the activity's field, whatever the   *)
(* main thread does with it.                                                *)
ImportDone ==
    /\ import.pack # None /\ import.todo = <<>>
    /\ modelDir' = Resolve
    /\ import' = NoImport
    /\ UNCHANGED <<disk, policy, arg, runtime, stage, prep, imports, starts, faults,
                   selected, disturbed>>

(* An exception ends it; what was unpacked stays. *)
ImportFails ==
    /\ import # NoImport /\ faults < MaxFaults
    /\ faults' = faults + 1
    /\ import' = NoImport
    /\ UNCHANGED <<disk, policy, modelDir, arg, runtime, stage, prep, imports, starts,
                   selected, disturbed>>

-----------------------------------------------------------------------------
(* The process dies in a start or after it; Android starts the service      *)
(* again, and with it the start without an activity.                        *)
Die ==
    /\ stage # "idle" /\ faults < MaxFaults
    /\ faults' = faults + 1
    /\ import' = NoImport /\ prep' = NoPrep
    /\ modelDir' = None /\ arg' = None /\ runtime' = None
    /\ stage' = "redelivered"
    /\ disturbed' = FALSE
    /\ UNCHANGED <<disk, policy, imports, starts, selected>>

PacksInit ==
    /\ \E i \in Installed :
          disk = [d \in External \cup Internal |->
                    IF d \in DOMAIN i THEN [f \in i[d] |-> File(d, f, 1)] ELSE <<>>]
    /\ policy \in Policies
    /\ import = NoImport /\ modelDir = None /\ arg = None /\ runtime = None
    /\ stage = "idle" /\ prep = NoPrep
    /\ imports = 0 /\ starts = 0 /\ faults = 0
    /\ selected = None /\ disturbed = FALSE

PacksStep ==
    \/ ActivityModel \/ ActivityRuntime \/ Send \/ Redelivered \/ ServiceRuntime
    \/ CopyOpen \/ CopyClose \/ CopySkip \/ CopyDone
    \/ \E z \in Zips : ImportBegin(z)
    \/ ImportEntry \/ ImportDone \/ ImportFails

=============================================================================
