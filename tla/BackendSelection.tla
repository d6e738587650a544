---------------------------- MODULE BackendSelection ----------------------------
(***************************************************************************)
(* SttEngine::init (stt_engine.cpp) with the two FireRed backends and the  *)
(* Qwen3 backend it creates: which backend it takes for the directory it   *)
(* is given, what that loads, and what it falls back to.  It knows only    *)
(* which files exist; that the app selected a pack for a policy, and       *)
(* copied it, is ModelPacks' business.                                     *)
(*                                                                         *)
(* The build with the vendor's backends (STT_USE_QNN) is modelled.  A      *)
(* creation succeeds only with whole files of the right kind, with its     *)
(* libraries in the internal storage, and may then still fail.             *)
(***************************************************************************)
EXTENDS ModelPacks

VARIABLES tries,       \* what init still tries, in order
          engine,      \* none, init, up or failed
          backendName, \* m_backendName
          used,        \* the contents the backend has loaded
          refused      \* history: what this init failed to create from files
                       \* that were all there

engineVars == <<tries, engine, backendName, used, refused>>
selectionVars == <<packVars, engineVars>>

-----------------------------------------------------------------------------
FireRedModel == arg \in FireRedDirs
HasTokens == Has(arg, {"tokens.txt"})
OnnxModel == IF Has(arg, {"model.int8.onnx"}) THEN "model.int8.onnx" ELSE "model.onnx"

(* Mutant: without the gate of the directory's name. *)
ParaformerXnnpackUngated == HasTokens /\ HasAny(arg, {"model.int8.onnx", "model.onnx"})

(* The tests of init, in its order; a name with "fire_red_qnn_ml" is no     *)
(* "fire-red-asr2-ctc" in one of them.                                      *)
ParaformerXnnpack ==
    /\ HasTokens /\ HasAny(arg, {"model.int8.onnx", "model.onnx"})
    /\ arg \notin FireRedDirs \ {"fire_red_qnn_ml"}

Qwen3Qnn ==
    /\ \/ HasAny(QnnSibling(arg), {"decoder-w128", "decoder-w4"})
       \/ Has(runtime, {"libmodel.so"})
    /\ Has(QnnSibling(arg), {"conv_frontend", "encoder", "tokenizer"})

Qwen3Cpu == Has(CpuSibling(arg), Qwen3Files)

ModelKind ==
    CASE FireRedModel /\ HasTokens /\ HasAny(arg, {"model.onnx", "libmodel.so"}) -> "FireRedAsr2CtcQnn"
      [] OTHER ->
    CASE HasTokens /\ HasAny(arg, {"model.bin", "libmodel.so"}) -> "SenseVoiceQnn"
      [] OTHER ->
    CASE HasTokens /\ Has(arg, {"libencoder.so", "libpredictor.so", "libdecoder.so"}) ->
            "ParaformerQnn"
      [] OTHER ->
    CASE ParaformerXnnpack -> "ParaformerXnnpack"
      [] OTHER ->
    CASE FireRedModel /\ HasTokens /\ Has(arg, {"model.int8.onnx"}) -> "FireRedAsr2Ctc"
      [] OTHER ->
    CASE Qwen3Qnn -> "Qwen3AsrQnn"
      [] ~Qwen3Qnn /\ Qwen3Cpu -> "Qwen3AsrCpu"
      [] OTHER ->
    CASE HasTokens /\ Has(arg, {"model.int8.onnx", "bbpe.model"}) -> "ZipformerCtc"
      [] HasTokens /\ Has(arg, {"encoder.int8.onnx", "decoder.int8.onnx"}) -> "Paraformer"
      [] OTHER -> None

-----------------------------------------------------------------------------
(* What a backend needs.  A try loads files, given with their directory;    *)
(* of those that are there it uses the optional ones too.                   *)
Try(name, files, from) ==
    [name |-> name, files |-> {<<from, f>> : f \in files}]

(* SenseVoice takes the runtime directory's library before the pack's. *)
SenseVoiceLibrary ==
    IF Has(runtime, {"libmodel.so"}) THEN <<runtime, "libmodel.so">> ELSE <<arg, "libmodel.so">>

(* What init creates for each kind, until one creation succeeds.  FireRed:  *)
(* the pack's library, then an ORT session with the vendor's provider and   *)
(* one without.                                                             *)
FireRedQnnTries ==
    (IF Has(arg, {"libmodel.so"})
     THEN <<Try("fire_red_asr2_ctc_qnn", {"libmodel.so", "tokens.txt"}, arg)>> ELSE <<>>)
    \o <<Try("fire_red_asr2_ctc_qnn", {"model.onnx", "tokens.txt"}, arg),
         Try("fire_red_asr2_ctc_qnn_cpu", {"model.onnx", "tokens.txt"}, arg)>>

SenseVoiceTries ==
    <<[name |-> "sensevoice_qnn", files |-> {SenseVoiceLibrary, <<arg, "tokens.txt">>}]>>

ParaformerQnnTries ==
    <<Try("paraformer_qnn",
          {"libencoder.so", "libpredictor.so", "libdecoder.so", "tokens.txt"}, arg)>>

ParaformerXnnpackTries ==
    <<Try("paraformer_xnnpack", {OnnxModel, "tokens.txt"}, arg),
      Try("paraformer_cpu", {OnnxModel, "tokens.txt"}, arg)>>

FireRedTries == <<Try("fire_red_asr2_ctc", {"model.int8.onnx", "tokens.txt"}, arg)>>

Qwen3CpuTries == <<Try("qwen3_asr_cpu", Qwen3Files, CpuSibling(arg))>>

(* The vendor's Qwen3 runs the CPU pack's front end and encoder, and the    *)
(* runtime directory's decoder.                                             *)
Qwen3QnnTries ==
    <<[name |-> "qwen3_asr_qnn",
       files |-> {<<CpuSibling(arg), "conv_frontend.onnx">>,
                  <<CpuSibling(arg), "encoder.int8.onnx">>,
                  <<runtime, "libmodel.so">>}]>>
    \o (IF Qwen3Cpu THEN Qwen3CpuTries ELSE <<>>)

ZipformerTries == <<Try("zipformer_ctc", {"model.int8.onnx", "tokens.txt"}, arg)>>

ParaformerTries ==
    <<Try("paraformer", {"encoder.int8.onnx", "decoder.int8.onnx", "tokens.txt"}, arg)>>

Tries(kind) ==
    CASE kind = "FireRedAsr2CtcQnn" -> FireRedQnnTries
      [] kind = "SenseVoiceQnn" -> SenseVoiceTries
      [] kind = "ParaformerQnn" -> ParaformerQnnTries
      [] kind = "ParaformerXnnpack" -> ParaformerXnnpackTries
      [] kind = "FireRedAsr2Ctc" -> FireRedTries
      [] kind = "Qwen3AsrQnn" -> Qwen3QnnTries
      [] kind = "Qwen3AsrCpu" -> Qwen3CpuTries
      [] kind = "ZipformerCtc" -> ZipformerTries
      [] kind = "Paraformer" -> ParaformerTries
      [] OTHER -> <<>>

Loads(t) == {disk[x[1]][x[2]] : x \in {y \in t.files : Has(y[1], {y[2]})}}

(* The packs whose files a backend understands. *)
Fits(name) ==
    CASE name \in {"fire_red_asr2_ctc_qnn", "fire_red_asr2_ctc_qnn_cpu", "fire_red_asr2_ctc"} ->
            {"fire-red-asr2-ctc", "fire-red-asr2-ctc-qnn"}
      [] name = "sensevoice_qnn" -> {"sensevoice", "native"}
      [] name = "paraformer_qnn" -> {"paraformer-qnn"}
      [] name \in {"paraformer_xnnpack", "paraformer_cpu"} -> {"paraformer-offline"}
      [] name = "qwen3_asr_qnn" -> {"qwen3-asr-0.6b-qnn", "qwen3-asr-0.6b", "native"}
      [] name = "qwen3_asr_cpu" -> {"qwen3-asr-0.6b"}
      [] name = "zipformer_ctc" -> {"zipformer-ctc"}
      [] name = "paraformer" -> {"paraformer"}

Library == {"libmodel.so", "libencoder.so", "libpredictor.so", "libdecoder.so"}

CanLoad(t) ==
    /\ \A x \in t.files :
          /\ Has(x[1], {x[2]}) /\ disk[x[1]][x[2]].whole
          /\ disk[x[1]][x[2]].pack \in Fits(t.name)
          /\ x[2] \in Library => x[1] \in Internal

-----------------------------------------------------------------------------
EngineInit ==
    /\ tries = <<>> /\ engine = "none" /\ backendName = None /\ used = {}
    /\ refused = {}

(* init looks at the files ... *)
InitBegin ==
    /\ stage = "init" /\ engine = "none"
    /\ engine' = "init" /\ tries' = Tries(ModelKind)
    /\ refused' = {}
    /\ UNCHANGED <<packVars, backendName, used>>

(* ... and creates one backend after the other.  Qwen3's composes the graph *)
(* of whatever library is in the runtime directory.                         *)
InitSucceeds ==
    /\ engine = "init" /\ tries # <<>> /\ CanLoad(Head(tries))
    /\ engine' = "up" /\ backendName' = Head(tries).name /\ used' = Loads(Head(tries))
    /\ tries' = <<>>
    /\ stage' = "done"
    /\ UNCHANGED <<refused, disk, policy, import, modelDir, arg, runtime, prep, imports,
                   starts, faults, selected, disturbed>>

InitFallsBack ==
    /\ engine = "init" /\ tries # <<>>
    /\ tries' = Tail(tries)
    /\ refused' = IF CanLoad(Head(tries)) THEN refused \cup {Head(tries).name} ELSE refused
    /\ UNCHANGED <<packVars, engine, backendName, used>>

InitFails ==
    /\ engine = "init" /\ tries = <<>>
    /\ engine' = "failed" /\ stage' = "done"
    /\ UNCHANGED <<tries, backendName, used, refused, disk, policy, import, modelDir,
                   arg, runtime, prep, imports, starts, faults, selected, disturbed>>

(* ~SttEngine, when the service is stopped, started anew or dies. *)
NoEngine ==
    /\ tries' = <<>> /\ engine' = "none" /\ backendName' = None /\ used' = {}
    /\ UNCHANGED refused

SelectionInit == PacksInit /\ EngineInit

SelectionNext ==
    \/ (StartServer \/ Die \/ \E p \in Policies : SetPolicy(p)) /\ NoEngine
    \/ PacksStep /\ UNCHANGED engineVars
    \/ InitBegin \/ InitSucceeds \/ InitFallsBack \/ InitFails

SelectionSpec == SelectionInit /\ [][SelectionNext]_selectionVars

-----------------------------------------------------------------------------
(* A pack on the external storage of which no import is half done *)
OneVersion(p) ==
    /\ \A f, g \in DOMAIN disk[p] : disk[p][f].version = disk[p][g].version
    /\ \A f \in DOMAIN disk[p] : disk[p][f].whole

(* Undisturbed by faults and imports, the engine runs the libraries and     *)
(* models that are installed: whole, and of the version that was imported   *)
(* last, although it loads copies, which earlier starts, of other packs     *)
(* too, have left or left half written (MainActivity.java:447-640,          *)
(* 752-787).  A file whose size an update keeps is beyond that.             *)
LoadsWhatIsInstalled ==
    engine = "up" /\ ~disturbed =>
        \A c \in used : c.pack = "native" \/ c.file \in SameSize \cup Qwen3Files
                        \/ (c \in {disk[selected][f] : f \in DOMAIN disk[selected]})

(* When the pack of the policy is there, the engine runs a backend for it   *)
(* (MainActivity.java:304-420 against stt_engine.cpp:685-731, which knows   *)
(* nothing of the policy).                                                  *)
PolicyObeyed ==
    engine = "up" /\ ~disturbed /\ Ready(OwnPack(policy)) =>
        selected = OwnPack(policy) /\ selected \in Fits(backendName)

(* An init that fails although nothing was disturbed and no creation was    *)
(* refused was given something that no backend can run: nothing at all, a   *)
(* zipformer pack (the test for Paraformer takes it), a vendor's Qwen3 pack *)
(* without the CPU pack, a SenseVoice pack without a library, or half of an *)
(* import, of the pack or of the CPU pack beside it                         *)
(* (stt_engine.cpp:690-731, 1049, 1173).                                    *)
NoNeedlessFailure ==
    engine = "failed" /\ ~disturbed /\ refused = {}
      /\ OneVersion(selected) /\ OneVersion(CpuSibling(selected)) =>
        \/ selected \in {"paraformer", "zipformer-ctc"}
        \/ selected = "qwen3-asr-0.6b-qnn" /\ ~Qwen3Cpu
        \/ selected = "sensevoice" /\ ~Has("sensevoice", {"libmodel.so"}) /\ ~Has("native", {"libmodel.so"})

(* "FireRedASR2-CTC runs on the vendor's provider and falls back to the CPU *)
(* by itself when that fails" (app.js:148): its init does not fail without  *)
(* a creation on the CPU that failed, too.                                  *)
FallsBackToCpu ==
    engine = "failed" /\ policy = "firered_qnn" /\ ~disturbed
      /\ selected = OwnPack(policy) /\ OneVersion(selected) =>
        "fire_red_asr2_ctc_qnn_cpu" \in refused

=============================================================================
