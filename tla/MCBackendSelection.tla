-------------------------- MODULE MCBackendSelection --------------------------
EXTENDS BackendSelection

\* The files of the packs, as the packaging and push scripts make them and as
\* the code looks for them.  Those of Main are installed in pairs, too.
Main ==
    {"sensevoice" :> {"libmodel.so", "tokens.txt"},
     "fire-red-asr2-ctc" :> {"model.int8.onnx", "tokens.txt", "libmodel.so", "cmvn.txt"},
     "fire-red-asr2-ctc-qnn" :> {"model.onnx", "tokens.txt", "libmodel.so"},
     "paraformer-qnn" :> {"libencoder.so", "libpredictor.so", "libdecoder.so", "tokens.txt"},
     "paraformer-offline" :> {"model.onnx", "tokens.txt"},
     "qwen3-asr-0.6b-qnn" :>
        {"decoder-w4", "decoder-w128", "conv_frontend", "encoder", "tokenizer"},
     "qwen3-asr-0.6b" :> Qwen3Files}
Others ==
    {<<>>,
     "sensevoice" :> {"model.bin", "tokens.txt"},
     "fire-red-asr2-ctc" :> {"model.int8.onnx", "tokens.txt"},
     "fire-red-asr2-ctc-qnn" :> {"model.onnx", "tokens.txt"},
     "zipformer-ctc" :> {"model.int8.onnx", "bbpe.model", "tokens.txt"},
     "paraformer" :> {"encoder.int8.onnx", "decoder.int8.onnx", "tokens.txt"}}

\* The APK's SenseVoice library, with the packs that can meet it.
Apk == {"native" :> {"libmodel.so"} @@ p @@ q :
          p \in {m \in Main : DOMAIN m \cap {"sensevoice", "qwen3-asr-0.6b-qnn"} # {}},
          q \in {m \in Main : DOMAIN m \cap {"sensevoice", "qwen3-asr-0.6b"} # {}}}

MCInstalled == {p @@ q : p \in Main, q \in Main} \cup Others \cup Apk

MCZips == {<<"sensevoice", <<"libmodel.so", "tokens.txt">>>>,
           <<"fire-red-asr2-ctc", <<"libmodel.so", "tokens.txt", "model.int8.onnx">>>>}

\* "standard" selects as "auto" does.
MCPolicies == {"auto", "fast", "mixed", "rescue", "firered", "firered_qnn"}
===============================================================================
