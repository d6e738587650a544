---------------------------- MODULE SttEngine_proofs ----------------------------
(***************************************************************************)
(* Proofs about the engine of the phone (class SttEngine).                 *)
(*                                                                         *)
(* First what init takes, for every set of packs that is installed and     *)
(* imported: what the app hands it from the storage, and the backend it    *)
(* gets out of that.                                                       *)
(*                                                                         *)
(* Then what recognize does with it: the cache and the window of the Qwen3 *)
(* decoder, for every window, cache, prompt and answer, and the handles of *)
(* the NPU's backends; and, by induction over the utterance, that the text *)
(* of the other backends is what was heard.                                *)
(***************************************************************************)
EXTENDS BackendSelection, Recognition, SequenceFacts, FiniteSetTheorems,
        WellFoundedInduction, TLAPS

-----------------------------------------------------------------------------
(* The storage: from which packs the files of a directory may come.  Only   *)
(* the two runtime directories rename what they get.                        *)

Dirs == External \cup Internal
Copies == {"files/sensevoice", "files/paraformer-qnn", "fire_red_qnn_ml"}
FireRedPacks == {"fire-red-asr2-ctc", "fire-red-asr2-ctc-qnn"}

IsContent(c) ==
    /\ c.pack \in External
    /\ c \in [pack : {c.pack}, file : {c.file}, version : {c.version}, whole : BOOLEAN]

Owners(d) ==
    CASE d \in External -> {d}
      [] d = "files/sensevoice" -> {"sensevoice"}
      [] d = "files/paraformer-qnn" -> {"paraformer-qnn"}
      [] d = "fire_red_qnn_ml" -> FireRedPacks
      [] d = "qnn-runtime" -> {"native"}
      [] d = "qnn-runtime-qwen3" -> External

\* A copy is of a file its pack has: no pack loses one.  The APK's library is
\* never torn, nor is the copy of it, which is one step of the model.
StorageOK(s) ==
    /\ DOMAIN s = Dirs
    /\ \A d \in Dirs : \A f \in DOMAIN s[d] :
          IsContent(s[d][f]) /\ s[d][f].pack \in Owners(d)
    /\ \A d \in External \cup Copies : \A f \in DOMAIN s[d] : s[d][f].file = f
    /\ \A d \in Copies : \A f \in DOMAIN s[d] :
          f \in Range(Wanted(d)) /\ f \in DOMAIN s[s[d][f].pack]
    /\ \A d \in {"native", "qnn-runtime"} : \A f \in DOMAIN s[d] : s[d][f].whole

Stages == {"idle", "model", "qwen3-runtime", "copy", "copying", "runtime", "send",
           "redelivered", "fill", "init", "done"}

PacksOK ==
    /\ policy \in Policies
    /\ stage \in Stages
    /\ import \in [pack : External \ {"native"}, todo : Seq(STRING)] \cup {NoImport}
    /\ modelDir \in Dirs \cup {None} /\ arg \in Dirs \cup {None}
    /\ selected \in External \cup {None}
    /\ runtime \in {None, "qnn-runtime", "qnn-runtime-qwen3"}
    /\ disturbed \in BOOLEAN
    /\ stage = "qwen3-runtime" => modelDir \in External
    /\ stage \in {"copy", "copying"} =>
          /\ prep = [from |-> prep.from, to |-> prep.to, todo |-> prep.todo]
          /\ prep.from \in Dirs /\ prep.to \in Copies /\ Target(prep.from) = prep.to
          /\ prep.todo \in Seq(Range(Wanted(prep.to)))
    /\ stage = "copying" => prep.todo # <<>> /\ Has(prep.from, {Head(prep.todo)})

EngineOK ==
    /\ engine \in {"none", "init", "up", "failed"}
    /\ engine = "init" => stage = "init"
    /\ engine \in {"up", "failed"} => stage = "done"
    /\ stage = "done" => engine # "none"
    /\ engine = "init" => tries \in Seq(Range(tries))

-----------------------------------------------------------------------------
(* A start that nothing disturbs: what it hands from stage to stage *)

FreshFile(from, to, f) ==
    Has(from, {f}) => Has(to, {f}) /\ EqualLength(disk[from][f], disk[to][f])

\* The copy is what is installed, or of the same length.
Fresh == \A f \in Range(Wanted(Target(selected))) : FreshFile(selected, Target(selected), f)

\* The selected pack, or a fresh copy that stands for it.
Handed(d) == d = selected \/ (d = Target(selected) /\ Prepares(selected) /\ Fresh)

\* What is still to be copied is the only thing that may be stale.  The service
\* copies what the activity has copied onto itself.
Copying ==
    /\ Prepares(selected) /\ prep.to = Target(selected)
    /\ \/ prep.from = selected
       \/ prep.from = prep.to /\ Fresh
    /\ \A f \in Range(Wanted(prep.to)) \ Range(prep.todo) : FreshFile(selected, prep.to, f)

DecoderThere ==
    /\ selected = "qwen3-asr-0.6b-qnn" /\ Has(runtime, {"libmodel.so"})
    /\ \E f \in DOMAIN disk[selected] :
          EqualLength(disk[runtime]["libmodel.so"], disk[selected][f])

GenericThere ==
    Has("native", {"libmodel.so"}) => Has("qnn-runtime", {"libmodel.so"})

RuntimeThere ==
    /\ runtime = "qnn-runtime-qwen3" => DecoderThere
    /\ runtime = "qnn-runtime" => GenericThere

Handing ==
    /\ stage \in {"model", "qwen3-runtime", "runtime", "send"} => arg = None
    /\ stage \in {"model", "qwen3-runtime"} => modelDir = selected
    /\ stage = "qwen3-runtime" => modelDir = "qwen3-asr-0.6b-qnn"
    /\ stage \in {"runtime", "send"} => Handed(modelDir)
    /\ stage \in {"fill", "init", "done"} =>
          Handed(arg) /\ (Prepares(selected) => arg # selected)
    /\ stage \in {"copy", "copying"} => Copying
    /\ stage \in {"init", "done"} => runtime # None

Undisturbed ==
    /\ import = NoImport
    /\ stage \notin {"idle", "redelivered"} =>
          selected = Resolve /\ Handing /\ RuntimeThere

\* init forgets no creation: the ones it no longer has before it were refused
\* or had not what they need.
Tried ==
    /\ engine = "init" =>
          /\ Range(tries) \subseteq Range(Tries(ModelKind))
          /\ \A t \in Range(Tries(ModelKind)) :
                t \in Range(tries) \/ t.name \in refused \/ ~CanLoad(t)
    /\ engine = "failed" =>
          \A t \in Range(Tries(ModelKind)) : t.name \in refused \/ ~CanLoad(t)

SelectionInv ==
    /\ StorageOK(disk) /\ PacksOK /\ EngineOK
    /\ disturbed = FALSE => Undisturbed /\ Tried

\* What a file that is put changes.
LEMMA PutFacts ==
    ASSUME NEW s, DOMAIN s = Dirs, NEW d \in Dirs, NEW f, NEW c
    PROVE  /\ DOMAIN Put(s, d, f, c) = Dirs
           /\ \A e \in Dirs : e # d => Put(s, d, f, c)[e] = s[e]
           /\ DOMAIN Put(s, d, f, c)[d] = DOMAIN s[d] \cup {f}
           /\ Put(s, d, f, c)[d][f] = c
           /\ \A g \in DOMAIN s[d] : g # f => Put(s, d, f, c)[d][g] = s[d][g]
BY DEF Put

-----------------------------------------------------------------------------
(* The selection *)

Order == Append(<<OwnPack(policy)>> \o Fallbacks, "paraformer")

LEMMA OrderFacts ==
    /\ DOMAIN Order = 1..8 /\ Len(Order) = 8 /\ Order[1] = OwnPack(policy)
    /\ Order[2] = "fire-red-asr2-ctc" /\ Order[3] = "paraformer-qnn"
    /\ Order[4] = "paraformer-offline" /\ Order[5] = "zipformer-ctc"
    /\ Order[6] = "qwen3-asr-0.6b-qnn" /\ Order[7] = "qwen3-asr-0.6b"
    /\ Order[8] = "paraformer"
BY DEF Order, Fallbacks

\* Of the packs in the order of the selection, the first that is ready.
LEMMA ResolveIsFirst ==
    \E i \in 1..8 : /\ Resolve = Order[i] /\ (i = 8 \/ Ready(Order[i]))
                    /\ \A j \in 1..(i - 1) : ~Ready(Order[j])
<1> DEFINE R(i) == Ready(Order[i])
           First(i) == (i = 8 \/ R(i)) /\ \A j \in 1..(i - 1) : ~R(j)
<1>1. Resolve = Order[CHOOSE i \in 1..8 : First(i)]
  BY OrderFacts DEF Resolve, Order
<1> HIDE DEF R
<1>2. \E i \in 1..8 : First(i)
  <2>1. CASE R(1)
    BY <2>1
  <2>2. CASE ~R(1) /\ R(2)
    BY <2>2
  <2>3. CASE ~R(1) /\ ~R(2) /\ R(3)
    BY <2>3
  <2>4. CASE ~R(1) /\ ~R(2) /\ ~R(3) /\ R(4)
    BY <2>4
  <2>5. CASE ~R(1) /\ ~R(2) /\ ~R(3) /\ ~R(4) /\ R(5)
    BY <2>5
  <2>6. CASE ~R(1) /\ ~R(2) /\ ~R(3) /\ ~R(4) /\ ~R(5) /\ R(6)
    BY <2>6
  <2>7. CASE ~R(1) /\ ~R(2) /\ ~R(3) /\ ~R(4) /\ ~R(5) /\ ~R(6)
    BY <2>7
  <2> QED
    BY <2>1, <2>2, <2>3, <2>4, <2>5, <2>6, <2>7
<1> HIDE DEF First
<1>3. PICK k : k = CHOOSE i \in 1..8 : First(i)
  OBVIOUS
<1>4. k \in 1..8 /\ First(k)
  BY <1>2, <1>3
<1> QED
  BY <1>1, <1>3, <1>4 DEF First, R

LEMMA OwnPackFacts ==
    ASSUME NEW p \in Policies
    PROVE  OwnPack(p) \in {"sensevoice", "paraformer-qnn", "paraformer-offline",
                           "qwen3-asr-0.6b", "fire-red-asr2-ctc", "fire-red-asr2-ctc-qnn"}
<1>1. p \in {"auto", "standard", "fast", "mixed", "rescue", "firered", "firered_qnn"}
  BY PacksAssumption
<1> QED
  BY <1>1 DEF OwnPack

LEMMA ResolveFacts ==
    ASSUME policy \in Policies
    PROVE  /\ Resolve \in External \ {"native"}
           /\ Resolve = "paraformer" \/ Ready(Resolve)
           /\ Ready(OwnPack(policy)) => Resolve = OwnPack(policy)
<1>1. PICK i \in 1..8 : /\ Resolve = Order[i] /\ (i = 8 \/ Ready(Order[i]))
                        /\ \A j \in 1..(i - 1) : ~Ready(Order[j])
  BY ResolveIsFirst
<1>2. Resolve \in External \ {"native"}
  BY <1>1, OrderFacts, OwnPackFacts DEF External
<1>3. Resolve = "paraformer" \/ Ready(Resolve)
  BY <1>1, OrderFacts
<1>4. ASSUME Ready(OwnPack(policy)) PROVE Resolve = OwnPack(policy)
  <2>1. i = 1
    BY <1>1, <1>4, OrderFacts
  <2> QED
    BY <2>1, <1>1, OrderFacts
<1> QED
  BY <1>2, <1>3, <1>4

\* The selection depends on the policy and the external storage only.
LEMMA ReadySame ==
    ASSUME \A d \in External : disk'[d] = disk[d], NEW p \in External \ {"native"}
    PROVE  Ready(p)' <=> Ready(p)
BY DEF Ready, Has, HasAny, External

LEMMA ResolveIsFirstThen ==
    (\E i \in 1..8 : /\ Resolve = Order[i] /\ (i = 8 \/ Ready(Order[i]))
                     /\ \A j \in 1..(i - 1) : ~Ready(Order[j]))'
BY ResolveIsFirst, PTL

LEMMA ResolveSame ==
    ASSUME policy \in Policies, UNCHANGED policy, \A d \in External : disk'[d] = disk[d]
    PROVE  Resolve' = Resolve
<1>1. PICK i \in 1..8 : /\ Resolve = Order[i] /\ (i = 8 \/ Ready(Order[i]))
                        /\ \A j \in 1..(i - 1) : ~Ready(Order[j])
  BY ResolveIsFirst
<1>3. Order' = Order
  BY DEF Order, Fallbacks
<1>4. \A j \in 1..8 : Order[j] \in External \ {"native"}
  BY OrderFacts, OwnPackFacts DEF External
<1>5. ASSUME NEW j \in 1..8 PROVE Ready(Order[j])' <=> Ready(Order[j])
  <2>1. Order[j] \in External \ {"native"} /\ Order'[j] = Order[j]
    BY <1>3, <1>4
  <2>2. \A p \in External \ {"native"} : Ready(p)' <=> Ready(p)
    BY ReadySame
  <2> QED
    BY <2>1, <2>2
<1>6. PICK k \in 1..8 : /\ Resolve' = Order'[k] /\ (k = 8 \/ Ready(Order[k])')
                        /\ \A j \in 1..(k - 1) : ~Ready(Order[j])'
  BY ResolveIsFirstThen
<1>7. ~ i < k /\ ~ k < i
  <2>1. \A j \in 1..8 : Ready(Order[j])' <=> Ready(Order[j])
    BY <1>5
  <2> QED
    BY <1>1, <1>6, <2>1
<1> QED
  BY <1>1, <1>3, <1>6, <1>7

-----------------------------------------------------------------------------
(* The storage *)

LEMMA TornFacts ==
    ASSUME NEW c, IsContent(c)
    PROVE  IsContent(Torn(c)) /\ Torn(c).pack = c.pack /\ Torn(c).file = c.file
<1>1. c \in [pack : {c.pack}, file : {c.file}, version : {c.version}, whole : BOOLEAN]
  BY DEF IsContent
<1>2. /\ Torn(c) \in [pack : {c.pack}, file : {c.file}, version : {c.version}, whole : BOOLEAN]
      /\ ~Torn(c).whole
  BY <1>1 DEF Torn
<1>3. Torn(c).pack = c.pack /\ Torn(c).file = c.file
  BY <1>2
<1> QED
  BY <1>2, <1>3 DEF IsContent

LEMMA FileFacts ==
    ASSUME NEW p \in External, NEW f, NEW v
    PROVE  IsContent(File(p, f, v)) /\ File(p, f, v).pack = p /\ File(p, f, v).file = f
BY DEF IsContent, File

Fitting(s, d, f, c) ==
    /\ IsContent(c) /\ c.pack \in Owners(d)
    /\ d \in External \cup Copies => c.file = f
    /\ d \in Copies => f \in Range(Wanted(d)) /\ f \in DOMAIN s[c.pack]
    /\ d \in {"native", "qnn-runtime"} => c.whole

\* Where a file fits, putting it there keeps the storage in order.
LEMMA PutOK ==
    ASSUME NEW s, StorageOK(s), NEW d \in Dirs, NEW f, NEW c, Fitting(s, d, f, c)
    PROVE  /\ StorageOK(Put(s, d, f, c))
           /\ \A e \in Dirs : DOMAIN s[e] \subseteq DOMAIN Put(s, d, f, c)[e]
           /\ \A e \in Dirs : e # d => Put(s, d, f, c)[e] = s[e]
           /\ f \in DOMAIN Put(s, d, f, c)[d] /\ Put(s, d, f, c)[d][f] = c
           /\ \A g \in DOMAIN s[d] : g # f => Put(s, d, f, c)[d][g] = s[d][g]
<1> DEFINE t == Put(s, d, f, c)
<1>1. /\ DOMAIN t = Dirs
      /\ \A e \in Dirs : e # d => t[e] = s[e]
      /\ DOMAIN t[d] = DOMAIN s[d] \cup {f}
      /\ t[d][f] = c
      /\ \A g \in DOMAIN s[d] : g # f => t[d][g] = s[d][g]
  BY PutFacts DEF StorageOK
<1> HIDE DEF t
<1>2. ASSUME NEW e \in Dirs, NEW g \in DOMAIN t[e]
      PROVE  \/ e = d /\ g = f /\ t[e][g] = c
             \/ g \in DOMAIN s[e] /\ t[e][g] = s[e][g]
  BY <1>1
<1>3. \A e \in Dirs : DOMAIN s[e] \subseteq DOMAIN t[e]
  BY <1>1
<1>4. External \subseteq Dirs /\ Copies \subseteq Dirs
  BY DEF Dirs, Copies, Internal
<1>5. ASSUME NEW e \in Dirs, NEW g \in DOMAIN t[e]
      PROVE  IsContent(t[e][g]) /\ t[e][g].pack \in Owners(e)
  BY <1>2, <1>5 DEF StorageOK, Fitting
<1>6. ASSUME NEW e \in External \cup Copies, NEW g \in DOMAIN t[e]
      PROVE  t[e][g].file = g
  BY <1>2, <1>4, <1>6 DEF StorageOK, Fitting
<1>7. ASSUME NEW e \in Copies, NEW g \in DOMAIN t[e]
      PROVE  g \in Range(Wanted(e)) /\ g \in DOMAIN t[t[e][g].pack]
  <2>1. t[e][g].pack \in Dirs
    BY <1>4, <1>5 DEF IsContent
  <2>2. g \in Range(Wanted(e)) /\ g \in DOMAIN s[t[e][g].pack]
    BY <1>2, <1>4 DEF StorageOK, Fitting
  <2> QED
    BY <2>1, <2>2, <1>3
<1>8. ASSUME NEW e \in {"native", "qnn-runtime"}, NEW g \in DOMAIN t[e]
      PROVE  t[e][g].whole
  <2>1. e \in Dirs
    BY DEF Dirs, External, Internal
  <2> QED
    BY <1>2, <2>1 DEF StorageOK, Fitting
<1>9. StorageOK(t)
  BY <1>1, <1>5, <1>6, <1>7, <1>8 DEF StorageOK
<1> QED
  BY <1>1, <1>3, <1>9 DEF t

LEMMA OwnersFacts ==
    /\ \A d \in External : Owners(d) = {d}
    /\ Owners("files/sensevoice") = {"sensevoice"}
    /\ Owners("files/paraformer-qnn") = {"paraformer-qnn"}
    /\ Owners("fire_red_qnn_ml") = FireRedPacks
    /\ Owners("qnn-runtime") = {"native"}
    /\ Owners("qnn-runtime-qwen3") = External
BY DEF Owners, External

LEMMA TargetFacts ==
    ASSUME NEW d
    PROVE  /\ Target(d) \in Copies \cup {None}
           /\ Target(d) # None => /\ d \in Dirs /\ d \in (External \ {"native"}) \cup Copies
                                  /\ Owners(d) \subseteq Owners(Target(d))
           /\ d \in Copies => Target(d) = d
           /\ Target(d) \in Copies => Target(d) # None
BY DEF Target, Copies, None, Dirs, External, Internal, FireRedDirs, FireRedPacks, Owners

\* The generic runtime directory gets the library of the APK.
LEMMA GenericOK ==
    ASSUME StorageOK(disk), NEW s, StorageOK(s)
    PROVE  /\ StorageOK(Generic(s))
           /\ \A e \in Dirs : e # "qnn-runtime" => Generic(s)[e] = s[e]
           /\ \A e \in Dirs : DOMAIN s[e] \subseteq DOMAIN Generic(s)[e]
           /\ Has("native", {"libmodel.so"}) =>
                 "libmodel.so" \in DOMAIN Generic(s)["qnn-runtime"]
<1>1. CASE ~Has("native", {"libmodel.so"})
  BY <1>1 DEF Generic
<1>2. CASE Has("native", {"libmodel.so"})
  <2> DEFINE c == disk["native"]["libmodel.so"]
  <2>1. "native" \in Dirs /\ "qnn-runtime" \in Dirs /\ "native" \in External
    BY DEF Dirs, External, Internal
  <2>2. IsContent(c) /\ c.pack = "native" /\ c.whole
    BY <1>2, <2>1, OwnersFacts DEF StorageOK, Has
  <2> HIDE DEF c
  <2>3. Fitting(s, "qnn-runtime", "libmodel.so", c)
    <3>1. c.pack \in Owners("qnn-runtime")
      BY <2>2, OwnersFacts
    <3>2. "qnn-runtime" \notin External \cup Copies
      BY DEF External, Copies
    <3> QED
      BY <2>2, <3>1, <3>2 DEF Fitting
  <2>5. Generic(s) = Put(s, "qnn-runtime", "libmodel.so", c)
    BY <1>2 DEF Generic, c
  <2> QED
    BY <2>1, <2>3, <2>5, PutOK
<1> QED
  BY <1>1, <1>2

\* What is copied fits where it is copied to.
LEMMA CopySource ==
    ASSUME StorageOK(disk), PacksOK, stage \in {"copy", "copying"},
           NEW f \in Range(prep.todo), Has(prep.from, {f})
    PROVE  /\ prep.to \in Copies /\ prep.from \in Dirs
           /\ IsContent(disk[prep.from][f])
           /\ Fitting(disk, prep.to, f, disk[prep.from][f])
           /\ Fitting(disk, prep.to, f, Torn(disk[prep.from][f]))
<1> DEFINE c == disk[prep.from][f]
<1>1. /\ prep.from \in Dirs /\ prep.to \in Copies
      /\ Target(prep.from) = prep.to /\ prep.todo \in Seq(Range(Wanted(prep.to)))
  BY DEF PacksOK
<1>1a. f \in Range(Wanted(prep.to))
  BY <1>1, RangeFacts
<1>2. /\ prep.from \in (External \ {"native"}) \cup Copies
      /\ Owners(prep.from) \subseteq Owners(prep.to)
      /\ prep.from \in Copies => prep.from = prep.to
  BY <1>1, TargetFacts
<1>3. f \in DOMAIN disk[prep.from]
  BY DEF Has
<1>4. IsContent(c) /\ c.pack \in Owners(prep.from)
  BY <1>1, <1>3 DEF StorageOK
<1>5. c.file = f
  BY <1>2, <1>3 DEF StorageOK
<1>6. f \in DOMAIN disk[c.pack]
  <2>1. CASE prep.from \in External
    BY <2>1, <1>3, <1>4, OwnersFacts
  <2>2. CASE prep.from \in Copies
    BY <2>2, <1>3 DEF StorageOK
  <2> QED
    BY <2>1, <2>2, <1>2
<1>7. IsContent(Torn(c)) /\ Torn(c).pack = c.pack /\ Torn(c).file = c.file
  BY <1>4, TornFacts
<1> HIDE DEF c
<1>8a. prep.to \notin {"native", "qnn-runtime"}
  BY <1>1 DEF Copies
<1>8. Fitting(disk, prep.to, f, c) /\ Fitting(disk, prep.to, f, Torn(c))
  BY <1>1, <1>1a, <1>2, <1>4, <1>5, <1>6, <1>7, <1>8a DEF Fitting
<1> QED
  BY <1>1, <1>4, <1>8 DEF c

LEMMA GenericRuntimeFacts ==
    ASSUME StorageOK(disk), GenericRuntime
    PROVE  /\ StorageOK(disk)'
           /\ \A e \in Dirs : DOMAIN disk[e] \subseteq DOMAIN disk'[e]
           /\ \A e \in External \cup Copies : disk'[e] = disk[e]
           /\ runtime' = "qnn-runtime" /\ GenericThere' /\ NoFault
<1>1. External \cup Copies \subseteq Dirs /\ "qnn-runtime" \notin External \cup Copies
      /\ "native" \in External
  BY DEF Dirs, External, Copies, Internal
<1>2. disk' = Generic(disk) /\ runtime' = "qnn-runtime" /\ NoFault
  BY DEF GenericRuntime
<1>3. /\ StorageOK(Generic(disk))
      /\ \A e \in Dirs : e # "qnn-runtime" => Generic(disk)[e] = disk[e]
      /\ \A e \in Dirs : DOMAIN disk[e] \subseteq DOMAIN Generic(disk)[e]
      /\ Has("native", {"libmodel.so"}) =>
            "libmodel.so" \in DOMAIN Generic(disk)["qnn-runtime"]
  BY GenericOK
<1>4. \A e \in External \cup Copies : disk'[e] = disk[e]
  BY <1>1, <1>2, <1>3
<1>5. GenericThere'
  BY <1>1, <1>2, <1>3, <1>4 DEF GenericThere, Has
<1> QED
  BY <1>2, <1>3, <1>4, <1>5

\* What prepareQwen3QnnRuntimeDir leaves: the decoder in its directory, or
\* what the other one leaves.
LEMMA Qwen3RuntimeFacts ==
    ASSUME StorageOK(disk), NEW d \in External, NEW decoder, Qwen3Runtime(d, decoder)
    PROVE  /\ StorageOK(disk)'
           /\ \A e \in Dirs : DOMAIN disk[e] \subseteq DOMAIN disk'[e]
           /\ \A e \in External \cup Copies : disk'[e] = disk[e]
           /\ runtime' \in {"qnn-runtime", "qnn-runtime-qwen3"}
           /\ runtime' = "qnn-runtime" => GenericThere'
           /\ runtime' = "qnn-runtime-qwen3" =>
                 /\ decoder \in DOMAIN disk[d]
                 /\ "libmodel.so" \in DOMAIN disk'["qnn-runtime-qwen3"]
                 /\ EqualLength(disk'["qnn-runtime-qwen3"]["libmodel.so"], disk[d][decoder])
           /\ NoFault \/ Fault
<1> DEFINE to == "qnn-runtime-qwen3"
           c == disk[d][decoder]
<1>1. External \cup Copies \subseteq Dirs /\ to \notin External \cup Copies
      /\ "native" \in External /\ to \in Dirs
      /\ "qnn-runtime" \notin External \cup Copies
  BY DEF Dirs, External, Copies, Internal
<1>2. CASE ~Has(d, {decoder})
  BY <1>2, GenericRuntimeFacts DEF Qwen3Runtime
<1>3. CASE Has(d, {decoder})
  <2>1. decoder \in DOMAIN disk[d] /\ d \in Dirs
    BY <1>1, <1>3 DEF Has
  <2>2. IsContent(c)
    BY <2>1 DEF StorageOK
  <2>3. c.pack \in External
    BY <2>2 DEF IsContent
  <2>4. IsContent(Torn(c)) /\ Torn(c).pack = c.pack
    BY <2>2, TornFacts
  <2>5. \/ /\ Has(to, {"libmodel.so"}) /\ EqualLength(disk[to]["libmodel.so"], c)
           /\ runtime' = to /\ UNCHANGED disk /\ NoFault
        \/ runtime' = to /\ disk' = Put(disk, to, "libmodel.so", c) /\ NoFault
        \/ /\ runtime' = "qnn-runtime" /\ Fault
           /\ disk' = Generic(Put(disk, to, "libmodel.so", Torn(c)))
    BY <1>3 DEF Qwen3Runtime
  <2> HIDE DEF c
  <2>6. Fitting(disk, to, "libmodel.so", c) /\ Fitting(disk, to, "libmodel.so", Torn(c))
    <3>1. c.pack \in Owners(to) /\ Torn(c).pack \in Owners(to)
      BY <2>3, <2>4, OwnersFacts
    <3>2. to \notin External \cup Copies /\ to \notin {"native", "qnn-runtime"}
      BY <1>1
    <3> QED
      BY <2>2, <2>4, <3>1, <3>2 DEF Fitting
  <2>7. CASE /\ Has(to, {"libmodel.so"}) /\ EqualLength(disk[to]["libmodel.so"], c)
             /\ runtime' = to /\ UNCHANGED disk /\ NoFault
    BY <2>1, <2>7 DEF Has, c
  <2>8. CASE runtime' = to /\ disk' = Put(disk, to, "libmodel.so", c) /\ NoFault
    <3>1. /\ StorageOK(disk')
          /\ \A e \in Dirs : DOMAIN disk[e] \subseteq DOMAIN disk'[e]
          /\ \A e \in Dirs : e # to => disk'[e] = disk[e]
          /\ "libmodel.so" \in DOMAIN disk'[to] /\ disk'[to]["libmodel.so"] = c
      BY <1>1, <2>6, <2>8, PutOK
    <3>2. EqualLength(disk'[to]["libmodel.so"], disk[d][decoder])
      BY <3>1 DEF EqualLength, c
    <3>3. \A e \in External \cup Copies : disk'[e] = disk[e]
      BY <1>1, <3>1
    <3> QED
      BY <2>1, <2>8, <3>1, <3>2, <3>3
  <2>9. CASE /\ runtime' = "qnn-runtime" /\ Fault
             /\ disk' = Generic(Put(disk, to, "libmodel.so", Torn(c)))
    <3> DEFINE s == Put(disk, to, "libmodel.so", Torn(c))
    <3>1. /\ StorageOK(s)
          /\ \A e \in Dirs : DOMAIN disk[e] \subseteq DOMAIN s[e]
          /\ \A e \in Dirs : e # to => s[e] = disk[e]
      BY <1>1, <2>6, PutOK
    <3>2. disk' = Generic(s)
      BY <2>9
    <3> HIDE DEF s
    <3>3. /\ StorageOK(disk')
          /\ \A e \in Dirs : e # "qnn-runtime" => disk'[e] = s[e]
          /\ \A e \in Dirs : DOMAIN s[e] \subseteq DOMAIN disk'[e]
          /\ Has("native", {"libmodel.so"}) => "libmodel.so" \in DOMAIN disk'["qnn-runtime"]
      BY <3>1, <3>2, GenericOK
    <3>4. \A e \in External \cup Copies : disk'[e] = disk[e]
      BY <1>1, <3>1, <3>3
    <3>5. GenericThere'
      BY <1>1, <3>3, <3>4 DEF GenericThere, Has
    <3> QED
      BY <2>9, <3>1, <3>3, <3>4, <3>5
  <2> QED
    BY <2>5, <2>7, <2>8, <2>9
<1> QED
  BY <1>2, <1>3

LEMMA WantedFacts ==
    /\ Range(Wanted("files/sensevoice")) = {"libmodel.so", "model.bin", "tokens.txt"}
    /\ Range(Wanted("fire_red_qnn_ml")) = {"libmodel.so", "cmvn.txt", "tokens.txt"}
    /\ Range(Wanted("files/paraformer-qnn")) =
          {"libencoder.so", "libpredictor.so", "libdecoder.so", "tokens.txt"}
    /\ \A to \in Copies : Wanted(to) \in Seq(Range(Wanted(to)))
BY DEF Wanted, Copies, Range

LEMMA PrepareFacts ==
    ASSUME NEW d, NEW next, Prepare(d, next)
    PROVE  \/ /\ Prepares(d) /\ stage' = "copy" /\ NoFault
              /\ d \in Dirs /\ Target(d) \in Copies
              /\ prep' = [from |-> d, to |-> Target(d), todo |-> Wanted(Target(d))]
              /\ prep'.from = d /\ prep'.to = Target(d)
              /\ prep'.todo = Wanted(Target(d))
              /\ Wanted(Target(d)) \in Seq(Range(Wanted(Target(d))))
           \/ /\ prep' = NoPrep /\ stage' = next
              /\ (~Prepares(d) /\ NoFault) \/ Fault
<1>1. CASE Prepares(d)
  <2>1. d \in Dirs /\ Target(d) \in Copies
    BY <1>1, TargetFacts DEF Prepares
  <2>2. Wanted(Target(d)) \in Seq(Range(Wanted(Target(d))))
    BY <2>1, WantedFacts
  <2> QED
    BY <1>1, <2>1, <2>2 DEF Prepare
<1>2. CASE ~Prepares(d)
  BY <1>2 DEF Prepare
<1> QED
  BY <1>1, <1>2

\* What a step does to the storage.
StorageStep ==
    /\ StorageOK(disk)'
    /\ \A d \in Dirs : DOMAIN disk[d] \subseteq DOMAIN disk'[d]
    /\ disturbed' = FALSE => \A d \in External : disk'[d] = disk[d]

LEMMA StorageNext ==
    ASSUME StorageOK(disk), PacksOK, [SelectionNext]_selectionVars
    PROVE  StorageStep
<1> USE DEF StorageStep
<1>1. CASE UNCHANGED disk
  BY <1>1 DEF StorageOK
<1>2. CASE CopyOpen
  <2> DEFINE f == Head(prep.todo)
  <2>1. /\ stage = "copy" /\ prep.todo # <<>> /\ Has(prep.from, {f})
        /\ disk' = Put(disk, prep.to, f, Torn(disk[prep.from][f]))
    BY <1>2 DEF CopyOpen, Stale
  <2>2. f \in Range(prep.todo)
    BY <2>1, TailFacts DEF PacksOK
  <2> HIDE DEF f
  <2>3. prep.to \in Copies /\ Fitting(disk, prep.to, f, Torn(disk[prep.from][f]))
    BY <2>1, <2>2, CopySource
  <2>4. prep.to \in Dirs /\ \A d \in External : d \in Dirs /\ d # prep.to
    BY <2>3 DEF Copies, External, Dirs, Internal
  <2> QED
    BY <2>1, <2>3, <2>4, PutOK
<1>3. CASE CopyClose
  <2> DEFINE f == Head(prep.todo)
  <2>1. stage = "copying" /\ prep.todo # <<>> /\ Has(prep.from, {f})
    BY <1>3 DEF CopyClose, PacksOK
  <2>2. f \in Range(prep.todo)
    BY <2>1, TailFacts DEF PacksOK
  <2>3. UNCHANGED disk \/ disk' = Put(disk, prep.to, f, disk[prep.from][f])
    BY <1>3 DEF CopyClose
  <2> HIDE DEF f
  <2>4. prep.to \in Copies /\ Fitting(disk, prep.to, f, disk[prep.from][f])
    BY <2>1, <2>2, CopySource
  <2>5. prep.to \in Dirs /\ \A d \in External : d \in Dirs /\ d # prep.to
    BY <2>4 DEF Copies, External, Dirs, Internal
  <2> QED
    BY <1>1, <2>3, <2>4, <2>5, PutOK
<1>4. CASE ActivityRuntime
  <2>1. stage = "qwen3-runtime" => QnnSibling(modelDir) \in External
    BY DEF PacksOK, QnnSibling, External
  <2> QED
    BY <1>4, <2>1, GenericRuntimeFacts, Qwen3RuntimeFacts DEF ActivityRuntime
<1>5. CASE ServiceRuntime
  <2>1. Resolve \in External
    BY ResolveFacts DEF PacksOK
  <2> QED
    BY <1>1, <1>5, <2>1, GenericRuntimeFacts, Qwen3RuntimeFacts DEF ServiceRuntime
<1>6. CASE ImportEntry
  <2> DEFINE f == Head(import.todo)
             p == import.pack
  <2>1. p \in External \ {"native"}
    BY <1>6 DEF ImportEntry, PacksOK, NoImport
  <2>2. /\ IsContent(File(p, f, 2)) /\ File(p, f, 2).pack = p /\ File(p, f, 2).file = f
    BY <2>1, FileFacts
  <2>3. /\ IsContent(Torn(File(p, f, 2))) /\ Torn(File(p, f, 2)).pack = p
        /\ Torn(File(p, f, 2)).file = f
    BY <2>2, TornFacts
  <2>4. /\ disturbed' = TRUE
        /\ \/ disk' = Put(disk, p, f, File(p, f, 2))
           \/ disk' = Put(disk, p, f, Torn(File(p, f, 2)))
    BY <1>6 DEF ImportEntry
  <2>5. p \in Dirs /\ p \notin Copies /\ p \notin {"native", "qnn-runtime"}
    BY <2>1 DEF Dirs, External, Copies
  <2> HIDE DEF f, p
  <2>6. /\ Fitting(disk, p, f, File(p, f, 2))
        /\ Fitting(disk, p, f, Torn(File(p, f, 2)))
    BY <2>1, <2>2, <2>3, <2>5, OwnersFacts DEF Fitting
  <2> QED
    BY <2>4, <2>5, <2>6, PutOK
<1>7. \/ UNCHANGED disk \/ CopyOpen \/ CopyClose \/ ActivityRuntime \/ ServiceRuntime
      \/ ImportEntry
  BY DEF SelectionNext, selectionVars, packVars, PacksStep, StartServer, Die, SetPolicy,
         ActivityModel, Send, Redelivered, CopySkip, CopyDone, ImportBegin, ImportDone,
         ImportFails, InitBegin, InitSucceeds, InitFallsBack, InitFails
<1> QED
  BY <1>1, <1>2, <1>3, <1>4, <1>5, <1>6, <1>7

LEMMA PacksNext ==
    ASSUME StorageOK(disk), PacksOK, [SelectionNext]_selectionVars
    PROVE  PacksOK'
<1> DEFINE PrepOK ==
             /\ prep = [from |-> prep.from, to |-> prep.to, todo |-> prep.todo]
             /\ prep.from \in Dirs /\ prep.to \in Copies /\ Target(prep.from) = prep.to
             /\ prep.todo \in Seq(Range(Wanted(prep.to)))
           Types ==
             /\ policy \in Policies /\ stage \in Stages
             /\ import \in [pack : External \ {"native"}, todo : Seq(STRING)] \cup {NoImport}
             /\ modelDir \in Dirs \cup {None} /\ arg \in Dirs \cup {None}
             /\ selected \in External \cup {None}
             /\ runtime \in {None, "qnn-runtime", "qnn-runtime-qwen3"}
             /\ disturbed \in BOOLEAN
             /\ stage = "qwen3-runtime" => modelDir \in External
<1>0. Types
  BY DEF PacksOK
<1>1. /\ StorageStep
      /\ stage \in {"copy", "copying"} => PrepOK
  BY StorageNext DEF PacksOK
<1>2. Resolve \in External \ {"native"} /\ External \subseteq Dirs
  BY ResolveFacts DEF PacksOK, Dirs
<1>3. ASSUME NEW d, NEW next, Prepare(d, next), next \in {"runtime", "fill"}
      PROVE  /\ stage' \in {"copy", next} /\ (stage' = "copy" => PrepOK')
             /\ disturbed' \in {disturbed, TRUE}
  BY <1>3, PrepareFacts DEF NoFault, Fault
<1> USE DEF Stages
<1>4. CASE UNCHANGED packVars
  BY <1>4 DEF PacksOK, packVars, Has
<1>5. CASE StartServer
  <2>1. Types' /\ stage' \notin {"copy", "copying"}
    BY <1>0, <1>2, <1>5 DEF StartServer
  <2> QED
    BY <2>1 DEF PacksOK
<1>6. CASE Die
  <2>1. Types' /\ stage' \notin {"copy", "copying"}
    BY <1>0, <1>6 DEF Die
  <2> QED
    BY <2>1 DEF PacksOK
<1>7. ASSUME NEW p \in Policies, SetPolicy(p) PROVE PacksOK'
  <2>1. Types' /\ stage' \notin {"copy", "copying"}
    BY <1>0, <1>7 DEF SetPolicy
  <2> QED
    BY <2>1 DEF PacksOK
<1>8. CASE ActivityModel
  <2>1. /\ stage' \in {"copy", "runtime"} /\ (stage' = "copy" => PrepOK')
        /\ disturbed' \in {disturbed, TRUE}
    BY <1>3, <1>8 DEF ActivityModel, NoFault
  <2>2. Types'
    BY <1>0, <1>8, <2>1 DEF ActivityModel
  <2> QED
    BY <2>1, <2>2 DEF PacksOK
<1>9. CASE ActivityRuntime
  <2>1. stage = "qwen3-runtime" => QnnSibling(modelDir) \in External
    BY DEF PacksOK, QnnSibling, External
  <2>2. runtime' \in {"qnn-runtime", "qnn-runtime-qwen3"} /\ disturbed' \in {disturbed, TRUE}
    BY <1>9, <2>1, GenericRuntimeFacts, Qwen3RuntimeFacts DEF ActivityRuntime, NoFault, Fault
  <2>3. Types' /\ stage' \notin {"copy", "copying"}
    BY <1>0, <1>9, <2>2 DEF ActivityRuntime
  <2> QED
    BY <2>3 DEF PacksOK
<1>10. CASE Send
  <2>1. /\ stage' \in {"copy", "fill"} /\ (stage' = "copy" => PrepOK')
        /\ disturbed' \in {disturbed, TRUE}
    BY <1>3, <1>10 DEF Send
  <2>2. Types'
    BY <1>0, <1>10, <2>1 DEF Send
  <2> QED
    BY <2>1, <2>2 DEF PacksOK
<1>11. CASE Redelivered
  <2>1. /\ stage' \in {"copy", "fill"} /\ (stage' = "copy" => PrepOK')
        /\ disturbed' \in {disturbed, TRUE}
    BY <1>3, <1>11 DEF Redelivered
  <2>2. Types'
    BY <1>0, <1>2, <1>11, <2>1 DEF Redelivered
  <2> QED
    BY <2>1, <2>2 DEF PacksOK
<1>12. CASE ServiceRuntime
  <2>2. /\ runtime' \in {None, "qnn-runtime", "qnn-runtime-qwen3"}
        /\ disturbed' \in {disturbed, TRUE}
    BY <1>0, <1>2, <1>12, GenericRuntimeFacts, Qwen3RuntimeFacts
       DEF ServiceRuntime, NoFault, Fault
  <2>3. Types' /\ stage' \notin {"copy", "copying"}
    BY <1>0, <1>12, <2>2 DEF ServiceRuntime
  <2> QED
    BY <2>3 DEF PacksOK
<1>13. CASE CopyOpen
  <2>1. Types' /\ stage' = "copying" /\ PrepOK' /\ prep.todo # <<>> /\ UNCHANGED prep
    BY <1>0, <1>1, <1>13 DEF CopyOpen
  <2>2. prep.from \in Dirs /\ Head(prep.todo) \in DOMAIN disk[prep.from]
    BY <1>1, <1>13 DEF CopyOpen, Stale, Has
  <2>3. Has(prep.from, {Head(prep.todo)})'
    BY <1>1, <2>1, <2>2 DEF StorageStep, Has
  <2> QED
    BY <2>1, <2>3 DEF PacksOK
<1>14. ASSUME PrepOK, prep.todo # <<>>, prep' = [prep EXCEPT !.todo = Tail(@)]
       PROVE  PrepOK'
  <2>1. Tail(prep.todo) \in Seq(Range(Wanted(prep.to)))
    BY <1>14, TailFacts
  <2>2. PICK from, to, todo : prep = [from |-> from, to |-> to, todo |-> todo]
    BY <1>14
  <2>3. /\ prep' = [from |-> prep.from, to |-> prep.to, todo |-> Tail(prep.todo)]
    BY <1>14, <2>2
  <2> QED
    BY <1>14, <2>1, <2>3
<1>15. CASE CopyClose
  <2>1. Types' /\ stage' = "copy" /\ prep.todo # <<>> /\ prep' = [prep EXCEPT !.todo = Tail(@)]
    BY <1>0, <1>15 DEF CopyClose, PacksOK, NoFault, Fault
  <2>2. PrepOK'
    BY <1>1, <1>14, <1>15, <2>1 DEF CopyClose
  <2> QED
    BY <2>1, <2>2 DEF PacksOK
<1>16. CASE CopySkip
  <2>1. Types' /\ stage' = "copy" /\ prep.todo # <<>> /\ prep' = [prep EXCEPT !.todo = Tail(@)]
    BY <1>0, <1>16 DEF CopySkip
  <2>2. PrepOK'
    BY <1>1, <1>14, <1>16, <2>1 DEF CopySkip
  <2> QED
    BY <2>1, <2>2 DEF PacksOK
<1>17. CASE CopyDone
  <2>1. prep.to \in Dirs
    BY <1>1, <1>17 DEF CopyDone, Copies, Dirs, Internal
  <2>2. Types' /\ stage' \notin {"copy", "copying"}
    BY <1>0, <1>17, <2>1 DEF CopyDone
  <2> QED
    BY <2>2 DEF PacksOK
<1>18. ASSUME UNCHANGED <<stage, prep>>, Types' PROVE PacksOK'
  <2>1. stage \in {"copy", "copying"} => PrepOK'
    BY <1>1, <1>18
  <2>2. stage = "copying" => /\ prep.from \in Dirs /\ prep.todo # <<>>
                            /\ Head(prep.todo) \in DOMAIN disk[prep.from]
    BY DEF PacksOK, Has
  <2>3. stage = "copying" => Has(prep.from, {Head(prep.todo)})'
    BY <1>1, <1>18, <2>2 DEF StorageStep, Has
  <2> QED
    BY <1>18, <2>1, <2>2, <2>3 DEF PacksOK
<1>19. ASSUME NEW z \in Zips, ImportBegin(z) PROVE PacksOK'
  <2>1. z[1] \in External \ {"native"} /\ z[2] \in Seq(STRING)
    BY PacksAssumption
  <2>2. Types'
    BY <1>0, <1>19, <2>1 DEF ImportBegin
  <2> QED
    BY <1>18, <1>19, <2>2 DEF ImportBegin
<1>20. CASE ImportEntry
  <2>1. import.todo \in Seq(STRING) /\ import.todo # <<>> /\ import # NoImport
    BY <1>0, <1>20 DEF ImportEntry, NoImport
  <2>2. Tail(import.todo) \in Seq(STRING)
    BY <2>1, TailFacts
  <2>3. import' \in {import, [import EXCEPT !.todo = Tail(@)]}
    BY <1>20 DEF ImportEntry
  <2>4. Types'
    BY <1>0, <1>20, <2>1, <2>2, <2>3 DEF ImportEntry
  <2> QED
    BY <1>18, <1>20, <2>4 DEF ImportEntry
<1>21. CASE ImportDone
  <2>1. Types'
    BY <1>0, <1>2, <1>21 DEF ImportDone
  <2> QED
    BY <1>18, <1>21, <2>1 DEF ImportDone
<1>22. CASE ImportFails
  <2>1. Types'
    BY <1>0, <1>22 DEF ImportFails
  <2> QED
    BY <1>18, <1>22, <2>1 DEF ImportFails
<1>23. CASE InitSucceeds \/ InitFails
  <2>1. Types' /\ stage' = "done"
    BY <1>0, <1>23 DEF InitSucceeds, InitFails
  <2> QED
    BY <2>1 DEF PacksOK
<1>24. CASE InitBegin \/ InitFallsBack
  BY <1>4, <1>24 DEF InitBegin, InitFallsBack
<1> QED
  BY <1>4, <1>5, <1>6, <1>7, <1>8, <1>9, <1>10, <1>11, <1>12, <1>13, <1>15, <1>16, <1>17,
     <1>19, <1>20, <1>21, <1>22, <1>23, <1>24
     DEF SelectionNext, selectionVars, PacksStep

-----------------------------------------------------------------------------
(* What init tries *)

LEMMA ShortSequences ==
    ASSUME NEW a, NEW b
    PROVE  /\ <<>> \in Seq({}) /\ Range(<<>>) = {}
           /\ <<a>> \in Seq({a}) /\ Range(<<a>>) = {a}
           /\ <<a, b>> \in Seq({a, b}) /\ Range(<<a, b>>) = {a, b}
BY DEF Range

\* A sequence over a set is one over its elements, and so is its tail.
LEMMA OverItsRange ==
    ASSUME NEW S, NEW s \in Seq(S)
    PROVE  s \in Seq(Range(s))
<1>1. \A i \in 1..Len(s) : s[i] \in Range(s)
  BY RangeFacts
<1> QED
  BY <1>1

LEMMA JoinedSequences ==
    ASSUME NEW a, NEW b, NEW c
    PROVE  /\ LET s == <<>> \o <<b, c>>
              IN  Range(s) = {} \cup {b, c} /\ s \in Seq(Range(s))
           /\ LET s == <<a>> \o <<b>>
              IN  Range(s) = {a} \cup {b} /\ s \in Seq(Range(s))
           /\ LET s == <<a>> \o <<>>
              IN  Range(s) = {a} \cup {} /\ s \in Seq(Range(s))
<1> DEFINE S == {a, b, c}
<1>1. /\ <<>> \in Seq(S) /\ <<a>> \in Seq(S) /\ <<b>> \in Seq(S) /\ <<b, c>> \in Seq(S)
  OBVIOUS
<1>2. \A s, t \in Seq(S) : s \o t \in Seq(S)
  BY ConcatProperties
<1>3. \A s, t \in Seq(S) : Range(s \o t) = Range(s) \cup Range(t)
  BY ConcatRange
<1>4. \A s \in Seq(S) : s \in Seq(Range(s))
  BY OverItsRange
<1>5. /\ Range(<<>>) = {} /\ Range(<<a>>) = {a} /\ Range(<<b>>) = {b}
      /\ Range(<<b, c>>) = {b, c}
  BY ShortSequences
<1> HIDE DEF Range, S
<1> QED
  BY <1>1, <1>2, <1>3, <1>4, <1>5

\* The possible creations of each kind.
LEMMA TriesFacts ==
    /\ \A kind : Tries(kind) \in Seq(Range(Tries(kind)))
    /\ Range(Tries("FireRedAsr2CtcQnn")) =
          (IF Has(arg, {"libmodel.so"})
           THEN {Try("fire_red_asr2_ctc_qnn", {"libmodel.so", "tokens.txt"}, arg)} ELSE {})
          \cup {Try("fire_red_asr2_ctc_qnn", {"model.onnx", "tokens.txt"}, arg),
                Try("fire_red_asr2_ctc_qnn_cpu", {"model.onnx", "tokens.txt"}, arg)}
    /\ Range(Tries("SenseVoiceQnn")) =
          {[name |-> "sensevoice_qnn", files |-> {SenseVoiceLibrary, <<arg, "tokens.txt">>}]}
    /\ Range(Tries("ParaformerQnn")) =
          {Try("paraformer_qnn",
               {"libencoder.so", "libpredictor.so", "libdecoder.so", "tokens.txt"}, arg)}
    /\ Range(Tries("ParaformerXnnpack")) =
          {Try("paraformer_xnnpack", {OnnxModel, "tokens.txt"}, arg),
           Try("paraformer_cpu", {OnnxModel, "tokens.txt"}, arg)}
    /\ Range(Tries("FireRedAsr2Ctc")) =
          {Try("fire_red_asr2_ctc", {"model.int8.onnx", "tokens.txt"}, arg)}
    /\ Range(Tries("Qwen3AsrQnn")) =
          {[name |-> "qwen3_asr_qnn",
            files |-> {<<CpuSibling(arg), "conv_frontend.onnx">>,
                       <<CpuSibling(arg), "encoder.int8.onnx">>, <<runtime, "libmodel.so">>}]}
          \cup (IF Qwen3Cpu THEN {Try("qwen3_asr_cpu", Qwen3Files, CpuSibling(arg))} ELSE {})
    /\ Range(Tries("Qwen3AsrCpu")) = {Try("qwen3_asr_cpu", Qwen3Files, CpuSibling(arg))}
    /\ Range(Tries("ZipformerCtc")) =
          {Try("zipformer_ctc", {"model.int8.onnx", "tokens.txt"}, arg)}
    /\ Range(Tries("Paraformer")) =
          {Try("paraformer",
               {"encoder.int8.onnx", "decoder.int8.onnx", "tokens.txt"}, arg)}
    /\ \A kind : kind \notin {"FireRedAsr2CtcQnn", "SenseVoiceQnn", "ParaformerQnn",
          "ParaformerXnnpack", "FireRedAsr2Ctc", "Qwen3AsrQnn", "Qwen3AsrCpu",
          "ZipformerCtc", "Paraformer"} => Range(Tries(kind)) = {}
<1> DEFINE library == Try("fire_red_asr2_ctc_qnn", {"libmodel.so", "tokens.txt"}, arg)
           npu == Try("fire_red_asr2_ctc_qnn", {"model.onnx", "tokens.txt"}, arg)
           cpu == Try("fire_red_asr2_ctc_qnn_cpu", {"model.onnx", "tokens.txt"}, arg)
           vendor == [name |-> "qwen3_asr_qnn",
                      files |-> {<<CpuSibling(arg), "conv_frontend.onnx">>,
                                 <<CpuSibling(arg), "encoder.int8.onnx">>,
                                 <<runtime, "libmodel.so">>}]
           qwen3 == Try("qwen3_asr_cpu", Qwen3Files, CpuSibling(arg))
<1>1. /\ FireRedQnnTries = (IF Has(arg, {"libmodel.so"}) THEN <<library>> ELSE <<>>) \o <<npu, cpu>>
      /\ Qwen3QnnTries = <<vendor>> \o (IF Qwen3Cpu THEN <<qwen3>> ELSE <<>>)
  BY Zenon DEF FireRedQnnTries, Qwen3QnnTries, Qwen3CpuTries
<1> HIDE DEF library, npu, cpu, vendor, qwen3
<1>2. /\ Range(FireRedQnnTries) =
            (IF Has(arg, {"libmodel.so"}) THEN {library} ELSE {}) \cup {npu, cpu}
      /\ FireRedQnnTries \in Seq(Range(FireRedQnnTries))
  <2>1. CASE Has(arg, {"libmodel.so"})
    <3>1. FireRedQnnTries = <<library>> \o <<npu, cpu>>
      BY <1>1, <2>1
    <3> DEFINE S == {library, npu, cpu}
    <3>2. <<library>> \in Seq(S) /\ <<npu, cpu>> \in Seq(S)
      OBVIOUS
    <3>3. Range(<<library>>) = {library} /\ Range(<<npu, cpu>>) = {npu, cpu}
      BY ShortSequences
    <3> HIDE DEF S
    <3>4. /\ Range(<<library>> \o <<npu, cpu>>) = {library} \cup {npu, cpu}
          /\ <<library>> \o <<npu, cpu>> \in Seq(S)
      <4>1. PICK s \in Seq(S), t \in Seq(S) : s = <<library>> /\ t = <<npu, cpu>>
        BY <3>2
      <4>2. Range(s \o t) = Range(s) \cup Range(t)
        BY ConcatRange
      <4>3. s \o t \in Seq(S)
        BY ConcatProperties
      <4> QED
        BY <4>1, <4>2, <4>3, <3>3
    <3>5. FireRedQnnTries \in Seq(Range(FireRedQnnTries))
      BY <3>1, <3>4, OverItsRange
    <3> HIDE DEF Range
    <3> QED
      BY <2>1, <3>1, <3>4, <3>5
  <2>2. CASE ~Has(arg, {"libmodel.so"})
    BY <1>1, <2>2, JoinedSequences
  <2> QED
    BY <2>1, <2>2
<1>3. /\ Range(Qwen3QnnTries) = {vendor} \cup (IF Qwen3Cpu THEN {qwen3} ELSE {})
      /\ Qwen3QnnTries \in Seq(Range(Qwen3QnnTries))
  <2>1. CASE Qwen3Cpu
    BY <1>1, <2>1, JoinedSequences
  <2>2. CASE ~Qwen3Cpu
    BY <1>1, <2>2, JoinedSequences
  <2> QED
    BY <2>1, <2>2
<1>4. /\ SenseVoiceTries \in Seq(Range(SenseVoiceTries))
      /\ ParaformerQnnTries \in Seq(Range(ParaformerQnnTries))
      /\ ParaformerXnnpackTries \in Seq(Range(ParaformerXnnpackTries))
      /\ FireRedTries \in Seq(Range(FireRedTries))
      /\ Qwen3CpuTries \in Seq(Range(Qwen3CpuTries))
      /\ ZipformerTries \in Seq(Range(ZipformerTries))
      /\ ParaformerTries \in Seq(Range(ParaformerTries))
      /\ <<>> \in Seq(Range(<<>>))
  BY ShortSequences, Zenon DEF SenseVoiceTries, ParaformerQnnTries, ParaformerXnnpackTries,
     FireRedTries, Qwen3CpuTries, ZipformerTries, ParaformerTries
<1>5. ASSUME NEW kind PROVE Tries(kind) \in Seq(Range(Tries(kind)))
  BY <1>2, <1>3, <1>4, Zenon DEF Tries
<1>6. /\ Tries("FireRedAsr2CtcQnn") = FireRedQnnTries
      /\ Tries("SenseVoiceQnn") = SenseVoiceTries
      /\ Tries("ParaformerQnn") = ParaformerQnnTries
      /\ Tries("ParaformerXnnpack") = ParaformerXnnpackTries
      /\ Tries("FireRedAsr2Ctc") = FireRedTries
      /\ Tries("Qwen3AsrQnn") = Qwen3QnnTries
      /\ Tries("Qwen3AsrCpu") = Qwen3CpuTries
      /\ Tries("ZipformerCtc") = ZipformerTries
      /\ Tries("Paraformer") = ParaformerTries
  BY DEF Tries
<1>7. \A kind : kind \notin {"FireRedAsr2CtcQnn", "SenseVoiceQnn", "ParaformerQnn",
          "ParaformerXnnpack", "FireRedAsr2Ctc", "Qwen3AsrQnn", "Qwen3AsrCpu",
          "ZipformerCtc", "Paraformer"} => Tries(kind) = <<>>
  BY DEF Tries
<1>8. \A a, b : Range(<<>>) = {} /\ Range(<<a>>) = {a} /\ Range(<<a, b>>) = {a, b}
  BY ShortSequences
<1> HIDE DEF Range
<1>9. /\ Range(SenseVoiceTries) =
           {[name |-> "sensevoice_qnn", files |-> {SenseVoiceLibrary, <<arg, "tokens.txt">>}]}
      /\ Range(ParaformerQnnTries) =
           {Try("paraformer_qnn",
                {"libencoder.so", "libpredictor.so", "libdecoder.so", "tokens.txt"}, arg)}
      /\ Range(ParaformerXnnpackTries) =
           {Try("paraformer_xnnpack", {OnnxModel, "tokens.txt"}, arg),
            Try("paraformer_cpu", {OnnxModel, "tokens.txt"}, arg)}
      /\ Range(FireRedTries) =
           {Try("fire_red_asr2_ctc", {"model.int8.onnx", "tokens.txt"}, arg)}
      /\ Range(Qwen3CpuTries) = {Try("qwen3_asr_cpu", Qwen3Files, CpuSibling(arg))}
      /\ Range(ZipformerTries) =
           {Try("zipformer_ctc", {"model.int8.onnx", "tokens.txt"}, arg)}
      /\ Range(ParaformerTries) =
           {Try("paraformer",
                {"encoder.int8.onnx", "decoder.int8.onnx", "tokens.txt"}, arg)}
  BY <1>8, Zenon DEF SenseVoiceTries, ParaformerQnnTries, ParaformerXnnpackTries,
     FireRedTries, Qwen3CpuTries, ZipformerTries, ParaformerTries
<1> USE DEF library, npu, cpu, vendor, qwen3
<1>10. \A kind : kind \notin {"FireRedAsr2CtcQnn", "SenseVoiceQnn", "ParaformerQnn",
          "ParaformerXnnpack", "FireRedAsr2Ctc", "Qwen3AsrQnn", "Qwen3AsrCpu",
          "ZipformerCtc", "Paraformer"} => Range(Tries(kind)) = {}
  BY <1>7, <1>8
<1> QED
  BY <1>2, <1>3, <1>5, <1>6, <1>9, <1>10, Zenon

LEMMA EngineNext ==
    ASSUME EngineOK, [SelectionNext]_selectionVars
    PROVE  EngineOK'
<1>1. CASE UNCHANGED <<engine, tries, stage>>
  BY <1>1 DEF EngineOK
<1>2. CASE (StartServer \/ Die \/ \E p \in Policies : SetPolicy(p)) /\ NoEngine
  BY <1>2 DEF EngineOK, NoEngine, StartServer, Die, SetPolicy
<1>3. ASSUME PacksStep, UNCHANGED engineVars, stage' # stage
      PROVE  stage \notin {"init", "done"} /\ stage' # "done"
  BY <1>3 DEF PacksStep, ActivityModel, ActivityRuntime, Send, Redelivered, ServiceRuntime,
     CopyOpen, CopyClose, CopySkip, CopyDone, ImportBegin, ImportEntry, ImportDone,
     ImportFails, Prepare
<1>4. CASE PacksStep /\ UNCHANGED engineVars
  BY <1>1, <1>3, <1>4 DEF EngineOK, engineVars
<1>5. CASE InitBegin
  <2>1. tries' = Tries(ModelKind) /\ engine' = "init" /\ stage' = "init"
    BY <1>5 DEF InitBegin, packVars
  <2>2. tries' \in Seq(Range(tries'))
    BY <2>1, TriesFacts
  <2> QED
    BY <2>1, <2>2 DEF EngineOK
<1>6. CASE InitSucceeds
  BY <1>6 DEF InitSucceeds, EngineOK
<1>7. CASE InitFallsBack
  <2>1. /\ engine = "init" /\ engine' = engine /\ stage' = stage /\ tries # <<>>
        /\ tries' = Tail(tries) /\ tries \in Seq(Range(tries))
    BY <1>7 DEF InitFallsBack, packVars, EngineOK
  <2>2. tries' \in Seq(Range(tries))
    BY <2>1, TailFacts
  <2>3. tries' \in Seq(Range(tries'))
    BY <2>2, OverItsRange
  <2> QED
    BY <2>1, <2>3 DEF EngineOK
<1>8. CASE InitFails
  BY <1>8 DEF InitFails, EngineOK
<1> QED
  BY <1>1, <1>2, <1>4, <1>5, <1>6, <1>7, <1>8
     DEF SelectionNext, selectionVars, packVars, engineVars

-----------------------------------------------------------------------------
(* A start that nothing disturbs *)

\* A step that leaves the packs and their copies alone, and selects nothing.
LEMMA HandedKept ==
    ASSUME selected \in External, UNCHANGED selected,
           \A d \in External \cup Copies : disk'[d] = disk[d]
    PROVE  /\ Prepares(selected) => (Fresh' <=> Fresh)
           /\ Prepares(selected)' <=> Prepares(selected)
           /\ \A d : Handed(d)' <=> Handed(d)
<1>1. Target(selected) \in Copies \cup {None}
  BY TargetFacts
<1>2. Prepares(selected)' <=> Prepares(selected)
  BY DEF Prepares, Has
<1>3. ASSUME Target(selected) # None PROVE Fresh' <=> Fresh
  BY <1>1, <1>3 DEF Fresh, FreshFile, Has
<1>4. Prepares(selected) => Target(selected) # None
  BY DEF Prepares
<1>5. ASSUME NEW d PROVE Handed(d)' <=> Handed(d)
  BY <1>2, <1>3, <1>4 DEF Handed
<1> QED
  BY <1>2, <1>3, <1>4, <1>5

\* What was handed over, and what the runtime directory holds, stays when no
\* directory but that one is written.
LEMMA RuntimeKept ==
    ASSUME StorageStep, \A d \in External : disk'[d] = disk[d],
           disk'["qnn-runtime-qwen3"] = disk["qnn-runtime-qwen3"],
           UNCHANGED <<runtime, selected>>, RuntimeThere
    PROVE  RuntimeThere'
<1>1. "native" \in External /\ "qwen3-asr-0.6b-qnn" \in External /\ "qnn-runtime" \in Dirs
  BY DEF External, Dirs, Internal
<1>2. CASE runtime = "qnn-runtime-qwen3"
  BY <1>1, <1>2 DEF RuntimeThere, DecoderThere, Has
<1>3. CASE runtime = "qnn-runtime"
  BY <1>1, <1>3 DEF RuntimeThere, GenericThere, Has, StorageStep
<1> QED
  BY <1>2, <1>3 DEF RuntimeThere

LEMMA NoneIsNoDirectory ==
    /\ None \notin Dirs /\ External \subseteq Dirs /\ Copies \subseteq Dirs
    /\ External \cap Copies = {}
BY DEF None, Dirs, External, Internal, Copies

LEMMA FaultFacts ==
    ASSUME disturbed' = FALSE
    PROVE  ~Fault /\ (NoFault => disturbed = FALSE)
BY DEF Fault, NoFault

\* The steps of the copying.
LEMMA CopyingKept ==
    ASSUME StorageOK(disk), PacksOK, selected \in External, UNCHANGED selected,
           Copying, stage \in {"copy", "copying"}, disturbed' = FALSE,
           CopyOpen \/ CopyClose \/ CopySkip
    PROVE  Copying'
<1>0. PICK f, to : f = Head(prep.todo) /\ to = prep.to
  OBVIOUS
<1>1. /\ prep.from \in Dirs /\ to \in Copies /\ Target(prep.from) = to
      /\ prep.todo \in Seq(Range(Wanted(to))) /\ prep.todo # <<>>
  BY <1>0 DEF PacksOK, CopyOpen, CopyClose, CopySkip
<1>2. Prepares(selected) /\ to = Target(selected) /\ (prep.from = selected \/ prep.from = to)
  BY <1>0 DEF Copying
<1>3. /\ Range(prep.todo) = {f} \cup Range(Tail(prep.todo))
      /\ f \in Range(prep.todo)
  BY <1>0, <1>1, HeadAndTail
<1>4. to \notin External /\ selected # to /\ to \in Dirs /\ selected \in Dirs
  BY <1>1, NoneIsNoDirectory
<1>5. CASE CopyOpen
  <2>1. /\ Has(prep.from, {f}) /\ (Has(to, {f}) => ~EqualLength(disk[prep.from][f], disk[to][f]))
        /\ disk' = Put(disk, to, f, Torn(disk[prep.from][f])) /\ UNCHANGED prep
    BY <1>0, <1>5 DEF CopyOpen, Stale
  <2>2. prep.from = selected
    BY <1>2, <2>1 DEF EqualLength, Has
  <2>3. /\ disk'[selected] = disk[selected]
        /\ \A g \in DOMAIN disk[to] : g # f => g \in DOMAIN disk'[to] /\ disk'[to][g] = disk[to][g]
    <3>1. /\ Fitting(disk, to, f, Torn(disk[prep.from][f]))
          /\ Fitting(disk, to, f, disk[prep.from][f])
      BY <1>0, <1>3, <2>1, CopySource
    <3> QED
      BY <1>4, <2>1, <3>1, PutOK
  <2>4. Prepares(selected)'
    BY <1>2, <2>3 DEF Prepares, Has
  <2>5. ASSUME NEW g \in Range(Wanted(to)) \ Range(prep.todo)
        PROVE  FreshFile(selected, to, g)'
    <3>1. g # f /\ FreshFile(selected, to, g)
      BY <1>0, <1>3, <2>5 DEF Copying
    <3> QED
      BY <2>1, <2>3, <3>1 DEF FreshFile, Has
  <2> QED
    BY <1>0, <1>2, <2>1, <2>2, <2>4, <2>5 DEF Copying
<1>6. CASE CopyClose
  <2>1. /\ stage = "copying" /\ Has(prep.from, {f})
        /\ disk' = Put(disk, to, f, disk[prep.from][f])
        /\ prep' = [prep EXCEPT !.todo = Tail(@)]
    BY <1>0, <1>6, FaultFacts DEF CopyClose, PacksOK
  <2>2. prep'.from = prep.from /\ prep'.to = to /\ prep'.todo = Tail(prep.todo)
    BY <1>0, <2>1 DEF PacksOK
  <2>3. /\ disk'[selected] = disk[selected]
        /\ f \in DOMAIN disk'[to] /\ disk'[to][f] = disk[prep.from][f]
        /\ \A g \in DOMAIN disk[to] : g # f => g \in DOMAIN disk'[to] /\ disk'[to][g] = disk[to][g]
    <3>1. /\ Fitting(disk, to, f, Torn(disk[prep.from][f]))
          /\ Fitting(disk, to, f, disk[prep.from][f])
      BY <1>0, <1>3, <2>1, CopySource
    <3> QED
      BY <1>4, <2>1, <3>1, PutOK
  <2>4. Prepares(selected)'
    BY <1>2, <2>3 DEF Prepares, Has
  <2>5. ASSUME NEW g, g # f, FreshFile(selected, to, g)
        PROVE  FreshFile(selected, to, g)'
    BY <2>2, <2>3, <2>5 DEF FreshFile, Has
  <2>6. CASE prep.from = selected
    <3>1. FreshFile(selected, to, f)'
      BY <2>2, <2>3, <2>6 DEF FreshFile, Has, EqualLength
    <3>2. ASSUME NEW g \in Range(Wanted(to)) \ Range(Tail(prep.todo))
          PROVE  FreshFile(selected, to, g)'
      <4>1. CASE g = f
        BY <3>1, <4>1
      <4>2. CASE g # f
        BY <1>0, <1>3, <2>5, <4>2 DEF Copying
      <4> QED
        BY <4>1, <4>2
    <3> QED
      BY <1>0, <1>2, <2>2, <2>4, <2>6, <3>2 DEF Copying
  <2>7. CASE prep.from = to
    <3>1. Fresh
      BY <1>0, <1>4, <2>7 DEF Copying
    <3>2. disk'[to][f] = disk[to][f] /\ f \in DOMAIN disk[to]
      BY <2>1, <2>3, <2>7 DEF Has
    <3>3. ASSUME NEW g, FreshFile(selected, to, g)
          PROVE  FreshFile(selected, to, g)'
      BY <2>2, <2>3, <3>2, <3>3 DEF FreshFile, Has
    <3>4. Fresh'
      BY <1>2, <3>1, <3>3 DEF Fresh
    <3>5. \A g \in Range(Wanted(to)) : FreshFile(selected, to, g)'
      BY <1>2, <3>1, <3>3 DEF Fresh
    <3> QED
      BY <1>0, <1>2, <2>2, <2>4, <2>7, <3>4, <3>5 DEF Copying
  <2> QED
    BY <1>2, <2>6, <2>7
<1>7. CASE CopySkip
  <2>1. /\ ~Stale(f) /\ UNCHANGED disk /\ prep' = [prep EXCEPT !.todo = Tail(@)]
    BY <1>0, <1>7 DEF CopySkip
  <2>2. prep'.from = prep.from /\ prep'.to = to /\ prep'.todo = Tail(prep.todo)
    BY <1>0, <2>1 DEF PacksOK
  <2>3. f \in Range(Wanted(to))
    BY <1>1, <1>3, RangeFacts
  <2>4. FreshFile(selected, to, f)
    <3>1. CASE prep.from = selected
      BY <1>0, <2>1, <3>1 DEF Stale, FreshFile
    <3>2. CASE prep.from = to
      BY <1>0, <1>2, <1>4, <2>3, <3>2 DEF Copying, Fresh
    <3> QED
      BY <1>2, <3>1, <3>2
  <2>5. \A g \in Range(Wanted(to)) \ Range(Tail(prep.todo)) : FreshFile(selected, to, g)
    BY <1>0, <1>3, <2>4 DEF Copying
  <2>6. \A g : FreshFile(selected, to, g)' <=> FreshFile(selected, to, g)
    BY <2>1, <2>2 DEF FreshFile, Has
  <2>7. (prep.from = selected \/ (prep.from = to /\ Fresh))'
    <3>1. Fresh' <=> Fresh
      BY <2>1 DEF Fresh, FreshFile, Has
    <3>2. prep.from = selected \/ (prep.from = to /\ Fresh)
      BY <1>0 DEF Copying
    <3>3. CASE prep.from = selected
      BY <2>2, <3>3
    <3>4. CASE prep.from = to /\ Fresh
      BY <2>2, <3>1, <3>4
    <3> QED
      BY <3>2, <3>3, <3>4
  <2>8. Prepares(selected)'
    BY <1>2, <2>1 DEF Prepares, Has
  <2> QED
    BY <1>0, <1>2, <2>2, <2>5, <2>6, <2>7, <2>8 DEF Copying
<1> QED
  BY <1>5, <1>6, <1>7

\* Every step hands on what was selected, or is a fault or an import.
LEMMA UndisturbedNext ==
    ASSUME StorageOK(disk), PacksOK, EngineOK, disturbed = FALSE => Undisturbed,
           [SelectionNext]_selectionVars, disturbed' = FALSE
    PROVE  Undisturbed'
<1>1. StorageStep /\ \A d \in External : disk'[d] = disk[d]
  BY StorageNext DEF StorageStep
<1>2. /\ UNCHANGED policy => Resolve' = Resolve
      /\ Resolve \in External /\ Resolve # None
  BY <1>1, ResolveSame, ResolveFacts, NoneIsNoDirectory DEF PacksOK
<1>3. External \subseteq Dirs /\ Copies \subseteq Dirs /\ None \notin Dirs /\ External \cap Copies = {}
  BY NoneIsNoDirectory
\* The steps that begin or end a start.
<1>4. CASE StartServer
  <2>1. /\ import' = NoImport /\ UNCHANGED policy /\ selected' = Resolve /\ modelDir' = Resolve
        /\ arg' = None /\ runtime' = None
        /\ stage' = IF Resolve = "qwen3-asr-0.6b-qnn" THEN "qwen3-runtime" ELSE "model"
    BY <1>4 DEF StartServer
  <2>2. Handing' /\ RuntimeThere'
    BY <2>1 DEF Handing, RuntimeThere, None
  <2> QED
    BY <1>2, <2>1, <2>2 DEF Undisturbed
<1>5. CASE Die
  BY <1>5 DEF Die, Undisturbed
<1>6. ASSUME NEW p \in Policies, SetPolicy(p) PROVE Undisturbed'
  BY <1>6 DEF SetPolicy, Undisturbed
\* All others leave an undisturbed start undisturbed.
<1>7. ASSUME NEW d, NEW next, Prepare(d, next)
      PROVE  /\ disturbed = FALSE
             /\ \/ /\ Prepares(d) /\ stage' = "copy" /\ Target(d) \in Copies /\ d \in Dirs
                   /\ prep'.from = d /\ prep'.to = Target(d) /\ prep'.todo = Wanted(Target(d))
                \/ stage' = next /\ ~Prepares(d)
  BY <1>7, PrepareFacts, FaultFacts
\* A preparation for the pack itself or for what already stands for it.
<1>8. ASSUME NEW d, selected' \in External, d = selected' \/ (Handed(d) /\ UNCHANGED selected),
             UNCHANGED disk, Prepares(d), stage' = "copy",
             prep'.from = d, prep'.to = Target(d), prep'.todo = Wanted(Target(d))
      PROVE  Copying'
  <2>1. Target(d) \in Copies
    BY <1>8, TargetFacts DEF Prepares
  <2>2. CASE d = selected'
    <3>1. Prepares(selected)'
      BY <1>8, <2>2 DEF Prepares, Has
    <3> QED
      BY <1>8, <2>2, <3>1 DEF Copying
  <2>3. CASE d # selected' /\ Handed(d) /\ UNCHANGED selected
    <3>1. d = Target(selected) /\ Prepares(selected) /\ Fresh
      BY <2>3 DEF Handed
    <3>2. Target(d) = d
      BY <3>1, TargetFacts DEF Prepares
    <3>3. Prepares(selected)' /\ Fresh'
      BY <1>8, <2>3, <3>1, HandedKept
    <3> QED
      BY <1>8, <2>3, <3>1, <3>2, <3>3 DEF Copying
  <2> QED
    BY <1>8, <2>2, <2>3
<1>8a. ASSUME NEW d, NEW next, next # "copy", Prepare(d, next), UNCHANGED disk,
              selected' \in External, d = selected' \/ (Handed(d) /\ UNCHANGED selected)
       PROVE  /\ stage' \in {"copy", next} /\ (stage' = "copy" => Copying')
              /\ stage' = next => ~Prepares(d)
  <2>1. CASE /\ Prepares(d) /\ stage' = "copy"
             /\ prep'.from = d /\ prep'.to = Target(d) /\ prep'.todo = Wanted(Target(d))
    BY <1>8, <1>8a, <2>1
  <2>2. CASE stage' = next /\ ~Prepares(d)
    BY <1>8a, <2>2
  <2>3. \/ /\ Prepares(d) /\ stage' = "copy"
           /\ prep'.from = d /\ prep'.to = Target(d) /\ prep'.todo = Wanted(Target(d))
        \/ stage' = next /\ ~Prepares(d)
    BY <1>7, <1>8a
  <2> QED
    BY <2>1, <2>2, <2>3
<1>9. CASE Redelivered
  <2>1. /\ selected' = Resolve /\ arg' = Resolve /\ runtime' = None
        /\ UNCHANGED <<disk, policy, import, modelDir>>
        /\ Prepare(Resolve, "fill")
    BY <1>9 DEF Redelivered
  <2>2. disturbed = FALSE
    BY <1>7, <2>1
  <2>3. /\ stage' \in {"copy", "fill"} /\ (stage' = "copy" => Copying')
        /\ stage' = "fill" => ~Prepares(Resolve)
    BY <1>2, <1>8a, <2>1
  <2>4. Handing' /\ RuntimeThere'
    <3>1. Handed(arg)' /\ (Prepares(selected)' <=> Prepares(Resolve))
      BY <2>1 DEF Handed, Prepares, Has
    <3> QED
      BY <2>1, <2>2, <2>3, <3>1 DEF Handing, RuntimeThere, None
  <2> QED
    BY <1>2, <2>1, <2>2, <2>4 DEF Undisturbed
<1>10. ASSUME disturbed = FALSE, stage \notin {"idle", "redelivered"},
              UNCHANGED <<policy, import, selected>>, Handing', RuntimeThere'
       PROVE  Undisturbed'
  BY <1>2, <1>10 DEF Undisturbed
<1>11. ASSUME disturbed = FALSE, stage \notin {"idle", "redelivered"}
       PROVE  /\ import = NoImport /\ selected = Resolve /\ Handing /\ RuntimeThere
              /\ selected \in External
  BY <1>2, <1>11 DEF Undisturbed
<1>12. ASSUME disturbed = FALSE, stage \notin {"idle", "redelivered"}, UNCHANGED selected,
              \A d \in External \cup Copies : disk'[d] = disk[d]
       PROVE  /\ Prepares(selected)' <=> Prepares(selected)
              /\ \A d : Handed(d)' <=> Handed(d)
  BY <1>11, <1>12, HandedKept
<1>13. ASSUME disturbed = FALSE, stage \notin {"idle", "redelivered"},
              UNCHANGED <<disk, selected, runtime>>
       PROVE  RuntimeThere'
  BY <1>1, <1>11, <1>13, RuntimeKept
<1>14. CASE ActivityModel
  <2>1. stage = "model" /\ UNCHANGED <<disk, policy, import, modelDir, arg, runtime, selected>>
    BY <1>14 DEF ActivityModel
  <2>2. \/ Prepare(modelDir, "runtime")
        \/ Target(modelDir) # Target(selected) /\ stage' = "runtime" /\ disturbed = FALSE
    BY <1>14, FaultFacts DEF ActivityModel
  <2>3. disturbed = FALSE
    BY <1>7, <2>2
  <2>4. arg = None /\ modelDir = selected /\ selected \in External
    BY <1>11, <2>1, <2>3 DEF Handing
  <2>5. stage' \in {"copy", "runtime"} /\ (stage' = "copy" => Copying')
    BY <1>8a, <2>1, <2>2, <2>4
  <2>6. Handing'
    <3>1. Handed(modelDir)'
      BY <2>1, <2>4 DEF Handed
    <3> QED
      BY <2>1, <2>4, <2>5, <3>1 DEF Handing
  <2> QED
    BY <1>10, <1>13, <2>1, <2>3, <2>6
<1>15. CASE ActivityRuntime
  <2>1. UNCHANGED <<policy, import, modelDir, arg, prep, selected>> /\ stage' = "send"
    BY <1>15 DEF ActivityRuntime
  <2>2. stage = "qwen3-runtime" => QnnSibling(modelDir) \in External
    BY DEF PacksOK, QnnSibling, External
  <2>3. disturbed = FALSE
    BY <1>15, <2>2, GenericRuntimeFacts, Qwen3RuntimeFacts, FaultFacts DEF ActivityRuntime
  <2>4. stage \in {"runtime", "qwen3-runtime"}
    BY <1>15 DEF ActivityRuntime
  <2>5. \A d \in External \cup Copies : disk'[d] = disk[d]
    BY <1>15, <2>2, GenericRuntimeFacts, Qwen3RuntimeFacts DEF ActivityRuntime
  <2>6. Handing'
    <3>1. Handed(modelDir) /\ arg = None
      BY <1>11, <2>3, <2>4 DEF Handing, Handed
    <3>2. Handed(modelDir)'
      BY <1>12, <2>1, <2>3, <2>4, <2>5, <3>1
    <3> QED
      BY <2>1, <3>1, <3>2 DEF Handing
  <2>7. RuntimeThere'
    <3>1. CASE stage = "runtime"
      BY <1>15, <3>1, GenericRuntimeFacts DEF ActivityRuntime, RuntimeThere
    <3>2. CASE stage = "qwen3-runtime"
      <4>1. /\ selected = "qwen3-asr-0.6b-qnn" /\ QnnSibling(modelDir) = "qwen3-asr-0.6b-qnn"
            /\ "qwen3-asr-0.6b-qnn" \in External
        BY <1>11, <2>3, <3>2 DEF Handing, QnnSibling
      <4>2. Qwen3Runtime("qwen3-asr-0.6b-qnn", "decoder-w4")
        BY <1>15, <3>2, <4>1 DEF ActivityRuntime
      <4>3. /\ runtime' = "qnn-runtime" => GenericThere'
            /\ runtime' = "qnn-runtime-qwen3" =>
                  /\ "decoder-w4" \in DOMAIN disk[selected]
                  /\ "libmodel.so" \in DOMAIN disk'["qnn-runtime-qwen3"]
                  /\ EqualLength(disk'["qnn-runtime-qwen3"]["libmodel.so"],
                                 disk[selected]["decoder-w4"])
        BY <4>1, <4>2, Qwen3RuntimeFacts
      <4> QED
        BY <2>1, <2>5, <4>1, <4>3 DEF RuntimeThere, DecoderThere, Has
    <3> QED
      BY <2>4, <3>1, <3>2
  <2> QED
    BY <1>10, <2>1, <2>3, <2>4, <2>6, <2>7
<1>16. CASE Send
  <2>1. /\ stage = "send" /\ arg' = modelDir /\ Prepare(modelDir, "fill")
        /\ UNCHANGED <<disk, policy, import, modelDir, runtime, selected>>
    BY <1>16 DEF Send
  <2>2. disturbed = FALSE
    BY <1>7, <2>1
  <2>3. selected \in External /\ Handed(modelDir)
    BY <1>11, <2>1, <2>2 DEF Handing
  <2>4. /\ stage' \in {"copy", "fill"} /\ (stage' = "copy" => Copying')
        /\ stage' = "fill" => ~Prepares(modelDir)
    BY <1>8a, <2>1, <2>3
  <2>5. Handed(arg)' /\ (Prepares(selected)' <=> Prepares(selected))
    BY <1>12, <2>1, <2>2, <2>3
  <2>6. Handing'
    BY <2>1, <2>4, <2>5 DEF Handing
  <2> QED
    BY <1>10, <1>13, <2>1, <2>2, <2>6
<1>17. CASE ServiceRuntime
  <2>1. /\ stage = "fill" /\ stage' = "init"
        /\ UNCHANGED <<policy, import, modelDir, arg, prep, selected>>
    BY <1>17 DEF ServiceRuntime
  <2>2. \/ runtime # None /\ UNCHANGED <<runtime, disk>> /\ NoFault
        \/ Resolve = "qwen3-asr-0.6b-qnn" /\ Qwen3Runtime(Resolve, ServiceDecoder(Resolve))
        \/ GenericRuntime
    BY <1>17 DEF ServiceRuntime
  <2>3. disturbed = FALSE
    BY <1>2, <2>2, GenericRuntimeFacts, Qwen3RuntimeFacts, FaultFacts
  <2>4. \A d \in External \cup Copies : disk'[d] = disk[d]
    BY <1>2, <2>2, GenericRuntimeFacts, Qwen3RuntimeFacts
  <2>5. runtime' # None
    BY <1>2, <2>2, GenericRuntimeFacts, Qwen3RuntimeFacts DEF None
  <2>6. Handing'
    <3>1. Handed(arg) /\ (Prepares(selected) => arg # selected)
      BY <1>11, <2>1, <2>3 DEF Handing
    <3>2. Handed(arg)' /\ (Prepares(selected)' <=> Prepares(selected))
      BY <1>12, <2>1, <2>3, <2>4, <3>1
    <3> QED
      BY <2>1, <2>5, <3>1, <3>2 DEF Handing
  <2>7. RuntimeThere'
    <3>1. CASE runtime # None /\ UNCHANGED <<runtime, disk>>
      BY <1>13, <2>1, <2>3, <3>1
    <3>2. CASE Resolve = "qwen3-asr-0.6b-qnn" /\ Qwen3Runtime(Resolve, ServiceDecoder(Resolve))
      <4>1. PICK decoder : decoder = ServiceDecoder(Resolve)
        OBVIOUS
      <4>2. selected = "qwen3-asr-0.6b-qnn" /\ "qwen3-asr-0.6b-qnn" \in External
        BY <1>2, <1>11, <2>1, <2>3, <3>2
      <4>3. Qwen3Runtime("qwen3-asr-0.6b-qnn", decoder)
        BY <3>2, <4>1
      <4>4. /\ runtime' = "qnn-runtime" => GenericThere'
            /\ runtime' = "qnn-runtime-qwen3" =>
                  /\ decoder \in DOMAIN disk[selected]
                  /\ "libmodel.so" \in DOMAIN disk'["qnn-runtime-qwen3"]
                  /\ EqualLength(disk'["qnn-runtime-qwen3"]["libmodel.so"],
                                 disk[selected][decoder])
        BY <4>2, <4>3, Qwen3RuntimeFacts
      <4> QED
        BY <2>1, <2>4, <4>2, <4>4 DEF RuntimeThere, DecoderThere, Has
    <3>3. CASE GenericRuntime
      BY <3>3, GenericRuntimeFacts DEF RuntimeThere
    <3> QED
      BY <2>2, <3>1, <3>2, <3>3
  <2> QED
    BY <1>10, <2>1, <2>3, <2>6, <2>7
<1>18. CASE CopyOpen \/ CopyClose \/ CopySkip
  <2>1. /\ stage \in {"copy", "copying"} /\ stage' \in {"copy", "copying"}
        /\ UNCHANGED <<policy, import, modelDir, arg, runtime, selected>>
    BY <1>18 DEF CopyOpen, CopyClose, CopySkip
  <2>2. disturbed = FALSE
    BY <1>18, FaultFacts DEF CopyOpen, CopyClose, CopySkip
  <2>3. Handing'
    BY <1>11, <1>18, <2>1, <2>2, CopyingKept DEF Handing
  <2>4. disk'["qnn-runtime-qwen3"] = disk["qnn-runtime-qwen3"]
    <3>1. prep.to \in Copies /\ "qnn-runtime-qwen3" \in Dirs /\ "qnn-runtime-qwen3" \notin Copies
      BY <2>1 DEF PacksOK, Copies, Dirs, Internal
    <3>2. \/ UNCHANGED disk
          \/ \E f, c : disk' = Put(disk, prep.to, f, c)
      BY <1>18 DEF CopyOpen, CopyClose, CopySkip
    <3>3. DOMAIN disk = Dirs /\ prep.to \in Dirs
      BY <1>3, <3>1 DEF StorageOK
    <3> QED
      BY <3>1, <3>2, <3>3, PutFacts
  <2>5. RuntimeThere'
    BY <1>1, <1>11, <2>1, <2>2, <2>4, RuntimeKept
  <2> QED
    BY <1>10, <2>1, <2>2, <2>3, <2>5
<1>19. CASE CopyDone
  <2>1. /\ stage = "copy" /\ prep.todo = <<>>
        /\ UNCHANGED <<disk, policy, import, runtime, selected, disturbed>>
        /\ \/ modelDir' = prep.to /\ stage' = "runtime" /\ arg' = arg /\ arg = None
           \/ arg' = prep.to /\ stage' = "fill"
    BY <1>19 DEF CopyDone
  <2>2. Handed(prep.to) /\ prep.to # selected
    <3>1. Range(prep.todo) = {}
      BY <2>1, EmptyFacts
    <3>2. prep.to \in Copies
      BY <2>1 DEF PacksOK
    <3> QED
      BY <1>3, <1>11, <2>1, <3>1, <3>2 DEF Handing, Copying, Handed, Fresh
  <2>3. \A d : Handed(d)' <=> Handed(d)
    BY <1>12, <2>1
  <2>4. Handing'
    BY <2>1, <2>2, <2>3 DEF Handing
  <2> QED
    BY <1>10, <1>13, <2>1, <2>4
\* An import, or what its thread still does, disturbs.
<1>20. CASE (\E z \in Zips : ImportBegin(z)) \/ ImportEntry \/ ImportDone \/ ImportFails
  <2>1. disturbed = FALSE /\ import # NoImport
    BY <1>20 DEF ImportBegin, ImportEntry, ImportDone, ImportFails, NoImport, PacksOK
  <2> QED
    BY <2>1 DEF Undisturbed
\* The steps of the engine leave the packs alone.
<1>21. CASE InitSucceeds \/ InitFails
  <2>1. /\ stage = "init" /\ stage' = "done" /\ disturbed = FALSE
        /\ UNCHANGED <<disk, policy, import, modelDir, arg, runtime, selected>>
    BY <1>21 DEF InitSucceeds, InitFails, EngineOK
  <2>2. Handed(arg) /\ runtime # None /\ (Prepares(selected) => arg # selected)
    BY <1>11, <2>1 DEF Handing
  <2>3. Handed(arg)' /\ (Prepares(selected)' <=> Prepares(selected))
    BY <1>12, <2>1, <2>2
  <2>4. Handing'
    BY <2>1, <2>2, <2>3 DEF Handing
  <2> QED
    BY <1>10, <1>13, <2>1, <2>4
<1>22. CASE UNCHANGED packVars
  <2>1. disturbed = FALSE /\ UNCHANGED <<import, stage, selected, disk, modelDir, arg, runtime, prep>>
        /\ UNCHANGED policy
    BY <1>22 DEF packVars
  <2>2. Handing' <=> Handing
    BY <2>1 DEF Handing, Handed, Fresh, FreshFile, Prepares, Has, Copying
  <2>3. RuntimeThere' <=> RuntimeThere
    BY <2>1 DEF RuntimeThere, DecoderThere, GenericThere, Has
  <2> QED
    BY <1>2, <2>1, <2>2, <2>3 DEF Undisturbed
<1> QED
  BY <1>4, <1>5, <1>6, <1>9, <1>14, <1>15, <1>16, <1>17, <1>18, <1>19, <1>20, <1>21, <1>22
     DEF SelectionNext, selectionVars, PacksStep, InitBegin, InitFallsBack

\* What init tries is a matter of the files and of the directories it is given.
LEMMA TriesKept ==
    ASSUME UNCHANGED <<disk, arg, runtime>>
    PROVE  /\ Tries(ModelKind)' = Tries(ModelKind)
           /\ \A t : CanLoad(t)' <=> CanLoad(t)
<1>1. \A d, F : (Has(d, F)' <=> Has(d, F)) /\ (HasAny(d, F)' <=> HasAny(d, F))
  BY DEF Has, HasAny
<1>2. ModelKind' = ModelKind
  BY <1>1, Zenon DEF ModelKind, FireRedModel, HasTokens, ParaformerXnnpack, Qwen3Qnn, Qwen3Cpu
<1>3. /\ FireRedQnnTries' = FireRedQnnTries
      /\ SenseVoiceTries' = SenseVoiceTries
      /\ ParaformerQnnTries' = ParaformerQnnTries
      /\ ParaformerXnnpackTries' = ParaformerXnnpackTries
      /\ FireRedTries' = FireRedTries
      /\ Qwen3CpuTries' = Qwen3CpuTries
      /\ Qwen3QnnTries' = Qwen3QnnTries
      /\ ZipformerTries' = ZipformerTries
      /\ ParaformerTries' = ParaformerTries
  BY <1>1, Zenon DEF FireRedQnnTries, SenseVoiceTries, ParaformerQnnTries, ParaformerXnnpackTries,
     FireRedTries, Qwen3CpuTries, Qwen3QnnTries, ZipformerTries, ParaformerTries, Try,
     SenseVoiceLibrary, OnnxModel, Qwen3Cpu
<1>4. \A kind : Tries(kind)' = Tries(kind)
  BY <1>3 DEF Tries
<1>5. \A t : CanLoad(t)' <=> CanLoad(t)
  BY DEF CanLoad, Has
<1> QED
  BY <1>2, <1>4, <1>5

LEMMA TriedNext ==
    ASSUME PacksOK, EngineOK, disturbed = FALSE => Undisturbed /\ Tried,
           [SelectionNext]_selectionVars, disturbed' = FALSE
    PROVE  Tried'
<1>1. CASE engine' \notin {"init", "failed"}
  BY <1>1 DEF Tried
<1>2. CASE UNCHANGED selectionVars
  <2>1. UNCHANGED <<disk, arg, runtime, engine, tries, refused, disturbed>>
    BY <1>2 DEF selectionVars, packVars, engineVars
  <2>2. Tries(ModelKind)' = Tries(ModelKind) /\ \A t : CanLoad(t)' <=> CanLoad(t)
    BY <2>1, TriesKept
  <2> QED
    BY <2>1, <2>2 DEF Tried
<1>3. CASE (StartServer \/ Die \/ \E p \in Policies : SetPolicy(p)) /\ NoEngine
  BY <1>1, <1>3 DEF NoEngine
<1>4. CASE PacksStep /\ UNCHANGED engineVars /\ engine \in {"init", "failed"}
  <2>1. stage \in {"init", "done"}
    BY <1>4 DEF EngineOK
  <2>2. (\E z \in Zips : ImportBegin(z)) \/ ImportEntry \/ ImportDone \/ ImportFails
    BY <1>4, <2>1 DEF PacksStep, ActivityModel, ActivityRuntime, Send, Redelivered,
       ServiceRuntime, CopyOpen, CopyClose, CopySkip, CopyDone
  <2>3. disturbed = FALSE /\ import # NoImport
    BY <2>2 DEF ImportBegin, ImportEntry, ImportDone, ImportFails, NoImport
  <2> QED
    BY <2>3 DEF Undisturbed
<1>5. CASE InitBegin
  <2>1. /\ UNCHANGED <<disk, arg, runtime>> /\ tries' = Tries(ModelKind) /\ engine' = "init"
    BY <1>5 DEF InitBegin, packVars
  <2>2. Tries(ModelKind)' = Tries(ModelKind)
    BY <2>1, TriesKept
  <2> QED
    BY <2>1, <2>2 DEF Tried
<1>6. CASE InitFallsBack
  <2>1. /\ UNCHANGED <<disk, arg, runtime>> /\ disturbed = FALSE
        /\ engine = "init" /\ engine' = "init" /\ tries # <<>> /\ tries' = Tail(tries)
        /\ refused' = IF CanLoad(Head(tries)) THEN refused \cup {Head(tries).name} ELSE refused
    BY <1>6 DEF InitFallsBack, packVars
  <2>2. Tries(ModelKind)' = Tries(ModelKind) /\ \A t : CanLoad(t)' <=> CanLoad(t)
    BY <2>1, TriesKept
  <2>3. Range(tries) = {Head(tries)} \cup Range(tries')
    BY <2>1, HeadAndTail DEF EngineOK
  <2>4. /\ Range(tries) \subseteq Range(Tries(ModelKind))
        /\ \A t \in Range(Tries(ModelKind)) :
              t \in Range(tries) \/ t.name \in refused \/ ~CanLoad(t)
    BY <2>1 DEF Tried
  <2>5. ASSUME NEW t \in Range(Tries(ModelKind))
        PROVE  t \in Range(tries') \/ t.name \in refused' \/ ~CanLoad(t)
    BY <2>1, <2>3, <2>4
  <2>6. Range(tries') \subseteq Range(Tries(ModelKind)')
    BY <2>2, <2>3, <2>4
  <2>7. \A t \in Range(Tries(ModelKind)') :
            t \in Range(tries') \/ t.name \in refused' \/ ~CanLoad(t)'
    BY <2>2, <2>5
  <2> QED
    BY <2>1, <2>6, <2>7 DEF Tried
<1>7. CASE InitFails
  <2>1. /\ UNCHANGED <<disk, arg, runtime, refused>> /\ disturbed = FALSE
        /\ engine = "init" /\ engine' = "failed" /\ tries = <<>>
    BY <1>7 DEF InitFails
  <2>2. Tries(ModelKind)' = Tries(ModelKind) /\ \A t : CanLoad(t)' <=> CanLoad(t)
    BY <2>1, TriesKept
  <2>3. Range(tries) = {}
    BY <2>1, EmptyFacts
  <2>4. \A t \in Range(Tries(ModelKind)) : t.name \in refused \/ ~CanLoad(t)
    BY <2>1, <2>3 DEF Tried
  <2> QED
    BY <2>1, <2>2, <2>4 DEF Tried
<1>8. CASE InitSucceeds
  BY <1>1, <1>8 DEF InitSucceeds
<1> QED
  BY <1>1, <1>2, <1>3, <1>4, <1>5, <1>6, <1>7, <1>8 DEF SelectionNext, engineVars

LEMMA SelectionStart == SelectionInit => SelectionInv
<1> SUFFICES ASSUME SelectionInit PROVE SelectionInv
  OBVIOUS
<1> USE DEF SelectionInit, PacksInit, EngineInit
<1>1. StorageOK(disk)
  <2>1. PICK i \in Installed :
            disk = [d \in External \cup Internal |->
                        IF d \in DOMAIN i THEN [f \in i[d] |-> File(d, f, 1)] ELSE <<>>]
    OBVIOUS
  <2>2. DOMAIN i \subseteq External
    BY PacksAssumption
  <2>3. \A d \in Dirs : \A f \in DOMAIN disk[d] : d \in External /\ disk[d][f] = File(d, f, 1)
    BY <2>1, <2>2 DEF Dirs
  <2>4. ASSUME NEW d \in External, NEW f
        PROVE  /\ IsContent(File(d, f, 1)) /\ File(d, f, 1).pack = d /\ File(d, f, 1).file = f
               /\ File(d, f, 1).whole
    BY FileFacts DEF File
  <2>5. External \subseteq Dirs /\ Copies \subseteq Dirs /\ External \cap Copies = {}
        /\ "native" \in Dirs /\ "qnn-runtime" \in Dirs
    BY NoneIsNoDirectory DEF Dirs, External, Internal
  <2>6. DOMAIN disk = Dirs
    BY <2>1 DEF Dirs
  <2> HIDE DEF PacksInit, EngineInit, SelectionInv
  <2>7. ASSUME NEW d \in Dirs, NEW f \in DOMAIN disk[d]
        PROVE  IsContent(disk[d][f]) /\ disk[d][f].pack \in Owners(d)
    BY <2>3, <2>4, <2>7, OwnersFacts
  <2>8. ASSUME NEW d \in External \cup Copies, NEW f \in DOMAIN disk[d]
        PROVE  disk[d][f].file = f
    BY <2>3, <2>4, <2>5, <2>8
  <2>9. ASSUME NEW d \in Copies, NEW f \in DOMAIN disk[d] PROVE FALSE
    BY <2>3, <2>5, <2>9
  <2>10. ASSUME NEW d \in {"native", "qnn-runtime"}, NEW f \in DOMAIN disk[d]
         PROVE  disk[d][f].whole
    BY <2>3, <2>4, <2>5, <2>10
  <2> QED
    BY <2>6, <2>7, <2>8, <2>9, <2>10 DEF StorageOK
<1>2. PacksOK
  BY DEF PacksOK, Stages
<1>3. EngineOK
  BY DEF EngineOK
<1>4. Undisturbed /\ Tried
  BY DEF Undisturbed, Tried
<1> QED
  BY <1>1, <1>2, <1>3, <1>4 DEF SelectionInv

LEMMA SelectionStep ==
    SelectionInv /\ [SelectionNext]_selectionVars => SelectionInv'
<1> SUFFICES ASSUME SelectionInv, [SelectionNext]_selectionVars PROVE SelectionInv'
  OBVIOUS
<1>1. StorageOK(disk)' /\ PacksOK' /\ EngineOK'
  BY StorageNext, PacksNext, EngineNext DEF SelectionInv, StorageStep
<1>2. disturbed' = FALSE => Undisturbed' /\ Tried'
  BY UndisturbedNext, TriedNext DEF SelectionInv
<1> QED
  BY <1>1, <1>2 DEF SelectionInv

(* The storage keeps its order, whatever dies or fails; and in a start that  *)
(* nothing disturbs, init is given the selected pack or a fresh copy of it   *)
(* and a runtime directory that is filled, and forgets no creation.          *)
THEOREM SelectionInvariant == SelectionSpec => []SelectionInv
BY SelectionStart, SelectionStep, PTL DEF SelectionSpec

-----------------------------------------------------------------------------
(* What the engine runs *)

TryNames == {"fire_red_asr2_ctc_qnn", "fire_red_asr2_ctc_qnn_cpu", "sensevoice_qnn",
             "paraformer_qnn", "paraformer_xnnpack", "paraformer_cpu",
             "fire_red_asr2_ctc", "qwen3_asr_qnn", "qwen3_asr_cpu", "zipformer_ctc",
             "paraformer"}

\* Where the files of a try lie.
Lies(x) ==
    \/ x[1] = arg /\ x[2] # "cmvn.txt"
    \/ x[1] = CpuSibling(arg) /\ x[2] \in Qwen3Files
    \/ x[1] = runtime /\ x[2] = "libmodel.so"

GoodTry(t) ==
    /\ t.name \in TryNames /\ \A x \in t.files : Lies(x)
    /\ \E x \in t.files : x[1] \in {arg, CpuSibling(arg)}

LEMMA TryFields ==
    ASSUME NEW n, NEW F, NEW d
    PROVE  /\ Try(n, F, d).name = n
           /\ \A x \in Try(n, F, d).files : x[1] = d /\ x[2] \in F
           /\ \A f \in F : \E x \in Try(n, F, d).files : x[1] = d /\ x[2] = f
<1>1. Try(n, F, d).name = n /\ Try(n, F, d).files = {<<d, f>> : f \in F}
  BY DEF Try
<1>2. \A f \in F : <<d, f>>[1] = d /\ <<d, f>>[2] = f
  OBVIOUS
<1>3. ASSUME NEW x \in Try(n, F, d).files PROVE x[1] = d /\ x[2] \in F
  BY <1>1
<1>4. ASSUME NEW f \in F PROVE \E x \in Try(n, F, d).files : x[1] = d /\ x[2] = f
  BY <1>1, <1>2
<1> QED
  BY <1>1, <1>3, <1>4

LEMMA TryFiles ==
    ASSUME NEW t \in Range(Tries(ModelKind))
    PROVE  GoodTry(t)
<1>1. ASSUME NEW n \in TryNames, NEW F, "cmvn.txt" \notin F, NEW f \in F
      PROVE  GoodTry(Try(n, F, arg))
  BY <1>1, TryFields DEF GoodTry, Lies
<1>2. GoodTry(Try("qwen3_asr_cpu", Qwen3Files, CpuSibling(arg)))
  <2>1. "tokenizer" \in Qwen3Files /\ "qwen3_asr_cpu" \in TryNames
    BY DEF Qwen3Files, TryNames
  <2> QED
    BY <2>1, TryFields DEF GoodTry, Lies
<1>3. GoodTry([name |-> "sensevoice_qnn", files |-> {SenseVoiceLibrary, <<arg, "tokens.txt">>}])
  <2>1. Lies(SenseVoiceLibrary)
    BY DEF SenseVoiceLibrary, Lies
  <2>2. Lies(<<arg, "tokens.txt">>) /\ <<arg, "tokens.txt">>[1] = arg
    BY DEF Lies
  <2> QED
    BY <2>1, <2>2 DEF GoodTry, TryNames
<1>4. GoodTry([name |-> "qwen3_asr_qnn",
               files |-> {<<CpuSibling(arg), "conv_frontend.onnx">>,
                          <<CpuSibling(arg), "encoder.int8.onnx">>, <<runtime, "libmodel.so">>}])
  <2>1. /\ Lies(<<CpuSibling(arg), "conv_frontend.onnx">>)
        /\ Lies(<<CpuSibling(arg), "encoder.int8.onnx">>)
        /\ Lies(<<runtime, "libmodel.so">>)
        /\ <<CpuSibling(arg), "conv_frontend.onnx">>[1] = CpuSibling(arg)
    BY DEF Lies, Qwen3Files
  <2> QED
    BY <2>1 DEF GoodTry, TryNames
<1>5. /\ GoodTry(Try("fire_red_asr2_ctc_qnn", {"libmodel.so", "tokens.txt"}, arg))
      /\ GoodTry(Try("fire_red_asr2_ctc_qnn", {"model.onnx", "tokens.txt"}, arg))
      /\ GoodTry(Try("fire_red_asr2_ctc_qnn_cpu", {"model.onnx", "tokens.txt"}, arg))
  BY <1>1 DEF TryNames
<1>6. GoodTry(Try("paraformer_qnn",
                  {"libencoder.so", "libpredictor.so", "libdecoder.so", "tokens.txt"}, arg))
  BY <1>1 DEF TryNames
<1>7. /\ GoodTry(Try("paraformer_xnnpack", {OnnxModel, "tokens.txt"}, arg))
      /\ GoodTry(Try("paraformer_cpu", {OnnxModel, "tokens.txt"}, arg))
  <2>1. "cmvn.txt" \notin {OnnxModel, "tokens.txt"}
    BY DEF OnnxModel
  <2> QED
    BY <1>1, <2>1 DEF TryNames
<1>8. /\ GoodTry(Try("fire_red_asr2_ctc", {"model.int8.onnx", "tokens.txt"}, arg))
      /\ GoodTry(Try("zipformer_ctc", {"model.int8.onnx", "tokens.txt"}, arg))
      /\ GoodTry(Try("paraformer",
                     {"encoder.int8.onnx", "decoder.int8.onnx", "tokens.txt"}, arg))
  BY <1>1 DEF TryNames
<1>9. ASSUME NEW kind, t \in Range(Tries(kind)) PROVE GoodTry(t)
  <2>1. CASE kind = "FireRedAsr2CtcQnn"
    BY <1>5, <1>9, <2>1, TriesFacts
  <2>2. CASE kind = "SenseVoiceQnn"
    BY <1>3, <1>9, <2>2, TriesFacts
  <2>3. CASE kind = "ParaformerQnn"
    BY <1>6, <1>9, <2>3, TriesFacts
  <2>4. CASE kind = "ParaformerXnnpack"
    BY <1>7, <1>9, <2>4, TriesFacts
  <2>5. CASE kind \in {"FireRedAsr2Ctc", "ZipformerCtc", "Paraformer"}
    BY <1>8, <1>9, <2>5, TriesFacts
  <2>6. CASE kind \in {"Qwen3AsrQnn", "Qwen3AsrCpu"}
    BY <1>2, <1>4, <1>9, <2>6, TriesFacts
  <2>7. CASE kind \notin {"FireRedAsr2CtcQnn", "SenseVoiceQnn", "ParaformerQnn",
          "ParaformerXnnpack", "FireRedAsr2Ctc", "Qwen3AsrQnn", "Qwen3AsrCpu",
          "ZipformerCtc", "Paraformer"}
    BY <1>9, <2>7, TriesFacts
  <2> QED
    BY <2>1, <2>2, <2>3, <2>4, <2>5, <2>6, <2>7
<1> QED
  BY <1>9

Installs(c) ==
    \/ c.pack = "native" \/ c.file \in SameSize \cup Qwen3Files
    \/ c \in {disk[selected][f] : f \in DOMAIN disk[selected]}

\* The directory that was handed over holds what the pack holds.
LEMMA HandedFiles ==
    ASSUME StorageOK(disk), selected \in External, selected = "paraformer" \/ Ready(selected),
           NEW d, Handed(d), NEW f \in DOMAIN disk[d], f # "cmvn.txt"
    PROVE  Installs(disk[d][f])
<1>1. CASE d = selected
  BY <1>1 DEF Installs
<1>2. CASE d = Target(selected) /\ Prepares(selected) /\ Fresh
  <2>1. d \in Copies /\ d # None
    BY <1>2, TargetFacts DEF Prepares
  <2>2. /\ IsContent(disk[d][f]) /\ disk[d][f].pack \in Owners(d)
        /\ disk[d][f].file = f /\ f \in Range(Wanted(d)) /\ f \in DOMAIN disk[disk[d][f].pack]
    BY <2>1, NoneIsNoDirectory DEF StorageOK
  <2>3. FreshFile(selected, d, f)
    BY <1>2, <2>2 DEF Fresh
  <2>4. f \in DOMAIN disk[selected]
    <3>1. CASE d = "fire_red_qnn_ml"
      <4>1. selected \in FireRedPacks
        BY <1>2, <3>1 DEF Target, FireRedDirs, FireRedPacks, None, External
      <4>2. "libmodel.so" \in DOMAIN disk[selected]
        BY <1>2, <3>1, <4>1 DEF Prepares, Has, Target, FireRedDirs, FireRedPacks
      <4>3. "tokens.txt" \in DOMAIN disk[selected]
        BY <4>1 DEF Ready, Has, FireRedPacks
      <4> QED
        BY <2>2, <3>1, <4>2, <4>3, WantedFacts
    <3>2. CASE d # "fire_red_qnn_ml"
      <4>1. Owners(d) = {selected}
        BY <1>2, <2>1, <3>2, OwnersFacts DEF Target, Copies, None, External, FireRedDirs
      <4> QED
        BY <2>2, <4>1
    <3> QED
      BY <3>1, <3>2
  <2>5. EqualLength(disk[selected][f], disk[d][f])
    BY <2>3, <2>4 DEF FreshFile, Has
  <2>6. disk[d][f] = disk[selected][f] \/ disk[d][f].file \in SameSize
    BY <2>5 DEF EqualLength
  <2> QED
    BY <2>4, <2>6 DEF Installs
<1> QED
  BY <1>1, <1>2 DEF Handed

\* What an engine loads in a start that nothing disturbed.
LEMMA LoadedFacts ==
    ASSUME SelectionInv, disturbed = FALSE, stage = "init",
           NEW t \in Range(Tries(ModelKind)), CanLoad(t), NEW c \in Loads(t)
    PROVE  Installs(c)
<1>1. /\ StorageOK(disk) /\ PacksOK /\ Undisturbed
  BY DEF SelectionInv
<1>2. selected = Resolve /\ Handed(arg) /\ RuntimeThere /\ runtime # None
  BY <1>1 DEF Undisturbed, Handing
<1>3. selected \in External /\ (selected = "paraformer" \/ Ready(selected))
  BY <1>1, <1>2, ResolveFacts DEF PacksOK
<1>4. PICK x \in t.files : Has(x[1], {x[2]}) /\ c = disk[x[1]][x[2]]
  BY DEF Loads
<1>5. x[2] \in DOMAIN disk[x[1]]
  BY <1>4 DEF Has
<1>6. CASE x[1] = arg /\ x[2] # "cmvn.txt"
  BY <1>1, <1>2, <1>3, <1>4, <1>5, <1>6, HandedFiles
<1>7. CASE x[1] = CpuSibling(arg) /\ x[2] \in Qwen3Files
  <2>1. CASE CpuSibling(arg) = arg
    BY <1>6, <1>7, <2>1 DEF Qwen3Files
  <2>2. CASE CpuSibling(arg) # arg
    <3>1. x[1] \in External
      BY <1>7, <2>2 DEF CpuSibling, External
    <3>2. c.file = x[2]
      BY <1>1, <1>4, <1>5, <3>1 DEF StorageOK
    <3> QED
      BY <1>7, <3>2 DEF Installs
  <2> QED
    BY <2>1, <2>2
<1>8. CASE x[1] = runtime /\ x[2] = "libmodel.so"
  <2>1. CASE runtime = "qnn-runtime"
    <3>1. c.pack \in Owners("qnn-runtime")
      BY <1>1, <1>4, <1>5, <1>8, <2>1 DEF StorageOK, Dirs, Internal
    <3> QED
      BY <3>1, OwnersFacts DEF Installs
  <2>2. CASE runtime = "qnn-runtime-qwen3"
    <3>1. PICK f \in DOMAIN disk[selected] : EqualLength(c, disk[selected][f])
      BY <1>2, <1>4, <1>8, <2>2 DEF RuntimeThere, DecoderThere
    <3>2. c = disk[selected][f] \/ c.file \in SameSize
      BY <3>1 DEF EqualLength
    <3> QED
      BY <3>2 DEF Installs
  <2> QED
    BY <1>1, <1>2, <2>1, <2>2 DEF PacksOK
<1>9. Lies(x)
  BY TryFiles DEF GoodTry
<1> QED
  BY <1>6, <1>7, <1>8, <1>9 DEF Lies

\* ... and which backend it is.
LEMMA FittingBackend ==
    ASSUME SelectionInv, disturbed = FALSE, stage = "init",
           NEW t \in Range(Tries(ModelKind)), CanLoad(t), Ready(OwnPack(policy))
    PROVE  selected = OwnPack(policy) /\ selected \in Fits(t.name)
<1>1. /\ StorageOK(disk) /\ PacksOK /\ Undisturbed
  BY DEF SelectionInv
<1>2. selected = Resolve /\ Handed(arg) /\ policy \in Policies
  BY <1>1 DEF Undisturbed, Handing, PacksOK
<1>3. selected = OwnPack(policy)
  BY <1>2, ResolveFacts
<1>4. selected \in {"sensevoice", "paraformer-qnn", "paraformer-offline",
                    "qwen3-asr-0.6b", "fire-red-asr2-ctc", "fire-red-asr2-ctc-qnn"}
  BY <1>2, <1>3, OwnPackFacts
<1>5. arg = selected \/ (arg = Target(selected) /\ arg # None)
  BY <1>2 DEF Handed, Prepares
<1>6. arg \in Dirs /\ CpuSibling(arg) = arg
  BY <1>4, <1>5, TargetFacts, NoneIsNoDirectory DEF CpuSibling, External, Copies
<1>7. PICK x \in t.files : x[1] = arg
  BY <1>6, TryFiles DEF GoodTry
<1>8. PICK p : p \in Owners(arg) /\ p \in Fits(t.name)
  <2>1. x[2] \in DOMAIN disk[arg] /\ disk[arg][x[2]].pack \in Fits(t.name)
    BY <1>7 DEF CanLoad, Has
  <2> QED
    BY <1>1, <1>6, <2>1 DEF StorageOK
<1>9. \/ Owners(arg) = {selected}
      \/ Owners(arg) = FireRedPacks /\ selected \in FireRedPacks
  BY <1>4, <1>5, OwnersFacts DEF Target, FireRedDirs, FireRedPacks, External, None
<1>10. ASSUME NEW n \in TryNames, NEW q \in FireRedPacks, q \in Fits(n)
       PROVE  FireRedPacks \subseteq Fits(n)
  BY <1>10 DEF TryNames, Fits, FireRedPacks
<1>11. t.name \in TryNames
  BY TryFiles DEF GoodTry
<1> QED
  BY <1>3, <1>8, <1>9, <1>10, <1>11

\* As long as an engine is up and nothing disturbs, nothing happens.
LEMMA UpSteps ==
    ASSUME SelectionInv, [SelectionNext]_selectionVars, engine' = "up", disturbed' = FALSE
    PROVE  \/ InitSucceeds /\ disturbed = FALSE
           \/ engine = "up" /\ disturbed = FALSE /\ UNCHANGED selectionVars
<1>1. EngineOK /\ PacksOK /\ (disturbed = FALSE => Undisturbed)
  BY DEF SelectionInv
<1>2. CASE (StartServer \/ Die \/ \E p \in Policies : SetPolicy(p)) /\ NoEngine
  BY <1>2 DEF NoEngine
<1>3. CASE PacksStep /\ UNCHANGED engineVars
  <2>1. stage = "done"
    BY <1>1, <1>3 DEF EngineOK, engineVars
  <2>2. (\E z \in Zips : ImportBegin(z)) \/ ImportEntry \/ ImportDone \/ ImportFails
    BY <1>3, <2>1 DEF PacksStep, ActivityModel, ActivityRuntime, Send, Redelivered,
       ServiceRuntime, CopyOpen, CopyClose, CopySkip, CopyDone
  <2>3. disturbed = FALSE /\ import # NoImport
    BY <2>2 DEF ImportBegin, ImportEntry, ImportDone, ImportFails, NoImport
  <2> QED
    BY <1>1, <2>3 DEF Undisturbed
<1>4. CASE InitSucceeds
  BY <1>4 DEF InitSucceeds
<1>5. CASE InitBegin \/ InitFallsBack \/ InitFails
  BY <1>5 DEF InitBegin, InitFallsBack, InitFails
<1>6. CASE UNCHANGED selectionVars
  BY <1>6 DEF selectionVars, packVars, engineVars
<1> QED
  BY <1>2, <1>3, <1>4, <1>5, <1>6 DEF SelectionNext

\* The try that succeeds is one of those for the files that are there.
LEMMA SuccessFacts ==
    ASSUME SelectionInv, disturbed = FALSE, InitSucceeds
    PROVE  /\ Head(tries) \in Range(Tries(ModelKind)) /\ CanLoad(Head(tries)) /\ stage = "init"
           /\ used' = Loads(Head(tries)) /\ backendName' = Head(tries).name
           /\ UNCHANGED <<disk, selected, policy>>
<1>1. engine = "init" /\ tries # <<>> /\ tries \in Seq(Range(tries)) /\ Tried /\ stage = "init"
  BY DEF InitSucceeds, SelectionInv, EngineOK
<1>2. Head(tries) \in Range(tries)
  BY <1>1, HeadAndTail
<1>3. Head(tries) \in Range(Tries(ModelKind))
  BY <1>1, <1>2 DEF Tried
<1> QED
  BY <1>1, <1>3 DEF InitSucceeds

(* Undisturbed by faults and imports, the engine runs the libraries and     *)
(* models that are installed.                                               *)
THEOREM SelectionLoadsWhatIsInstalled == SelectionSpec => []LoadsWhatIsInstalled
<1>1. SelectionInit => LoadsWhatIsInstalled
  BY DEF SelectionInit, EngineInit, LoadsWhatIsInstalled
<1>2. SelectionInv /\ LoadsWhatIsInstalled /\ [SelectionNext]_selectionVars
      => LoadsWhatIsInstalled'
  <2> SUFFICES ASSUME SelectionInv, LoadsWhatIsInstalled, [SelectionNext]_selectionVars
               PROVE  LoadsWhatIsInstalled'
    OBVIOUS
  <2>1. disturbed' \in BOOLEAN
    BY SelectionStep DEF SelectionInv, PacksOK
  <2> SUFFICES ASSUME engine' = "up", disturbed' = FALSE, NEW c \in used'
               PROVE  Installs(c)'
    BY <2>1 DEF LoadsWhatIsInstalled, Installs
  <2>2. CASE InitSucceeds /\ disturbed = FALSE
    <3>1. PICK t \in Range(Tries(ModelKind)) :
              /\ t = Head(tries) /\ CanLoad(t) /\ used' = Loads(t) /\ stage = "init"
              /\ UNCHANGED <<disk, selected>>
      BY <2>2, SuccessFacts
    <3>2. Installs(c)
      BY <2>2, <3>1, LoadedFacts
    <3> QED
      BY <3>1, <3>2 DEF Installs
  <2>3. CASE engine = "up" /\ disturbed = FALSE /\ UNCHANGED selectionVars
    <3>1. c \in used /\ UNCHANGED <<disk, selected>>
      BY <2>3 DEF selectionVars, packVars, engineVars
    <3> QED
      BY <2>3, <3>1 DEF LoadsWhatIsInstalled, Installs
  <2> QED
    BY <2>2, <2>3, UpSteps
<1> QED
  BY <1>1, <1>2, SelectionInvariant, PTL DEF SelectionSpec

(* When the pack of the policy is there, the engine runs a backend for it.  *)
THEOREM SelectionObeysThePolicy == SelectionSpec => []PolicyObeyed
<1>1. SelectionInit => PolicyObeyed
  BY DEF SelectionInit, EngineInit, PolicyObeyed
<1>2. SelectionInv /\ PolicyObeyed /\ [SelectionNext]_selectionVars => PolicyObeyed'
  <2> SUFFICES ASSUME SelectionInv, PolicyObeyed, [SelectionNext]_selectionVars
               PROVE  PolicyObeyed'
    OBVIOUS
  <2>1. disturbed' \in BOOLEAN
    BY SelectionStep DEF SelectionInv, PacksOK
  <2> SUFFICES ASSUME engine' = "up", disturbed' = FALSE, Ready(OwnPack(policy))'
               PROVE  (selected = OwnPack(policy) /\ selected \in Fits(backendName))'
    BY <2>1 DEF PolicyObeyed
  <2>2. CASE InitSucceeds /\ disturbed = FALSE
    <3>1. PICK t \in Range(Tries(ModelKind)) :
              /\ t = Head(tries) /\ CanLoad(t) /\ backendName' = t.name /\ stage = "init"
              /\ UNCHANGED <<disk, selected, policy>>
      BY <2>2, SuccessFacts
    <3>2. OwnPack(policy)' = OwnPack(policy)
      BY <3>1 DEF OwnPack
    <3>3. \A p : Ready(p)' <=> Ready(p)
      BY <3>1 DEF Ready, Has, HasAny
    <3>4. Ready(OwnPack(policy))
      BY <3>2, <3>3
    <3>5. selected = OwnPack(policy) /\ selected \in Fits(t.name)
      BY <2>2, <3>1, <3>4, FittingBackend
    <3> QED
      BY <3>1, <3>2, <3>5
  <2>3. CASE engine = "up" /\ disturbed = FALSE /\ UNCHANGED selectionVars
    <3>1. UNCHANGED <<disk, selected, policy, backendName>>
      BY <2>3 DEF selectionVars, packVars, engineVars
    <3>2. PolicyObeyed' <=> PolicyObeyed
      BY <2>3, <3>1 DEF selectionVars, packVars, engineVars, PolicyObeyed, Ready, Has, HasAny,
         OwnPack, Qwen3Files
    <3> QED
      BY <2>3, <3>1, <3>2 DEF PolicyObeyed, selectionVars, engineVars
  <2> QED
    BY <2>2, <2>3, UpSteps
<1> QED
  BY <1>1, <1>2, SelectionInvariant, PTL DEF SelectionSpec

-----------------------------------------------------------------------------
(* Inits that fail *)

\* Files that make init take a pack for one of another kind.
Strays(p) ==
    CASE p = "fire-red-asr2-ctc" -> {"model.bin", "libencoder.so"}
      [] p = "paraformer-offline" -> {"model.bin", "libmodel.so", "libencoder.so"}
      [] p \in {"qwen3-asr-0.6b-qnn", "qwen3-asr-0.6b"} -> {"tokens.txt"}
      [] OTHER -> {}

\* Packs as the scripts make them: without such files.
NoStrays ==
    /\ \A i \in Installed : \A p \in DOMAIN i : i[p] \cap Strays(p) = {}
    /\ \A z \in Zips : Range(z[2]) \cap Strays(z[1]) = {}

Clean ==
    /\ \A p \in External : DOMAIN disk[p] \cap Strays(p) = {}
    /\ Range(import.todo) \cap Strays(import.pack) = {}

LEMMA CleanStart == ASSUME NoStrays PROVE SelectionInit => Clean
<1> SUFFICES ASSUME SelectionInit PROVE Clean
  OBVIOUS
<1>1. PICK i \in Installed :
          disk = [d \in External \cup Internal |->
                      IF d \in DOMAIN i THEN [f \in i[d] |-> File(d, f, 1)] ELSE <<>>]
  BY DEF SelectionInit, PacksInit
<1>2. ASSUME NEW p \in External PROVE DOMAIN disk[p] \cap Strays(p) = {}
  BY <1>1 DEF NoStrays
<1>3. import.todo = <<>>
  BY DEF SelectionInit, PacksInit, NoImport
<1>4. Range(import.todo) = {}
  BY <1>3, EmptyFacts
<1> QED
  BY <1>2, <1>4 DEF Clean

LEMMA CleanStep ==
    ASSUME NoStrays, SelectionInv, Clean, [SelectionNext]_selectionVars
    PROVE  Clean'
<1>1. StorageOK(disk) /\ PacksOK /\ StorageOK(disk)'
  BY SelectionStep DEF SelectionInv
<1>2. /\ import \in [pack : External \ {"native"}, todo : Seq(STRING)] \cup {NoImport}
      /\ Range(<<>>) = {}
  BY <1>1, EmptyFacts DEF PacksOK
<1>3. CASE ImportEntry
  <2> DEFINE f == Head(import.todo)
             p == import.pack
  <2>1. /\ import \in [pack : External \ {"native"}, todo : Seq(STRING)]
        /\ import.todo \in Seq(STRING) /\ import.todo # <<>>
    BY <1>2, <1>3 DEF ImportEntry, NoImport
  <2>2. Range(import.todo) = {f} \cup Range(Tail(import.todo))
    BY <2>1, HeadAndTail
  <2>3. p \in External /\ p \in Dirs /\ DOMAIN disk = Dirs
    BY <1>1, <2>1, NoneIsNoDirectory DEF StorageOK
  <2>4. \E c : disk' = Put(disk, p, f, c)
    BY <1>3 DEF ImportEntry
  <2>5. import' = import \/ import' = [import EXCEPT !.todo = Tail(@)]
    BY <1>3 DEF ImportEntry
  <2>6. import'.pack = p /\ (import'.todo = import.todo \/ import'.todo = Tail(import.todo))
    BY <2>1, <2>5
  <2> HIDE DEF f, p
  <2>7. /\ DOMAIN disk'[p] = DOMAIN disk[p] \cup {f}
        /\ \A e \in External : e # p => disk'[e] = disk[e]
    BY <2>3, <2>4, PutFacts, NoneIsNoDirectory
  <2>8. f \notin Strays(p)
    BY <2>2 DEF Clean, p
  <2>9. \A e \in External : DOMAIN disk'[e] \cap Strays(e) = {}
    BY <2>7, <2>8 DEF Clean
  <2>10. Range(import'.todo) \subseteq Range(import.todo)
    BY <2>2, <2>6
  <2>11. Range(import'.todo) \cap Strays(import'.pack) = {}
    BY <2>6, <2>10 DEF Clean, p
  <2> QED
    BY <2>9, <2>11 DEF Clean
<1>4. CASE ~ImportEntry
  <2>1. \A d \in External : disk'[d] = disk[d]
    <3>1. CASE UNCHANGED disk
      BY <3>1
    <3>2. CASE ActivityRuntime
      <4>1. stage = "qwen3-runtime" => QnnSibling(modelDir) \in External
        BY <1>1 DEF PacksOK, QnnSibling, External
      <4> QED
        BY <1>1, <3>2, <4>1, GenericRuntimeFacts, Qwen3RuntimeFacts DEF ActivityRuntime
    <3>3. CASE ServiceRuntime
      <4>1. Resolve \in External
        BY <1>1, ResolveFacts DEF PacksOK
      <4> QED
        BY <1>1, <3>3, <4>1, GenericRuntimeFacts, Qwen3RuntimeFacts DEF ServiceRuntime
    <3>4. CASE CopyOpen \/ CopyClose
      <4>1. prep.to \in Copies /\ DOMAIN disk = Dirs
        BY <1>1, <3>4 DEF CopyOpen, CopyClose, PacksOK, StorageOK
      <4>2. prep.to \in Dirs /\ \A d \in External : d \in Dirs /\ d # prep.to
        BY <4>1, NoneIsNoDirectory
      <4>3. \/ UNCHANGED disk
            \/ \E f, c : disk' = Put(disk, prep.to, f, c)
        BY <3>4 DEF CopyOpen, CopyClose
      <4> QED
        BY <4>1, <4>2, <4>3, PutFacts
    <3>5. \/ UNCHANGED disk \/ ActivityRuntime \/ ServiceRuntime \/ CopyOpen \/ CopyClose
      BY <1>4 DEF SelectionNext, selectionVars, packVars, PacksStep, StartServer, Die,
         SetPolicy, ActivityModel, Send, Redelivered, CopySkip, CopyDone, ImportBegin,
         ImportDone, ImportFails, InitBegin, InitSucceeds, InitFallsBack, InitFails
    <3> QED
      BY <3>1, <3>2, <3>3, <3>4, <3>5
  <2>2. Range(import'.todo) \cap Strays(import'.pack) = {}
    <3>1. CASE UNCHANGED import
      BY <3>1 DEF Clean
    <3>2. CASE import' = NoImport
      BY <1>2, <3>2 DEF NoImport
    <3>3. ASSUME NEW z \in Zips, import' = [pack |-> z[1], todo |-> z[2]]
          PROVE  Range(import'.todo) \cap Strays(import'.pack) = {}
      BY <3>3 DEF NoStrays
    <3>4. UNCHANGED import \/ import' = NoImport
          \/ \E z \in Zips : import' = [pack |-> z[1], todo |-> z[2]]
      BY <1>4 DEF SelectionNext, selectionVars, packVars, PacksStep, StartServer, Die,
         SetPolicy, ActivityModel, ActivityRuntime, Send, Redelivered, ServiceRuntime,
         CopyOpen, CopyClose, CopySkip, CopyDone, ImportBegin, ImportDone, ImportFails,
         InitBegin, InitSucceeds, InitFallsBack, InitFails
    <3> QED
      BY <3>1, <3>2, <3>3, <3>4
  <2>3. \A p \in External : DOMAIN disk'[p] \cap Strays(p) = {}
    BY <2>1 DEF Clean
  <2> QED
    BY <2>2, <2>3 DEF Clean
<1> QED
  BY <1>3, <1>4

In(d, f) == f \in DOMAIN disk[d]

\* What init takes a directory for.
LEMMA KindFacts ==
    /\ arg \in FireRedDirs /\ In(arg, "tokens.txt") /\ (In(arg, "model.onnx") \/ In(arg, "libmodel.so"))
       => ModelKind = "FireRedAsr2CtcQnn"
    /\ arg \notin FireRedDirs /\ In(arg, "tokens.txt")
       /\ (In(arg, "model.bin") \/ In(arg, "libmodel.so"))
       => ModelKind = "SenseVoiceQnn"
    /\ arg \notin FireRedDirs /\ In(arg, "tokens.txt") /\ ~In(arg, "model.bin")
       /\ ~In(arg, "libmodel.so") /\ In(arg, "libencoder.so") /\ In(arg, "libpredictor.so")
       /\ In(arg, "libdecoder.so")
       => ModelKind = "ParaformerQnn"
    /\ arg \notin FireRedDirs /\ In(arg, "tokens.txt") /\ ~In(arg, "model.bin")
       /\ ~In(arg, "libmodel.so") /\ ~In(arg, "libencoder.so")
       /\ (In(arg, "model.int8.onnx") \/ In(arg, "model.onnx"))
       => ModelKind = "ParaformerXnnpack"
    /\ arg = "fire-red-asr2-ctc" /\ In(arg, "tokens.txt") /\ ~In(arg, "model.bin")
       /\ ~In(arg, "libmodel.so") /\ ~In(arg, "libencoder.so") /\ ~In(arg, "model.onnx")
       /\ In(arg, "model.int8.onnx")
       => ModelKind = "FireRedAsr2Ctc"
    /\ ~In(arg, "tokens.txt") /\ Qwen3Qnn => ModelKind = "Qwen3AsrQnn"
    /\ ~In(arg, "tokens.txt") /\ ~Qwen3Qnn /\ Qwen3Cpu => ModelKind = "Qwen3AsrCpu"
<1>1. /\ \A d, f : Has(d, {f}) <=> In(d, f)
      /\ \A d, f, g : HasAny(d, {f, g}) <=> In(d, f) \/ In(d, g)
      /\ \A d, f, g, h : Has(d, {f, g, h}) <=> In(d, f) /\ In(d, g) /\ In(d, h)
  BY DEF Has, HasAny, In
<1>2. HasTokens <=> In(arg, "tokens.txt")
  BY <1>1 DEF HasTokens
<1>3. ParaformerXnnpack <=>
         /\ In(arg, "tokens.txt") /\ (In(arg, "model.int8.onnx") \/ In(arg, "model.onnx"))
         /\ arg \notin FireRedDirs \ {"fire_red_qnn_ml"}
  BY <1>1, <1>2 DEF ParaformerXnnpack
<1>4. "fire-red-asr2-ctc" \in FireRedDirs \ {"fire_red_qnn_ml"}
  BY DEF FireRedDirs
<1> QED
  BY <1>1, <1>2, <1>3, <1>4 DEF ModelKind, FireRedModel

LEMMA CanLoadTry ==
    ASSUME NEW n, NEW F, NEW d,
           \A f \in F : /\ In(d, f) /\ disk[d][f].whole /\ disk[d][f].pack \in Fits(n)
                        /\ f \in Library => d \in Internal
    PROVE  CanLoad(Try(n, F, d))
<1>1. ASSUME NEW x \in Try(n, F, d).files
      PROVE  /\ Has(x[1], {x[2]}) /\ disk[x[1]][x[2]].whole
             /\ disk[x[1]][x[2]].pack \in Fits(Try(n, F, d).name)
             /\ x[2] \in Library => x[1] \in Internal
  <2>1. x[1] = d /\ x[2] \in F /\ Try(n, F, d).name = n
    BY TryFields
  <2> QED
    BY <2>1 DEF In, Has
<1> QED
  BY <1>1 DEF CanLoad

\* An init that failed for a reason unknown.
Failed ==
    /\ SelectionInv /\ Clean /\ disturbed = FALSE /\ engine = "failed" /\ refused = {}
    /\ OneVersion(selected) /\ OneVersion(CpuSibling(selected))

\* A file that init can rely on.
Given(f) == In(arg, f) /\ disk[arg][f].whole /\ disk[arg][f].pack \in Owners(arg)

\* What such an init was given, and that it tried everything.
LEMMA FailedFacts ==
    ASSUME Failed
    PROVE  /\ StorageOK(disk) /\ selected \in External \ {"native"}
           /\ selected = "paraformer" \/ Ready(selected)
           /\ arg = IF Prepares(selected) THEN Target(selected) ELSE selected
           /\ runtime \in {"qnn-runtime", "qnn-runtime-qwen3"} /\ RuntimeThere
           /\ \A t \in Range(Tries(ModelKind)) : ~CanLoad(t)
           /\ \A f \in DOMAIN disk[selected] :
                 arg = selected \/ f \in Range(Wanted(arg)) => Given(f)
           /\ \A f \in DOMAIN disk[selected] : f \notin Strays(selected)
<1>1. /\ StorageOK(disk) /\ PacksOK /\ EngineOK /\ Undisturbed /\ Tried /\ refused = {}
      /\ engine = "failed" /\ OneVersion(selected) /\ Clean
  BY DEF Failed, SelectionInv
<1>2. stage = "done"
  BY <1>1 DEF EngineOK
<1>3. /\ selected = Resolve /\ Handed(arg) /\ (Prepares(selected) => arg # selected)
      /\ RuntimeThere /\ runtime # None
  BY <1>1, <1>2 DEF Undisturbed, Handing
<1>4. /\ selected \in External \ {"native"} /\ (selected = "paraformer" \/ Ready(selected))
  BY <1>1, <1>3, ResolveFacts DEF PacksOK
<1>5. arg = IF Prepares(selected) THEN Target(selected) ELSE selected
  BY <1>3 DEF Handed
<1>6. runtime \in {"qnn-runtime", "qnn-runtime-qwen3"}
  BY <1>1, <1>3 DEF PacksOK
<1>7. \A t \in Range(Tries(ModelKind)) : ~CanLoad(t)
  BY <1>1 DEF Tried
<1>8. selected \in Dirs
  BY <1>4, NoneIsNoDirectory
<1>9. ASSUME NEW f \in DOMAIN disk[selected], arg = selected \/ f \in Range(Wanted(arg))
      PROVE  Given(f)
  <2>1. disk[selected][f].whole
    BY <1>1 DEF OneVersion
  <2>2. CASE arg = selected
    BY <1>1, <1>8, <2>1, <2>2 DEF Given, In, StorageOK
  <2>3. CASE arg # selected
    <3>1. arg = Target(selected) /\ Fresh /\ arg \in Dirs
      BY <1>3, <1>5, <2>3, TargetFacts, NoneIsNoDirectory DEF Handed, Prepares
    <3>2. FreshFile(selected, arg, f)
      BY <1>9, <2>3, <3>1 DEF Fresh
    <3>3. f \in DOMAIN disk[arg] /\ EqualLength(disk[selected][f], disk[arg][f])
      BY <3>2 DEF FreshFile, Has
    <3>4. disk[arg][f].whole
      BY <2>1, <3>3 DEF EqualLength
    <3> QED
      BY <1>1, <3>1, <3>3, <3>4 DEF Given, In, StorageOK
  <2> QED
    BY <2>2, <2>3
<1>10. \A f \in DOMAIN disk[selected] : f \notin Strays(selected)
  BY <1>1, <1>4 DEF Clean
<1> QED
  BY <1>1, <1>3, <1>4, <1>5, <1>6, <1>7, <1>9, <1>10

\* Pack by pack: what is installed is found, taken for what it is, and can be
\* loaded.
LEMMA SenseVoiceFails ==
    ASSUME Failed, selected = "sensevoice"
    PROVE  ~Has("sensevoice", {"libmodel.so"}) /\ ~Has("native", {"libmodel.so"})
<1> SUFFICES ASSUME Has("sensevoice", {"libmodel.so"}) \/ Has("native", {"libmodel.so"})
             PROVE  FALSE
  OBVIOUS
<1>1. /\ In("sensevoice", "tokens.txt")
      /\ In("sensevoice", "model.bin") \/ In("sensevoice", "libmodel.so")
  <2>1. Ready("sensevoice")
    BY FailedFacts
  <2> QED
    BY <2>1 DEF Ready, Has, HasAny, In
<1>2. Prepares("sensevoice") <=> In("sensevoice", "libmodel.so")
  BY DEF Prepares, Target, Has, In, None
<1>3. arg = IF In("sensevoice", "libmodel.so") THEN "files/sensevoice" ELSE "sensevoice"
  <2>1. arg = IF Prepares(selected) THEN Target(selected) ELSE selected
    BY FailedFacts
  <2>2. Target("sensevoice") = "files/sensevoice"
    BY DEF Target, FireRedDirs
  <2> QED
    BY <1>2, <2>1, <2>2
<1>4. \A f \in {"libmodel.so", "model.bin", "tokens.txt"} : In("sensevoice", f) => Given(f)
  BY <1>3, FailedFacts, WantedFacts DEF In
<1>5. Given("tokens.txt") /\ (Given("model.bin") \/ Given("libmodel.so"))
  BY <1>1, <1>4
<1>6. ModelKind = "SenseVoiceQnn"
  BY <1>3, <1>5, KindFacts DEF Given, FireRedDirs
<1>7. Owners(arg) = {"sensevoice"} /\ {"sensevoice", "native"} = Fits("sensevoice_qnn")
  BY <1>3, OwnersFacts DEF External, Fits
<1> DEFINE t == [name |-> "sensevoice_qnn", files |-> {SenseVoiceLibrary, <<arg, "tokens.txt">>}]
           Loadable(x) == /\ Has(x[1], {x[2]}) /\ disk[x[1]][x[2]].whole
                          /\ disk[x[1]][x[2]].pack \in Fits("sensevoice_qnn")
                          /\ x[2] \in Library => x[1] \in Internal
<1>8. Loadable(<<arg, "tokens.txt">>)
  BY <1>5, <1>7 DEF Given, In, Has, Library
<1>9. runtime = "qnn-runtime"
  BY FailedFacts DEF RuntimeThere, DecoderThere
<1>10. ASSUME Has(runtime, {"libmodel.so"}) PROVE Loadable(SenseVoiceLibrary)
  <2>1. SenseVoiceLibrary = <<"qnn-runtime", "libmodel.so">>
    BY <1>9, <1>10 DEF SenseVoiceLibrary
  <2>2. "qnn-runtime" \in Dirs /\ "libmodel.so" \in DOMAIN disk["qnn-runtime"]
    BY <1>9, <1>10 DEF Has, Dirs, Internal
  <2>3. disk["qnn-runtime"]["libmodel.so"].whole /\ disk["qnn-runtime"]["libmodel.so"].pack = "native"
    BY <2>2, FailedFacts, OwnersFacts DEF StorageOK
  <2> QED
    BY <1>7, <2>1, <2>2, <2>3 DEF Has, Internal
<1>11. ASSUME ~Has(runtime, {"libmodel.so"}) PROVE Loadable(SenseVoiceLibrary)
  <2>1. In("sensevoice", "libmodel.so")
    BY <1>9, <1>11, FailedFacts DEF RuntimeThere, GenericThere, In, Has
  <2>2. Given("libmodel.so") /\ arg \in Internal /\ SenseVoiceLibrary = <<arg, "libmodel.so">>
    BY <1>3, <1>4, <1>11, <2>1 DEF SenseVoiceLibrary, Internal
  <2> QED
    BY <1>7, <2>2 DEF Given, In, Has
<1>12. Loadable(SenseVoiceLibrary)
  BY <1>10, <1>11
<1> HIDE DEF Loadable
<1>13. t.name = "sensevoice_qnn" /\ \A x \in t.files : Loadable(x)
  BY <1>8, <1>12
<1>14. CanLoad(t)
  BY <1>13 DEF CanLoad, Loadable
<1>15. t \in Range(Tries(ModelKind))
  BY <1>6, TriesFacts
<1> QED
  BY <1>14, <1>15, FailedFacts

LEMMA FireRedDoesNotFail ==
    ASSUME Failed, selected \in FireRedPacks
    PROVE  FALSE
<1>1. /\ In(selected, "tokens.txt")
      /\ selected = "fire-red-asr2-ctc" => In(selected, "model.int8.onnx")
      /\ selected = "fire-red-asr2-ctc-qnn" => In(selected, "model.onnx")
  <2>1. Ready(selected)
    BY FailedFacts DEF FireRedPacks
  <2>2. CASE selected = "fire-red-asr2-ctc"
    BY <2>1, <2>2 DEF Ready, Has, In
  <2>3. CASE selected = "fire-red-asr2-ctc-qnn"
    BY <2>1, <2>3 DEF Ready, Has, In
  <2> QED
    BY <2>2, <2>3 DEF FireRedPacks
<1>2. Target(selected) = "fire_red_qnn_ml"
  BY DEF Target, FireRedPacks, FireRedDirs
<1>3. arg = IF In(selected, "libmodel.so") THEN "fire_red_qnn_ml" ELSE selected
  <2>1. Prepares(selected) <=> In(selected, "libmodel.so")
    BY <1>2 DEF Prepares, Has, In, None
  <2>2. arg = IF Prepares(selected) THEN Target(selected) ELSE selected
    BY FailedFacts
  <2> QED
    BY <1>2, <2>1, <2>2
<1>4. /\ arg \in FireRedDirs /\ Owners(arg) \subseteq FireRedPacks
      /\ FireRedPacks \subseteq Fits("fire_red_asr2_ctc_qnn")
      /\ FireRedPacks \subseteq Fits("fire_red_asr2_ctc_qnn_cpu")
      /\ FireRedPacks \subseteq Fits("fire_red_asr2_ctc")
  BY <1>3, OwnersFacts DEF FireRedDirs, FireRedPacks, External, Fits
<1>5. CASE In(selected, "libmodel.so")
  <2>1. Given("libmodel.so") /\ Given("tokens.txt") /\ arg \in Internal
    BY <1>1, <1>3, <1>5, FailedFacts, WantedFacts DEF In, Internal
  <2> DEFINE t == Try("fire_red_asr2_ctc_qnn", {"libmodel.so", "tokens.txt"}, arg)
  <2>2. CanLoad(t)
    BY <1>4, <2>1, CanLoadTry DEF Given
  <2> HIDE DEF t
  <2>3. ModelKind = "FireRedAsr2CtcQnn"
    BY <1>4, <2>1, KindFacts DEF Given
  <2>4. t \in Range(Tries(ModelKind))
    BY <2>1, <2>3, TriesFacts DEF t, Given, In, Has
  <2> QED
    BY <2>2, <2>4, FailedFacts
<1>6. CASE ~In(selected, "libmodel.so")
  <2>1. /\ arg = selected
        /\ \A f : In(arg, f) => Given(f)
    BY <1>3, <1>6, FailedFacts DEF In
  <2>2. CASE In(arg, "model.onnx")
    <3> DEFINE t == Try("fire_red_asr2_ctc_qnn_cpu", {"model.onnx", "tokens.txt"}, arg)
    <3>1. Given("model.onnx") /\ Given("tokens.txt")
      BY <1>1, <2>1, <2>2
    <3>2. CanLoad(t)
      BY <1>4, <3>1, CanLoadTry DEF Given, Library
    <3> HIDE DEF t
    <3>3. ModelKind = "FireRedAsr2CtcQnn"
      BY <1>4, <3>1, KindFacts DEF Given
    <3>4. t \in Range(Tries(ModelKind))
      BY <3>3, TriesFacts DEF t
    <3> QED
      BY <3>2, <3>4, FailedFacts
  <2>3. CASE ~In(arg, "model.onnx")
    <3> DEFINE t == Try("fire_red_asr2_ctc", {"model.int8.onnx", "tokens.txt"}, arg)
    <3>1. selected = "fire-red-asr2-ctc"
      BY <1>1, <2>1, <2>3 DEF FireRedPacks
    <3>2. ~In(arg, "model.bin") /\ ~In(arg, "libencoder.so")
      <4>1. Strays(selected) = {"model.bin", "libencoder.so"}
        BY <3>1 DEF Strays
      <4> QED
        BY <2>1, <4>1, FailedFacts DEF In
    <3>3. Given("model.int8.onnx") /\ Given("tokens.txt")
      BY <1>1, <2>1, <3>1
    <3>4. CanLoad(t)
      BY <1>4, <3>3, CanLoadTry DEF Given, Library
    <3> HIDE DEF t
    <3>5. ModelKind = "FireRedAsr2Ctc"
      BY <1>6, <2>1, <2>3, <3>1, <3>2, <3>3, KindFacts DEF Given
    <3>6. t \in Range(Tries(ModelKind))
      BY <3>5, TriesFacts DEF t
    <3> QED
      BY <3>4, <3>6, FailedFacts
  <2> QED
    BY <2>2, <2>3
<1> QED
  BY <1>5, <1>6

LEMMA ParaformerDoesNotFail ==
    ASSUME Failed, selected \in {"paraformer-qnn", "paraformer-offline"}
    PROVE  FALSE
<1>1. Ready(selected)
  BY FailedFacts
<1>2. arg = IF Prepares(selected) THEN Target(selected) ELSE selected
  BY FailedFacts
<1>3. CASE selected = "paraformer-qnn"
  <2> DEFINE files == {"libencoder.so", "libpredictor.so", "libdecoder.so", "tokens.txt"}
             t == Try("paraformer_qnn", files, arg)
  <2>1. \A f \in files : In(selected, f)
    BY <1>1, <1>3 DEF Ready, Has, In
  <2>2. arg = "files/paraformer-qnn"
    BY <1>2, <1>3 DEF Prepares, Target, FireRedDirs, None
  <2>3. Range(Wanted(arg)) = files
    BY <2>2, WantedFacts
  <2>4. \A f \in files : Given(f)
    BY <2>1, <2>3, FailedFacts DEF In
  <2>5. Owners(arg) = Fits("paraformer_qnn") /\ arg \in Internal /\ arg \notin FireRedDirs
    BY <2>2, OwnersFacts DEF Fits, Internal, FireRedDirs
  <2>6. ~In(arg, "model.bin") /\ ~In(arg, "libmodel.so")
    <3>1. \A f \in DOMAIN disk[arg] : f \in Range(Wanted(arg))
      BY <2>2, FailedFacts DEF StorageOK, Copies
    <3> QED
      BY <2>3, <3>1 DEF In
  <2>7. CanLoad(t)
    <3> HIDE DEF files
    <3> QED
      BY <2>4, <2>5, CanLoadTry DEF Given
  <2>8. ModelKind = "ParaformerQnn"
    BY <2>4, <2>5, <2>6, KindFacts DEF Given
  <2>9. t \in Range(Tries(ModelKind))
    BY <2>8, TriesFacts
  <2> HIDE DEF t
  <2> QED
    BY <2>7, <2>9, FailedFacts
<1>4. CASE selected = "paraformer-offline"
  <2> DEFINE t == Try("paraformer_cpu", {OnnxModel, "tokens.txt"}, arg)
  <2>1. arg = selected
    BY <1>2, <1>4 DEF Prepares, Target, None, FireRedDirs
  <2>2. \A f : In(arg, f) => Given(f)
    BY <2>1, FailedFacts DEF In
  <2>3. /\ In(arg, "tokens.txt") /\ In(arg, OnnxModel)
        /\ In(arg, "model.int8.onnx") \/ In(arg, "model.onnx")
    BY <1>1, <1>4, <2>1 DEF Ready, Has, HasAny, In, OnnxModel
  <2>4. ~In(arg, "model.bin") /\ ~In(arg, "libmodel.so") /\ ~In(arg, "libencoder.so")
    <3>1. Strays(selected) = {"model.bin", "libmodel.so", "libencoder.so"}
      BY <1>4 DEF Strays
    <3> QED
      BY <2>1, <3>1, FailedFacts DEF In
  <2>5. Owners(arg) = Fits("paraformer_cpu") /\ arg \notin FireRedDirs
    BY <1>4, <2>1, OwnersFacts DEF Fits, FireRedDirs, External
  <2>6. OnnxModel \notin Library
    BY DEF OnnxModel, Library
  <2>7. CanLoad(t)
    <3>1. \A f \in {OnnxModel, "tokens.txt"} : Given(f) /\ f \notin Library
      BY <2>2, <2>3, <2>6 DEF Library
    <3> QED
      BY <2>5, <3>1, CanLoadTry DEF Given
  <2> HIDE DEF t
  <2>8. ModelKind = "ParaformerXnnpack"
    BY <2>3, <2>4, <2>5, KindFacts
  <2>9. t \in Range(Tries(ModelKind))
    BY <2>8, TriesFacts DEF t
  <2> QED
    BY <2>7, <2>9, FailedFacts
<1> QED
  BY <1>3, <1>4

LEMMA Qwen3DoesNotFail ==
    ASSUME Failed, selected \in {"qwen3-asr-0.6b-qnn", "qwen3-asr-0.6b"},
           selected = "qwen3-asr-0.6b-qnn" => Qwen3Cpu
    PROVE  FALSE
<1> DEFINE cpu == "qwen3-asr-0.6b"
           t == Try("qwen3_asr_cpu", Qwen3Files, CpuSibling(arg))
<1>1. arg = selected
  <2>1. arg = IF Prepares(selected) THEN Target(selected) ELSE selected
    BY FailedFacts
  <2>2. Target(selected) = None
    BY DEF Target, None, FireRedDirs
  <2> QED
    BY <2>1, <2>2 DEF Prepares
<1>2. CpuSibling(arg) = cpu /\ CpuSibling(selected) = cpu /\ cpu \in External
  BY <1>1 DEF CpuSibling, External
<1>3. Qwen3Cpu /\ Has(cpu, Qwen3Files)
  <2>1. CASE selected = cpu
    <3>1. Ready(selected)
      BY <2>1, FailedFacts
    <3> QED
      BY <1>2, <2>1, <3>1 DEF Ready, Qwen3Cpu
  <2>2. CASE selected # cpu
    BY <1>2, <2>2 DEF Qwen3Cpu
  <2> QED
    BY <2>1, <2>2
<1>4. ASSUME NEW f \in Qwen3Files
      PROVE  /\ In(cpu, f) /\ disk[cpu][f].whole /\ disk[cpu][f].pack \in Fits("qwen3_asr_cpu")
             /\ f \notin Library
  <2>1. f \in DOMAIN disk[cpu]
    BY <1>3, <1>4 DEF Has
  <2>2. disk[cpu][f].whole
    BY <1>2, <2>1 DEF Failed, OneVersion
  <2>3. disk[cpu][f].pack = cpu
    BY <1>2, <2>1, FailedFacts, NoneIsNoDirectory, OwnersFacts DEF StorageOK
  <2> QED
    BY <1>4, <2>1, <2>2, <2>3 DEF In, Fits, Qwen3Files, Library
<1>5. CanLoad(t)
  BY <1>2, <1>4, CanLoadTry
<1> HIDE DEF t
<1>6. ~In(arg, "tokens.txt")
  <2>1. Strays(selected) = {"tokens.txt"}
    BY DEF Strays
  <2> QED
    BY <1>1, <2>1, FailedFacts DEF In
<1>7. t \in Range(Tries(ModelKind))
  <2>1. CASE Qwen3Qnn
    BY <1>3, <1>6, <2>1, KindFacts, TriesFacts DEF t
  <2>2. CASE ~Qwen3Qnn
    BY <1>3, <1>6, <2>2, KindFacts, TriesFacts DEF t
  <2> QED
    BY <2>1, <2>2
<1> QED
  BY <1>5, <1>7, FailedFacts

(* If the packs are what the packaging scripts make, an init fails without  *)
(* need only where NoNeedlessFailure says so.                               *)
THEOREM SelectionFailsForAReason ==
    ASSUME NoStrays
    PROVE  SelectionSpec => []NoNeedlessFailure
<1>1. SelectionInv /\ Clean => NoNeedlessFailure
  <2> SUFFICES ASSUME SelectionInv, Clean, engine = "failed", ~disturbed, refused = {},
                      OneVersion(selected), OneVersion(CpuSibling(selected)),
                      selected \notin {"paraformer", "zipformer-ctc"},
                      ~(selected = "qwen3-asr-0.6b-qnn" /\ ~Qwen3Cpu)
               PROVE  /\ selected = "sensevoice" /\ ~Has("sensevoice", {"libmodel.so"})
                      /\ ~Has("native", {"libmodel.so"})
    BY DEF NoNeedlessFailure
  <2>1. Failed
    BY DEF Failed, SelectionInv, PacksOK
  <2>2. selected \in {"sensevoice", "fire-red-asr2-ctc", "fire-red-asr2-ctc-qnn",
                      "paraformer-qnn", "paraformer-offline", "qwen3-asr-0.6b-qnn",
                      "qwen3-asr-0.6b"}
    BY <2>1, FailedFacts DEF External
  <2>3. CASE selected = "sensevoice"
    BY <2>1, <2>3, SenseVoiceFails
  <2>4. CASE selected \in FireRedPacks
    BY <2>1, <2>4, FireRedDoesNotFail
  <2>5. CASE selected \in {"paraformer-qnn", "paraformer-offline"}
    BY <2>1, <2>5, ParaformerDoesNotFail
  <2>6. CASE selected \in {"qwen3-asr-0.6b-qnn", "qwen3-asr-0.6b"}
    BY <2>1, <2>6, Qwen3DoesNotFail
  <2> QED
    BY <2>2, <2>3, <2>4, <2>5, <2>6 DEF FireRedPacks
<1>2. SelectionInit => Clean
  BY CleanStart
<1>3. SelectionInv /\ Clean /\ [SelectionNext]_selectionVars => Clean'
  BY CleanStep
<1> QED
  BY <1>1, <1>2, <1>3, SelectionInvariant, PTL DEF SelectionSpec

-----------------------------------------------------------------------------
(* Recognizing *)

Tokens == {"before", "audio", "after", "none"} \cup Word
Entry == [request : Nat, nth : Nat]

DecodeTypeOK ==
    /\ cache \in [0..(MaxSteps - 1) -> Entry] /\ step \in Nat
    /\ phase \in {"idle", "prefill", "generate"}
    /\ request \in Nat /\ frames \in Nat /\ at \in Nat \ {0}
    /\ prompt \in Seq(Tokens) /\ out \in Seq(Tokens) /\ past \in Seq(Tokens)
    /\ token \in Tokens
    /\ failed \in BOOLEAN

\* Position i of the cache holds what the i-th step of this recognition made;
\* the rest is clear.  Before the first recognition there is no past.
CacheInv ==
    IF request = 0 THEN past = <<>> /\ phase = "idle" /\ step <= 3
    ELSE /\ step = Len(past)
         /\ \A i \in 0..(MaxSteps - 1) :
               cache[i] = IF i < step THEN [request |-> request, nth |-> i + 1] ELSE Zero

\* A step is only taken while there is room for it in the cache: the limits of
\* prompt and answer, which are in another file, see to that.
LimitInv ==
    /\ Len(prompt) <= MaxTotal /\ Len(out) <= MaxNew
    /\ request # 0 => step <= MaxTotal
    /\ phase = "prefill" => out = <<>> /\ at <= Len(prompt) /\ step = at - 1
    /\ phase = "generate" => prompt # <<>> /\ step + 1 <= Len(prompt) + Len(out)

\* What was decoded, and in the generation the token that comes next, are the
\* prompt and the answer.
ReadInv ==
    ~failed /\ request # 0 =>
        LET all == prompt \o out
        IN  /\ Len(past) <= Len(all)
            /\ \A i \in 1..Len(past) : past[i] = all[i]
            /\ phase = "generate" => Len(past) + 1 = Len(all) /\ token = all[Len(all)]

DecodeInv ==
    /\ DecodeTypeOK
    /\ CacheInv
    /\ LimitInv
    /\ ReadInv
    /\ WindowIsThePast
    /\ AudioMatchesPrompt

\* What release knows how to free.
Freeable(kind) == IF kind \in Kinds THEN Range(ReleaseOrder[kind]) ELSE {}

Phases == {"opening", "open", "failed", "terminated", "releasing", "discarding",
           "closing", "discarded", "closed"}

SessionInv ==
    /\ backend \in Own \cup Offline \cup Cpu \cup {"online"}
    /\ session \in [phase : Phases, at : Nat \ {0}, held : SUBSET Resources,
                    canFree : BOOLEAN]
    /\ session.held \subseteq Freeable(backend)

RecognitionInv == DecodeInv /\ SessionInv

-----------------------------------------------------------------------------
(* Numbers *)

LEMMA MinOfThree ==
    ASSUME NEW a \in Nat, NEW b \in Nat, NEW c \in Nat
    PROVE  Min({a, b, c}) \in Nat
<1>1. \E x \in {a, b, c} : \A y \in {a, b, c} : x <= y
  <2>1. CASE a <= b /\ a <= c
    BY <2>1
  <2>2. CASE b <= a /\ b <= c
    BY <2>2
  <2>3. CASE c <= a /\ c <= b
    BY <2>3
  <2> QED
    BY <2>1, <2>2, <2>3
<1>2. Min({a, b, c}) \in {a, b, c}
  BY <1>1 DEF Min
<1> QED
  BY <1>2

LEMMA MinOfTwo ==
    ASSUME NEW a \in Nat, NEW b \in Nat
    PROVE  Min({a, b}) = IF a <= b THEN a ELSE b
<1>1. \E x \in {a, b} : \A y \in {a, b} : x <= y
  <2>1. CASE a <= b
    BY <2>1
  <2>2. CASE b <= a
    BY <2>2
  <2> QED
    BY <2>1, <2>2
<1>2. Min({a, b}) \in {a, b} /\ \A y \in {a, b} : Min({a, b}) <= y
  BY <1>1 DEF Min
<1> QED
  BY <1>2

\* What \div rounds off.
LEMMA DivFacts ==
    ASSUME NEW a \in Nat, NEW b \in Nat \ {0}
    PROVE  /\ a \div b \in Nat
           /\ (a \div b) * b <= a /\ a < (a \div b) * b + b
OBVIOUS

LEMMA AfterCnnType == \A n \in Nat : AfterCnn(n) \in Nat
<1>1. \A n \in Nat : Half(n) \in Nat
  BY DEF Half
<1> QED
  BY <1>1 DEF AfterCnn

\* The chunks but the last one are full, and the last one is not empty.
LEMMA ChunkFacts ==
    ASSUME NEW f \in Nat \ {0}, NEW chunks, chunks = (f + ChunkSize - 1) \div ChunkSize
    PROVE  /\ chunks \in Nat /\ chunks - 1 \in Nat
           /\ f - (chunks - 1) * ChunkSize \in Nat
<1>1. ChunkSize \in Nat /\ ChunkSize > 0
  BY Qwen3Assumption
<1>2. f + ChunkSize - 1 \in Nat
  BY <1>1
<1>3. /\ chunks \in Nat
      /\ chunks * ChunkSize <= f + ChunkSize - 1
      /\ f + ChunkSize - 1 < chunks * ChunkSize + ChunkSize
  BY <1>1, <1>2, DivFacts
<1>4. chunks # 0
  <2>1. SUFFICES ASSUME chunks = 0 PROVE FALSE
    OBVIOUS
  <2>2. chunks * ChunkSize = 0
    BY <1>1, <2>1
  <2> QED
    BY <1>1, <1>3, <2>2
<1>5. (chunks - 1) * ChunkSize = chunks * ChunkSize - ChunkSize
  BY <1>1, <1>3
<1>6. chunks * ChunkSize \in Nat
  BY <1>1, <1>3
<1> QED
  BY <1>1, <1>3, <1>4, <1>5, <1>6

LEMMA AudioTokensType ==
    ASSUME NEW f \in Nat \ {0}, NEW conv \in ConvFrames(f)
    PROVE  AudioTokens(f) \in Nat /\ conv \in Nat
<1> DEFINE chunks == (f + ChunkSize - 1) \div ChunkSize
<1>1. /\ chunks \in Nat /\ chunks - 1 \in Nat
      /\ f - (chunks - 1) * ChunkSize \in Nat
  BY ChunkFacts
<1>2. ChunkSize \in Nat
  BY Qwen3Assumption
<1>3. /\ AfterCnn(ChunkSize) \in Nat
      /\ AfterCnn(f - (chunks - 1) * ChunkSize) \in Nat
  BY <1>1, <1>2, AfterCnnType
<1>4. AudioTokens(f) = (chunks - 1) * AfterCnn(ChunkSize)
                          + AfterCnn(f - (chunks - 1) * ChunkSize)
  BY DEF AudioTokens
<1>5. conv = AudioTokens(f) \/ conv = chunks * AfterCnn(ChunkSize)
  BY DEF ConvFrames
<1> HIDE DEF chunks
<1> QED
  BY <1>1, <1>3, <1>4, <1>5

LEMMA ValidTokensType ==
    ASSUME NEW f \in Nat \ {0}, NEW conv \in ConvFrames(f)
    PROVE  ValidTokens(f, conv) \in Nat
<1>1. AudioTokens(f) \in Nat /\ conv \in Nat
  BY AudioTokensType
<1>2. (IF Capacity > 0 THEN Capacity ELSE conv) \in Nat
  BY <1>1, Qwen3Assumption
<1> QED
  BY <1>1, <1>2, MinOfThree DEF ValidTokens

-----------------------------------------------------------------------------
(* The prompt *)

\* The prompt with its pads: its length, its tokens and its pads.
LEMMA PromptFacts ==
    ASSUME NEW pads \in Nat
    PROVE  /\ PromptOf(pads) \in Seq(Tokens)
           /\ Len(PromptOf(pads)) = BeforeLen + pads + AfterLen
           /\ Cardinality({i \in DOMAIN PromptOf(pads) : PromptOf(pads)[i] = "audio"}) = pads
<1> DEFINE b == [i \in 1..BeforeLen |-> "before"]
           a == [i \in 1..pads |-> "audio"]
           c == [i \in 1..AfterLen |-> "after"]
           p == PromptOf(pads)
<1>0. BeforeLen \in Nat /\ AfterLen \in Nat
  BY Qwen3Assumption
<1>1. /\ b \in Seq(Tokens) /\ Len(b) = BeforeLen
      /\ a \in Seq(Tokens) /\ Len(a) = pads
      /\ c \in Seq(Tokens) /\ Len(c) = AfterLen
  BY <1>0 DEF Tokens
<1>2. \A i \in 1..BeforeLen : b[i] = "before"
  OBVIOUS
<1>3. \A i \in 1..pads : a[i] = "audio"
  OBVIOUS
<1>4. \A i \in 1..AfterLen : c[i] = "after"
  OBVIOUS
<1>5. p = (b \o a) \o c
  BY DEF PromptOf
<1> HIDE DEF b, a, c, p
<1>6. /\ b \o a \in Seq(Tokens) /\ Len(b \o a) = BeforeLen + pads
      /\ \A i \in 1..(BeforeLen + pads) :
            (b \o a)[i] = IF i <= BeforeLen THEN b[i] ELSE a[i - BeforeLen]
  BY <1>1, ConcatProperties
<1>7. /\ p \in Seq(Tokens) /\ Len(p) = BeforeLen + pads + AfterLen
      /\ \A i \in 1..(BeforeLen + pads + AfterLen) :
            p[i] = IF i <= BeforeLen + pads THEN (b \o a)[i] ELSE c[i - (BeforeLen + pads)]
  BY <1>0, <1>1, <1>6, <1>5, ConcatProperties
<1>8. DOMAIN p = 1..(BeforeLen + pads + AfterLen)
  BY <1>7, <1>0
<1>9. {i \in DOMAIN p : p[i] = "audio"} = (BeforeLen + 1)..(BeforeLen + pads)
  <2>1. ASSUME NEW i \in 1..(BeforeLen + pads + AfterLen)
        PROVE  p[i] = "audio" <=> i \in (BeforeLen + 1)..(BeforeLen + pads)
    <3>1. CASE i <= BeforeLen
      BY <1>0, <1>6, <1>7, <1>2, <3>1
    <3>2. CASE i > BeforeLen /\ i <= BeforeLen + pads
      <4>1. i - BeforeLen \in 1..pads /\ i \in 1..(BeforeLen + pads)
        BY <1>0, <3>2
      <4>2. p[i] = (b \o a)[i] /\ (b \o a)[i] = a[i - BeforeLen]
        BY <1>0, <1>6, <1>7, <3>2, <4>1
      <4>3. p[i] = "audio"
        BY <1>3, <4>1, <4>2
      <4> QED
        BY <1>0, <3>2, <4>3
    <3>3. CASE i > BeforeLen + pads
      <4>1. i - (BeforeLen + pads) \in 1..AfterLen
        BY <1>0, <3>3
      <4> QED
        BY <1>0, <1>7, <1>4, <3>3, <4>1
    <3> QED
      BY <1>0, <3>1, <3>2, <3>3
  <2>2. (BeforeLen + 1)..(BeforeLen + pads) \subseteq 1..(BeforeLen + pads + AfterLen)
    BY <1>0
  <2> QED
    BY <1>8, <2>1, <2>2
<1>10. Cardinality((BeforeLen + 1)..(BeforeLen + pads)) = pads
  BY <1>0, FS_Interval
<1> QED
  BY <1>7, <1>9, <1>10 DEF p

\* The pads of a prompt that is not too long.
LEMMA PadsFacts ==
    ASSUME NEW n \in Nat
    PROVE  /\ Pads(n) \in Nat /\ BeforeLen + Pads(n) + AfterLen <= MaxTotal
           /\ Trimmed(n) = Pads(n)
<1>1. /\ BeforeLen \in Nat /\ AfterLen \in Nat /\ MaxTotal \in Nat
      /\ BeforeLen + AfterLen < MaxTotal
  BY Qwen3Assumption
<1>2. Pads(n) \in Nat /\ BeforeLen + Pads(n) + AfterLen <= MaxTotal
  BY <1>1 DEF Pads
<1>3. Pads(n) # n => Pads(n) < n /\ Pads(n) > 0
  BY <1>1 DEF Pads
<1>4. Pads(n) = n => ~(Pads(n) < n)
  BY <1>1
<1> QED
  BY <1>2, <1>3, <1>4 DEF Trimmed


-----------------------------------------------------------------------------
(* A step of the decoder *)

\* The next entry of the cache is filled, and the decoder saw the ones before.
LEMMA DecodedFacts ==
    ASSUME DecodeTypeOK, CacheInv, request # 0, step < MaxSteps,
           NEW t \in Tokens, Decoded(t), request' = request
    PROVE  /\ cache' \in [0..(MaxSteps - 1) -> Entry]
           /\ step' = step + 1 /\ step' \in Nat /\ failed' = failed
           /\ past' \in Seq(Tokens) /\ Len(past') = Len(past) + 1
           /\ \A i \in 1..Len(past) : past'[i] = past[i]
           /\ past'[Len(past) + 1] = t
           /\ CacheInv' /\ WindowIsThePast'
<1>1. /\ cache \in [0..(MaxSteps - 1) -> Entry] /\ step \in Nat /\ request \in Nat
      /\ past \in Seq(Tokens) /\ Len(past) \in Nat
      /\ MaxSteps \in Nat /\ W \in Nat /\ W > 0
  BY Qwen3Assumption DEF DecodeTypeOK
<1>2. /\ step = Len(past)
      /\ \A i \in 0..(MaxSteps - 1) :
            cache[i] = IF i < step THEN [request |-> request, nth |-> i + 1] ELSE Zero
  BY DEF CacheInv
<1>3. /\ past' = Append(past, t) /\ step' = step + 1 /\ failed' = failed
      /\ cache' = [cache EXCEPT ![step] = [request |-> request, nth |-> step + 1]]
      /\ window' = PrepareWindow
  BY <1>1, <1>2 DEF Decoded
<1>4. /\ past' \in Seq(Tokens) /\ Len(past') = Len(past) + 1
      /\ \A i \in 1..Len(past) : past'[i] = past[i]
      /\ past'[Len(past) + 1] = t
  BY <1>1, <1>3
<1>5. [request |-> request, nth |-> step + 1] \in Entry
  BY <1>1 DEF Entry
<1>6. cache' \in [0..(MaxSteps - 1) -> Entry]
  BY <1>1, <1>3, <1>5
<1>7. \A i \in 0..(MaxSteps - 1) :
         cache'[i] = IF i < step + 1 THEN [request |-> request, nth |-> i + 1] ELSE Zero
  BY <1>1, <1>2, <1>3
<1>8. CacheInv'
  BY <1>2, <1>3, <1>4, <1>7 DEF CacheInv
<1>9. WindowIsThePast'
  <2> DEFINE seen == IF W <= step THEN W ELSE step
  <2>1. Seen' = seen
    <3>1. Len(past') - 1 = step
      BY <1>1, <1>2, <1>4
    <3>2. Seen' = Min({W, step})
      BY <3>1 DEF Seen
    <3> QED
      BY <1>1, <3>2, MinOfTwo
  <2>2. /\ step - WindowStart = seen /\ WindowStart = step - seen
        /\ seen \in Nat /\ seen <= step
    BY <1>1 DEF WindowStart
  <2> HIDE DEF seen
  <2>3. \A i \in 1..seen : WindowStart + i - 1 \in 0..(step - 1)
    BY <1>1, <2>2
  <2>4. \A i \in 1..seen :
           /\ WindowStart + i - 1 < MaxSteps
           /\ cache[WindowStart + i - 1] = [request |-> request, nth |-> WindowStart + i - 1 + 1]
    BY <1>1, <1>2, <2>2, <2>3
  <2>5. \A i \in 1..seen : WindowStart + i - 1 + 1 = Len(past') - 1 - seen + i
    BY <1>1, <1>2, <1>4, <2>2
  <2>6. window' = [i \in 1..seen |-> IF WindowStart + i - 1 < MaxSteps
                                     THEN cache[WindowStart + i - 1] ELSE Zero]
    BY <1>3, <2>2 DEF PrepareWindow
  <2>7. window' = [i \in 1..seen |-> [request |-> request, nth |-> Len(past') - 1 - seen + i]]
    BY <2>4, <2>5, <2>6
  <2> QED
    BY <2>1, <2>7 DEF WindowIsThePast
<1> QED
  BY <1>1, <1>3, <1>4, <1>6, <1>8, <1>9


-----------------------------------------------------------------------------
(* Every step of a recognition preserves the invariant. *)

LEMMA DecodeInit == Qwen3Init => DecodeInv
<1> SUFFICES ASSUME Qwen3Init PROVE DecodeInv
  OBVIOUS
<1> USE Qwen3Assumption DEF Qwen3Init
<1>1. MaxSteps \in Nat /\ MaxTotal \in Nat /\ MaxNew \in Nat
  OBVIOUS
<1>2. cache \in [0..(MaxSteps - 1) -> Entry]
  BY DEF Entry, Zero
<1>3. DecodeTypeOK
  <2>1. failed \in BOOLEAN
    OBVIOUS
  <2>2. /\ step \in Nat /\ phase \in {"idle", "prefill", "generate"}
        /\ request \in Nat /\ frames \in Nat /\ at \in Nat \ {0}
    OBVIOUS
  <2>3. /\ prompt \in Seq(Tokens) /\ out \in Seq(Tokens) /\ past \in Seq(Tokens)
        /\ token \in Tokens
    BY DEF Tokens
  <2> QED
    BY <1>2, <2>1, <2>2, <2>3 DEF DecodeTypeOK
<1>4. CacheInv /\ LimitInv /\ ReadInv
  BY DEF CacheInv, LimitInv, ReadInv
<1>5. WindowIsThePast /\ AudioMatchesPrompt
  BY DEF WindowIsThePast, AudioMatchesPrompt
<1> QED
  BY <1>3, <1>4, <1>5 DEF DecodeInv

\* A recognition begins with an empty cache, whatever the last one or the test
\* at the start has left.
LEMMA BeginInv ==
    ASSUME DecodeInv, NEW f \in Nat, Qwen3Begin(f)
    PROVE  DecodeInv'
<1>1. f \in Nat \ {0}
  BY DEF Qwen3Begin
<1>2. PICK conv \in ConvFrames(f) :
         /\ prompt' = PromptOf(Pads(ValidTokens(f, conv)))
         /\ frames' = Trimmed(ValidTokens(f, conv))
  BY DEF Qwen3Begin
<1> DEFINE n == ValidTokens(f, conv)
<1>3. n \in Nat
  BY <1>1, ValidTokensType
<1>4. prompt' = PromptOf(Pads(n)) /\ frames' = Trimmed(n)
  BY <1>2
<1> HIDE DEF n
<1>5. /\ Pads(n) \in Nat /\ BeforeLen + Pads(n) + AfterLen <= MaxTotal
      /\ frames' = Pads(n)
  BY <1>3, <1>4, PadsFacts
<1>6. /\ prompt' \in Seq(Tokens) /\ Len(prompt') = BeforeLen + Pads(n) + AfterLen
      /\ Cardinality({i \in DOMAIN prompt' : prompt'[i] = "audio"}) = Pads(n)
  BY <1>4, <1>5, PromptFacts
<1>7. /\ phase' = "prefill" /\ request' = request + 1 /\ at' = 1 /\ token' = "none"
      /\ out' = <<>> /\ past' = <<>> /\ window' = <<>> /\ failed' = FALSE
      /\ step' = 0 /\ cache' = [i \in 0..(MaxSteps - 1) |-> Zero]
  BY DEF Qwen3Begin, ResetState
<1>8. request \in Nat /\ MaxSteps \in Nat /\ MaxNew \in Nat /\ BeforeLen > 0
      /\ BeforeLen \in Nat /\ AfterLen \in Nat
  BY Qwen3Assumption DEF DecodeInv, DecodeTypeOK
<1>9. cache' \in [0..(MaxSteps - 1) -> Entry]
  BY <1>7 DEF Entry, Zero
<1>10. DecodeTypeOK'
  <2>1. failed' \in BOOLEAN
    BY <1>7
  <2>2. /\ step' \in Nat /\ phase' \in {"idle", "prefill", "generate"}
        /\ request' \in Nat /\ frames' \in Nat /\ at' \in Nat \ {0}
    BY <1>5, <1>7, <1>8
  <2>3. /\ out' \in Seq(Tokens) /\ past' \in Seq(Tokens) /\ token' \in Tokens
    BY <1>7 DEF Tokens
  <2> QED
    BY <1>6, <1>9, <2>1, <2>2, <2>3 DEF DecodeTypeOK
<1>11. CacheInv'
  BY <1>7, <1>8 DEF CacheInv
<1>12. LimitInv'
  BY <1>5, <1>6, <1>7, <1>8, Qwen3Assumption DEF LimitInv
<1>13. ReadInv'
  <2>1. Len(prompt' \o out') \in Nat
    BY <1>6, <1>7
  <2> QED
    BY <1>7, <2>1 DEF ReadInv
<1>14. WindowIsThePast' /\ AudioMatchesPrompt'
  BY <1>5, <1>6, <1>7 DEF WindowIsThePast, AudioMatchesPrompt
<1> QED
  BY <1>10, <1>11, <1>12, <1>13, <1>14 DEF DecodeInv

\* Only the result of an earlier recognition is lost.
LEMMA FailsInv == ASSUME DecodeInv, Qwen3Fails PROVE DecodeInv'
BY DEF DecodeInv, Qwen3Fails, DecodeTypeOK, CacheInv, LimitInv, ReadInv,
       WindowIsThePast, Seen, AudioMatchesPrompt

\* A step that fails leaves cache and past as they were.
LEMMA PrefillInv == ASSUME DecodeInv, Prefill PROVE DecodeInv'
<1>0. /\ DecodeTypeOK /\ CacheInv /\ LimitInv /\ ReadInv
      /\ WindowIsThePast /\ AudioMatchesPrompt
  BY DEF DecodeInv
<1>1. /\ phase = "prefill" /\ at < Len(prompt)
      /\ UNCHANGED <<request, prompt, frames, out, result>>
  BY DEF Prefill
<1>2. /\ request # 0 /\ step = Len(past) /\ step = at - 1 /\ out = <<>>
      /\ at \in Nat \ {0} /\ prompt \in Seq(Tokens) /\ Len(prompt) \in Nat
      /\ Len(prompt) <= MaxTotal /\ MaxTotal \in Nat /\ MaxTotal <= MaxSteps
      /\ MaxSteps \in Nat /\ step \in Nat
  BY <1>0, <1>1, Qwen3Assumption DEF DecodeTypeOK, CacheInv, LimitInv
<1>3. prompt[at] \in Tokens
  BY <1>1, <1>2
<1>4. AudioMatchesPrompt'
  BY <1>0, <1>1 DEF AudioMatchesPrompt
<1>5. prompt \o out = prompt
  BY <1>2
<1>6. CASE Decoded(prompt[at]) /\ at' = at + 1 /\ UNCHANGED <<phase, token>>
  <2>1. /\ cache' \in [0..(MaxSteps - 1) -> Entry]
        /\ step' = step + 1 /\ step' \in Nat /\ failed' = failed
        /\ past' \in Seq(Tokens) /\ Len(past') = Len(past) + 1
        /\ \A i \in 1..Len(past) : past'[i] = past[i]
        /\ past'[Len(past) + 1] = prompt[at]
        /\ CacheInv' /\ WindowIsThePast'
    BY <1>0, <1>1, <1>2, <1>3, <1>6, DecodedFacts
  <2>2. DecodeTypeOK'
    BY <1>0, <1>1, <1>2, <1>6, <2>1 DEF DecodeTypeOK
  <2>3. LimitInv'
    BY <1>0, <1>1, <1>2, <1>6, <2>1 DEF LimitInv
  <2>4. ReadInv'
    <3>1. SUFFICES ASSUME ~failed'
                   PROVE  /\ Len(past') <= Len(prompt)
                          /\ \A i \in 1..Len(past') : past'[i] = prompt[i]
      BY <1>1, <1>5, <1>6 DEF ReadInv
    <3>2. \A i \in 1..Len(past) : past[i] = prompt[i]
      BY <1>0, <1>2, <1>5, <2>1, <3>1 DEF ReadInv
    <3>3. /\ Len(past) \in Nat /\ at \in Nat /\ at = Len(past) + 1 /\ Len(past') = at
          /\ at < Len(prompt) /\ Len(prompt) \in Nat
      <4>1. Len(past) \in Nat /\ at \in Nat /\ at = Len(past) + 1
        BY <1>2
      <4> QED
        BY <1>1, <1>2, <2>1, <4>1
    <3>4. ASSUME NEW i \in 1..Len(past') PROVE past'[i] = prompt[i]
      <4>1. CASE i = at
        BY <2>1, <3>3, <4>1
      <4>2. CASE i # at
        <5>1. i \in 1..Len(past)
          BY <3>3, <4>2
        <5> QED
          BY <2>1, <3>2, <5>1
      <4> QED
        BY <4>1, <4>2
    <3>5. Len(past') <= Len(prompt)
      BY <3>3
    <3> QED
      BY <3>4, <3>5
  <2> QED
    BY <1>4, <2>1, <2>2, <2>3, <2>4 DEF DecodeInv
<1>7. CASE NotDecoded /\ phase' = "generate" /\ token' = prompt[at] /\ UNCHANGED at
  <2>1. failed' /\ UNCHANGED <<window, past, cache, step>>
    BY <1>7 DEF NotDecoded
  <2>2. failed' \in BOOLEAN
    BY <1>7 DEF NotDecoded
  <2>3. DecodeTypeOK'
    BY <1>0, <1>1, <1>3, <1>7, <2>1, <2>2 DEF DecodeTypeOK
  <2>4. CacheInv' /\ WindowIsThePast'
    BY <1>0, <1>1, <1>2, <2>1 DEF CacheInv, WindowIsThePast, Seen
  <2>5. LimitInv'
    <3>1. prompt # <<>>
      BY <1>1, <1>2
    <3>2. step + 1 <= Len(prompt) + Len(out)
      BY <1>1, <1>2
    <3> QED
      BY <1>0, <1>1, <1>2, <1>7, <2>1, <3>1, <3>2 DEF LimitInv
  <2>6. ReadInv'
    BY <2>1 DEF ReadInv
  <2> QED
    BY <1>4, <2>3, <2>4, <2>5, <2>6 DEF DecodeInv
<1> QED
  BY <1>6, <1>7 DEF Prefill

LEMMA PrefilledInv == ASSUME DecodeInv, Prefilled PROVE DecodeInv'
<1>0. /\ DecodeTypeOK /\ CacheInv /\ LimitInv /\ ReadInv
      /\ WindowIsThePast /\ AudioMatchesPrompt
  BY DEF DecodeInv
<1>1. /\ phase = "prefill" /\ at = Len(prompt)
      /\ phase' = "generate" /\ token' = prompt[at]
      /\ UNCHANGED <<cache, step, request, prompt, frames, at, out, past, window, failed>>
  BY DEF Prefilled
<1>2. /\ request # 0 /\ step = Len(past) /\ step = at - 1 /\ out = <<>>
      /\ at \in Nat \ {0} /\ prompt \in Seq(Tokens) /\ Len(prompt) \in Nat
  BY <1>0, <1>1 DEF DecodeTypeOK, CacheInv, LimitInv
<1>3. prompt[at] \in Tokens /\ prompt # <<>>
  BY <1>1, <1>2
<1>4. prompt \o out = prompt
  BY <1>2
<1>5. DecodeTypeOK'
  BY <1>0, <1>1, <1>3 DEF DecodeTypeOK
<1>6. CacheInv' /\ WindowIsThePast' /\ AudioMatchesPrompt'
  BY <1>0, <1>1 DEF CacheInv, WindowIsThePast, Seen, AudioMatchesPrompt
<1>7. LimitInv'
  BY <1>0, <1>1, <1>2, <1>3 DEF LimitInv
<1>8. ReadInv'
  BY <1>0, <1>1, <1>2, <1>4 DEF ReadInv
<1> QED
  BY <1>5, <1>6, <1>7, <1>8 DEF DecodeInv

\* What holds when the generation feeds its token to the decoder.
LEMMA GenerateFacts ==
    ASSUME DecodeInv, phase = "generate", CanGenerate, Decoded(token),
           UNCHANGED <<request, prompt, frames, at>>
    PROVE  /\ request # 0 /\ step = Len(past) /\ step \in Nat
           /\ Len(prompt) \in Nat /\ Len(out) \in Nat
           /\ cache' \in [0..(MaxSteps - 1) -> Entry]
           /\ step' = step + 1 /\ step' \in Nat /\ failed' = failed
           /\ step' <= Len(prompt) + Len(out) /\ step' <= MaxTotal
           /\ past' \in Seq(Tokens) /\ Len(past') = Len(past) + 1
           /\ CacheInv' /\ WindowIsThePast'
           /\ ~failed => /\ Len(past') = Len(prompt \o out)
                         /\ \A i \in 1..Len(past') : past'[i] = (prompt \o out)[i]
<1>0. DecodeTypeOK /\ CacheInv /\ LimitInv /\ ReadInv
  BY DEF DecodeInv
<1>1. /\ request # 0 /\ step = Len(past) /\ step \in Nat
      /\ prompt \in Seq(Tokens) /\ out \in Seq(Tokens)
      /\ Len(prompt) \in Nat /\ Len(out) \in Nat
      /\ step + 1 <= Len(prompt) + Len(out)
      /\ Len(prompt) + Len(out) < MaxTotal /\ MaxTotal \in Nat
      /\ MaxTotal <= MaxSteps /\ MaxSteps \in Nat /\ token \in Tokens
  BY <1>0, Qwen3Assumption DEF DecodeTypeOK, CacheInv, LimitInv, CanGenerate
<1>2. /\ cache' \in [0..(MaxSteps - 1) -> Entry]
      /\ step' = step + 1 /\ step' \in Nat /\ failed' = failed
      /\ past' \in Seq(Tokens) /\ Len(past') = Len(past) + 1
      /\ \A i \in 1..Len(past) : past'[i] = past[i]
      /\ past'[Len(past) + 1] = token
      /\ CacheInv' /\ WindowIsThePast'
  BY <1>0, <1>1, DecodedFacts
<1>3. ASSUME ~failed
      PROVE  /\ Len(past') = Len(prompt \o out)
             /\ \A i \in 1..Len(past') : past'[i] = (prompt \o out)[i]
  <2>1. /\ Len(past) + 1 = Len(prompt \o out)
        /\ \A i \in 1..Len(past) : past[i] = (prompt \o out)[i]
        /\ token = (prompt \o out)[Len(prompt \o out)]
    BY <1>0, <1>1, <1>3 DEF ReadInv
  <2>2. ASSUME NEW i \in 1..Len(past') PROVE past'[i] = (prompt \o out)[i]
    <3>1. CASE i = Len(past) + 1
      BY <1>2, <2>1, <3>1
    <3>2. CASE i # Len(past) + 1
      <4>1. i \in 1..Len(past)
        BY <1>1, <1>2, <3>2
      <4> QED
        BY <1>2, <2>1, <4>1
    <3> QED
      BY <3>1, <3>2
  <2> QED
    BY <1>2, <2>1, <2>2
<1> QED
  BY <1>1, <1>2, <1>3

LEMMA GenerateInv == ASSUME DecodeInv, Generate PROVE DecodeInv'
<1>0. DecodeTypeOK /\ LimitInv /\ AudioMatchesPrompt
  BY DEF DecodeInv
<1>1. PICK t \in Answers \ Stop : token' = t /\ out' = Append(out, t)
  BY DEF Generate
<1>2. t \in Tokens
  BY DEF Answers, Stop, Tokens
<1>3. /\ phase = "generate" /\ CanGenerate /\ Decoded(token)
      /\ UNCHANGED <<phase, request, prompt, frames, at, result>>
  BY DEF Generate
<1>4. /\ request # 0 /\ step = Len(past) /\ step \in Nat
      /\ Len(prompt) \in Nat /\ Len(out) \in Nat
      /\ cache' \in [0..(MaxSteps - 1) -> Entry]
      /\ step' = step + 1 /\ step' \in Nat /\ failed' = failed
      /\ step' <= Len(prompt) + Len(out) /\ step' <= MaxTotal
      /\ past' \in Seq(Tokens) /\ Len(past') = Len(past) + 1
      /\ CacheInv' /\ WindowIsThePast'
      /\ ~failed => /\ Len(past') = Len(prompt \o out)
                    /\ \A i \in 1..Len(past') : past'[i] = (prompt \o out)[i]
  BY <1>3, GenerateFacts
<1>5. /\ prompt \in Seq(Tokens) /\ out \in Seq(Tokens)
      /\ out' \in Seq(Tokens) /\ Len(out') = Len(out) + 1
  BY <1>0, <1>1, <1>2 DEF DecodeTypeOK
<1>6. DecodeTypeOK'
  BY <1>0, <1>1, <1>2, <1>3, <1>4, <1>5 DEF DecodeTypeOK
<1>7. LimitInv'
  <2>1. Len(prompt) <= MaxTotal /\ Len(out') <= MaxNew
    BY <1>0, <1>3, <1>4, <1>5, Qwen3Assumption DEF LimitInv, CanGenerate
  <2>2. prompt # <<>>
    BY <1>0, <1>3 DEF LimitInv
  <2>3. step' + 1 <= Len(prompt) + Len(out')
    BY <1>4, <1>5
  <2> QED
    BY <1>3, <1>4, <2>1, <2>2, <2>3 DEF LimitInv
<1>8. ReadInv'
  <2> DEFINE all == prompt \o out
  <2>1. /\ all \in Seq(Tokens) /\ Len(all) \in Nat
        /\ prompt' \o out' = Append(all, t)
    BY <1>1, <1>3, <1>5
  <2>2. ~failed => /\ Len(past') = Len(all)
                   /\ \A i \in 1..Len(past') : past'[i] = all[i]
    BY <1>4
  <2> HIDE DEF all
  <2>3. /\ Len(Append(all, t)) = Len(all) + 1
        /\ \A i \in 1..Len(all) : Append(all, t)[i] = all[i]
        /\ Append(all, t)[Len(all) + 1] = t
    BY <2>1
  <2>4. ASSUME ~failed'
        PROVE  /\ Len(past') <= Len(Append(all, t))
               /\ \A i \in 1..Len(past') : past'[i] = Append(all, t)[i]
               /\ Len(past') + 1 = Len(Append(all, t))
               /\ token' = Append(all, t)[Len(Append(all, t))]
    BY <1>1, <1>4, <2>1, <2>2, <2>3, <2>4
  <2> QED
    BY <2>1, <2>4 DEF ReadInv
<1>9. AudioMatchesPrompt'
  BY <1>0, <1>3 DEF AudioMatchesPrompt
<1> QED
  BY <1>4, <1>6, <1>7, <1>8, <1>9 DEF DecodeInv

LEMMA GenerateEndsInv == ASSUME DecodeInv, GenerateEnds PROVE DecodeInv'
<1>0. /\ DecodeTypeOK /\ CacheInv /\ LimitInv /\ ReadInv
      /\ WindowIsThePast /\ AudioMatchesPrompt
  BY DEF DecodeInv
<1>1. /\ phase = "generate" /\ phase' = "idle"
      /\ UNCHANGED <<request, prompt, frames, at, token, out>>
  BY DEF GenerateEnds
<1>2. request # 0
  BY <1>0, <1>1 DEF CacheInv
<1>3. AudioMatchesPrompt'
  BY <1>1 DEF AudioMatchesPrompt
<1>4. CASE CanGenerate /\ Decoded(token)
  <2>1. /\ cache' \in [0..(MaxSteps - 1) -> Entry]
        /\ step' \in Nat /\ failed' = failed /\ step' <= MaxTotal
        /\ past' \in Seq(Tokens)
        /\ CacheInv' /\ WindowIsThePast'
        /\ Len(past') = Len(past) + 1
        /\ ~failed => /\ Len(past') = Len(prompt \o out)
                      /\ \A i \in 1..Len(past') : past'[i] = (prompt \o out)[i]
    <3>1. UNCHANGED <<request, prompt, frames, at>>
      BY <1>1
    <3> QED
      BY <1>1, <1>4, <3>1, GenerateFacts
  <2>2. DecodeTypeOK'
    BY <1>0, <1>1, <2>1 DEF DecodeTypeOK
  <2>3. LimitInv'
    BY <1>0, <1>1, <2>1 DEF LimitInv
  <2>4. ReadInv'
    <3>1. Len(past') \in Nat
      BY <2>1
    <3> QED
      BY <1>1, <2>1, <3>1 DEF ReadInv
  <2> QED
    BY <1>3, <2>1, <2>2, <2>3, <2>4 DEF DecodeInv
<1>5. CASE NotDecoded
  <2>1. failed' /\ UNCHANGED <<window, past, cache, step>>
    BY <1>5 DEF NotDecoded
  <2>2. failed' \in BOOLEAN
    BY <1>5 DEF NotDecoded
  <2>3. DecodeTypeOK'
    BY <1>0, <1>1, <2>1, <2>2 DEF DecodeTypeOK
  <2>4. CacheInv' /\ WindowIsThePast' /\ LimitInv' /\ ReadInv'
    BY <1>0, <1>1, <1>2, <2>1 DEF CacheInv, WindowIsThePast, Seen, LimitInv, ReadInv
  <2> QED
    BY <1>3, <2>3, <2>4 DEF DecodeInv
<1>6. CASE UNCHANGED <<cache, step, past, window, failed>>
  BY <1>0, <1>1, <1>2, <1>3, <1>6
     DEF DecodeInv, DecodeTypeOK, CacheInv, WindowIsThePast, Seen, LimitInv, ReadInv
<1> QED
  BY <1>4, <1>5, <1>6 DEF GenerateEnds, NotDecoded


-----------------------------------------------------------------------------
(* The handles of the NPU's backends *)

LEMMA OwnKinds == Own = Kinds /\ Kinds = {"qwen3", "library", "session"}
BY DEF Own, FireRed, Kinds, Steps

\* Whatever a backend's init makes its release knows how to free.
LEMMA MadeIsFreeable ==
    ASSUME NEW kind \in Kinds, NEW i \in 1..Len(Steps[kind])
    PROVE  {Steps[kind][i]} \cap Resources \subseteq Freeable(kind)
<1>1. CASE kind = "qwen3"
  <2>1. ReleaseOrder["qwen3"] = Qwen3Release /\ DOMAIN Qwen3Release = 1..10
    BY DEF ReleaseOrder, Qwen3Release
  <2>2. \A r \in Resources : \E k \in 1..10 : Qwen3Release[k] = r
    <3>1. /\ Qwen3Release[1] = "models" /\ Qwen3Release[2] = "env"
          /\ Qwen3Release[3] = "context" /\ Qwen3Release[4] = "device"
          /\ Qwen3Release[5] = "backend" /\ Qwen3Release[6] = "log"
          /\ Qwen3Release[7] = "graphs" /\ Qwen3Release[8] = "modelLib"
          /\ Qwen3Release[9] = "system" /\ Qwen3Release[10] = "htp"
      BY DEF Qwen3Release
    <3> QED
      BY <3>1 DEF Resources
  <2>3. Resources \subseteq Range(ReleaseOrder["qwen3"])
    BY <2>1, <2>2 DEF Range
  <2> QED
    BY <1>1, <2>3 DEF Freeable
<1>2. CASE kind = "library"
  <2>1. ReleaseOrder["library"] = LibraryRelease /\ DOMAIN LibraryRelease = 1..8
    BY DEF ReleaseOrder, LibraryRelease
  <2>2. \A r \in Resources \ {"env", "models"} : \E k \in 1..8 : LibraryRelease[k] = r
    <3>1. /\ LibraryRelease[1] = "graphs" /\ LibraryRelease[2] = "modelLib"
          /\ LibraryRelease[3] = "context" /\ LibraryRelease[4] = "device"
          /\ LibraryRelease[5] = "backend" /\ LibraryRelease[6] = "log"
          /\ LibraryRelease[7] = "system" /\ LibraryRelease[8] = "htp"
      BY DEF LibraryRelease
    <3> QED
      BY <3>1 DEF Resources
  <2>3. Resources \ {"env", "models"} \subseteq Range(ReleaseOrder["library"])
    BY <2>1, <2>2 DEF Range
  <2>4. Steps["library"][i] \notin {"env", "models"}
    <3> DEFINE names == {"tokens", "htp", "interface", "system", "log", "backend", "device",
                         "context", "modelLib", "composeFn", "freeFn", "graphs", "finalize"}
    <3>1. Steps["library"] = <<"tokens", "htp">> \o NpuSteps
      BY DEF Steps
    <3>2. <<"tokens", "htp">> \in Seq(names) /\ NpuSteps \in Seq(names)
      BY DEF NpuSteps
    <3>3. Range(<<"tokens", "htp">>) \cap {"env", "models"} = {}
      BY DEF Range
    <3>4. Range(NpuSteps) \cap {"env", "models"} = {}
      BY DEF Range, NpuSteps
    <3>5. Range(Steps["library"]) = Range(<<"tokens", "htp">>) \cup Range(NpuSteps)
      BY <3>1, <3>2, ConcatRange
    <3>6. Steps["library"] \in Seq(names)
      BY <3>1, <3>2
    <3>7. Steps["library"][i] \in Range(Steps["library"])
      BY <1>2, <3>6 DEF Range
    <3> QED
      BY <3>3, <3>4, <3>5, <3>7
  <2> QED
    BY <1>2, <2>3, <2>4 DEF Freeable
<1>3. CASE kind = "session"
  <2>1. Range(ReleaseOrder["session"]) = {"models", "env"}
    BY DEF Range, ReleaseOrder
  <2>2. Steps["session"][i] \in {"tokens", "env", "models"}
    BY <1>3 DEF Steps
  <2> QED
    BY <1>3, <2>1, <2>2 DEF Freeable, Resources
<1> QED
  BY <1>1, <1>2, <1>3, OwnKinds

\* Nothing is freed before what was made from it.
LEMMA ReleaseInOrder ==
    ASSUME NEW kind \in Kinds,
           NEW i \in DOMAIN ReleaseOrder[kind], NEW j \in DOMAIN ReleaseOrder[kind], i < j
    PROVE  ReleaseOrder[kind][i] \notin Needs[ReleaseOrder[kind][j]]
<1>1. CASE kind = "qwen3"
  <2>1. ReleaseOrder[kind] = Qwen3Release
    BY <1>1 DEF ReleaseOrder
  <2> QED
    BY <2>1 DEF Qwen3Release, Needs
<1>2. CASE kind = "library"
  <2>1. ReleaseOrder[kind] = LibraryRelease
    BY <1>2 DEF ReleaseOrder
  <2> QED
    BY <2>1 DEF LibraryRelease, Needs
<1>3. CASE kind = "session"
  BY <1>3 DEF ReleaseOrder, Needs
<1> QED
  BY <1>1, <1>2, <1>3, OwnKinds


\* The record's fields are independent of each other.
LEMMA SessionFields ==
    ASSUME NEW p, NEW a, NEW h, NEW c
    PROVE  /\ SessionOf(p, a, h, c).phase = p /\ SessionOf(p, a, h, c).held = h
BY DEF SessionOf

\* What a step of the session does to its handles: init adds some that release
\* can free, release takes off one that nothing left was made from, and it ends
\* when nothing is left that it can free.
LEMMA SessionStep ==
    ASSUME SessionInv, backend \in Own, SessionNext(backend)
    PROVE  /\ session' \in [phase : Phases, at : Nat \ {0}, held : SUBSET Resources,
                            canFree : BOOLEAN]
           /\ session'.held \subseteq Freeable(backend)
           /\ \A r \in session'.held \ Lost : Needs[r] \cap (session.held \ session'.held) = {}
           /\ session'.phase \in {"discarded", "closed"} => session'.held \subseteq Lost
<1> DEFINE kind == backend
<1>1. /\ session \in [phase : Phases, at : Nat \ {0}, held : SUBSET Resources,
                      canFree : BOOLEAN]
      /\ session.phase \in Phases /\ session.at \in Nat \ {0}
      /\ session.held \in SUBSET Resources /\ session.canFree \in BOOLEAN
      /\ session.held \subseteq Freeable(kind)
  BY DEF SessionInv
<1>2. kind \in Kinds
  BY OwnKinds
<1>3. ASSUME NEW k \in Kinds PROVE Len(Steps[k]) \in Nat
  BY <1>3, OwnKinds DEF Steps, NpuSteps
<1>4. CASE Acquire(kind) \/ Fail(kind)
  <2>1. session.phase = "opening" /\ ~Done(kind)
    BY <1>4 DEF Acquire, Fail
  <2>2. session.at \in 1..Len(Steps[kind])
    BY <1>1, <1>2, <1>3, <2>1 DEF Done
  <2>3. {ThisStep(kind)} \cap Resources \subseteq Freeable(kind)
    BY <1>2, <2>2, MadeIsFreeable DEF ThisStep
  <2>4. "graphs" \in Resources
    BY DEF Resources
  <2>5. PICK new \in SUBSET ({ThisStep(kind)} \cap Resources) :
           /\ session'.held = session.held \cup new
           /\ session' \in [phase : Phases, at : Nat \ {0}, held : SUBSET Resources,
                            canFree : BOOLEAN]
           /\ session'.phase \in {"opening", "failed", "terminated", "releasing"}
    <3>1. CASE session' = SessionOf("opening", session.at + 1,
                              session.held \cup ({ThisStep(kind)} \cap Resources),
                              session.canFree \/ ThisStep(kind) = "freeFn")
      <4>1. /\ session'.held = session.held \cup ({ThisStep(kind)} \cap Resources)
            /\ session'.phase = "opening"
        BY <3>1, SessionFields
      <4>2. (session.canFree \/ ThisStep(kind) = "freeFn") \in BOOLEAN
        OBVIOUS
      <4>3. session.at + 1 \in Nat \ {0} /\ "opening" \in Phases
        BY <1>1 DEF Phases
      <4>4. session' \in [phase : Phases, at : Nat \ {0}, held : SUBSET Resources,
                          canFree : BOOLEAN]
        BY <1>1, <3>1, <4>2, <4>3 DEF SessionOf
      <4> QED
        BY <4>1, <4>4
    <3>2. CASE session' = [session EXCEPT !.at = @ + 1]
      <4>1. session'.held = session.held \cup {} /\ session'.phase = "opening"
        BY <1>1, <2>1, <3>2
      <4>2. session' \in [phase : Phases, at : Nat \ {0}, held : SUBSET Resources,
                          canFree : BOOLEAN]
        BY <1>1, <3>2
      <4> QED
        BY <4>1, <4>2
    <3>3. CASE Fail(kind)
      <4>1. PICK left \in SUBSET ({ThisStep(kind)} \cap {"graphs"}) :
               session' = [session EXCEPT !.phase = FailedAt(kind, ThisStep(kind)),
                                          !.held = @ \cup left]
        BY <3>3 DEF Fail
      <4>2. FailedAt(kind, ThisStep(kind)) \in {"failed", "terminated", "releasing"}
        BY DEF FailedAt
      <4>3. left \in SUBSET ({ThisStep(kind)} \cap Resources)
        BY <2>4
      <4>4. /\ session'.held = session.held \cup left
            /\ session'.phase = FailedAt(kind, ThisStep(kind))
        BY <1>1, <4>1
      <4>5. FailedAt(kind, ThisStep(kind)) \in Phases
        BY <4>2 DEF Phases
      <4>6. session.held \cup left \in SUBSET Resources
        BY <1>1, <4>3
      <4>7. session' \in [phase : Phases, at : Nat \ {0}, held : SUBSET Resources,
                          canFree : BOOLEAN]
        BY <1>1, <4>1, <4>5, <4>6
      <4> QED
        BY <4>2, <4>3, <4>4, <4>7
    <3> QED
      BY <1>4, <3>1, <3>2, <3>3 DEF Acquire
  <2> QED
    BY <1>1, <2>3, <2>5
<1>5. CASE Opened(kind) \/ Discard \/ Close
  <2>1. PICK p \in {"open", "discarding", "closing"} : session' = [session EXCEPT !.phase = p]
    BY <1>5 DEF Opened, Discard, Close
  <2>2. p \in Phases
    BY DEF Phases
  <2>3. session'.held = session.held /\ session'.phase = p
    BY <1>1, <2>1
  <2>4. session' \in [phase : Phases, at : Nat \ {0}, held : SUBSET Resources,
                      canFree : BOOLEAN]
    BY <1>1, <2>1, <2>2
  <2> QED
    BY <1>1, <2>3, <2>4
<1>6. CASE Release(kind)
  <2>1. CASE /\ ToFree(kind) = {}
             /\ session' = [session EXCEPT !.phase = After[session.phase]]
    <3>1. session'.held = session.held
      BY <1>1, <2>1
    <3>2. session.held \subseteq Range(ReleaseOrder[kind])
      BY <1>1, <1>2 DEF Freeable
    <3>3. session.held \subseteq Lost
      BY <2>1, <3>2 DEF ToFree, Range
    <3>4. After[session.phase] \in Phases
      BY <1>6 DEF Release, After, Phases
    <3>5. session' \in [phase : Phases, at : Nat \ {0}, held : SUBSET Resources,
                        canFree : BOOLEAN]
      BY <1>1, <2>1, <3>4
    <3> QED
      BY <1>1, <3>1, <3>3, <3>5
  <2>2. ASSUME NEW i \in ToFree(kind), \A j \in ToFree(kind) : i <= j,
               session' = [session EXCEPT !.held = session.held \ {ReleaseOrder[kind][i]}]
        PROVE  /\ session' \in [phase : Phases, at : Nat \ {0}, held : SUBSET Resources,
                                canFree : BOOLEAN]
               /\ session'.held \subseteq Freeable(kind)
               /\ \A r \in session'.held \ Lost :
                     Needs[r] \cap (session.held \ session'.held) = {}
               /\ session'.phase \in {"discarded", "closed"} => session'.held \subseteq Lost
    <3> DEFINE order == ReleaseOrder[kind]
    <3>1. session'.held = session.held \ {order[i]} /\ session'.phase = session.phase
      BY <1>1, <2>2
    <3>2. session.phase \notin {"discarded", "closed"}
      BY <1>6 DEF Release, After
    <3>3. session' \in [phase : Phases, at : Nat \ {0}, held : SUBSET Resources,
                        canFree : BOOLEAN]
      BY <1>1, <2>2
    <3>4. i \in DOMAIN order /\ DOMAIN order \subseteq Nat
      <4>1. \A k \in Kinds : DOMAIN ReleaseOrder[k] \subseteq Nat
        BY OwnKinds DEF ReleaseOrder, Qwen3Release, LibraryRelease
      <4> QED
        BY <1>2, <4>1 DEF ToFree
    <3>5. ASSUME NEW r \in session'.held \ Lost
          PROVE  order[i] \notin Needs[r]
      <4>1. r \in session.held /\ r # order[i] /\ r \notin Lost
        BY <3>1, <3>5
      <4>2. PICK j \in DOMAIN order : order[j] = r
        BY <1>1, <1>2, <4>1 DEF Freeable, Range
      <4>3. j \in ToFree(kind)
        BY <4>1, <4>2 DEF ToFree
      <4>4. i < j
        BY <2>2, <3>4, <4>1, <4>2, <4>3
      <4> QED
        BY <1>2, <3>4, <4>2, <4>4, ReleaseInOrder
    <3> QED
      BY <1>1, <3>1, <3>2, <3>3, <3>5
  <2> QED
    BY <1>6, <2>1, <2>2 DEF Release
<1> QED
  BY <1>4, <1>5, <1>6 DEF SessionNext


-----------------------------------------------------------------------------
(* A recognition as a whole *)

LEMMA RecognitionInit == Init => RecognitionInv
<1> SUFFICES ASSUME Init PROVE RecognitionInv
  OBVIOUS
<1>1. DecodeInv
  BY DecodeInit DEF Init
<1>2. backend \in Own \cup Offline \cup Cpu \cup {"online"}
  BY DEF Init
<1>3. session = [phase |-> IF backend \in Kinds THEN "opening" ELSE "open", at |-> 1,
                 held |-> {}, canFree |-> FALSE]
  BY DEF Init, NewSession, SessionOf
<1>4. session \in [phase : Phases, at : Nat \ {0}, held : SUBSET Resources,
                   canFree : BOOLEAN]
  BY <1>3 DEF Phases
<1>5. session.held = {}
  BY <1>3
<1> QED
  BY <1>1, <1>2, <1>4, <1>5 DEF RecognitionInv, SessionInv

LEMMA DecodeUnchanged == ASSUME DecodeInv, UNCHANGED qwen3Vars PROVE DecodeInv'
BY DEF DecodeInv, qwen3Vars, DecodeTypeOK, CacheInv, LimitInv, ReadInv,
       WindowIsThePast, Seen, AudioMatchesPrompt

\* A step of the recognition leaves the session alone, is one of it, or begins
\* the next backend's with no handle.
LEMMA RecognitionStep ==
    ASSUME RecognitionInv, [Next]_vars
    PROVE  /\ RecognitionInv'
           /\ \/ UNCHANGED session
              \/ /\ \A r \in session'.held \ Lost :
                       Needs[r] \cap (session.held \ session'.held) = {}
                 /\ session'.phase \in {"discarded", "closed"} => session'.held \subseteq Lost
<1>0. DecodeInv /\ SessionInv
  BY DEF RecognitionInv
<1>1. CASE OpenOrClose
  <2>1. backend \in Own /\ SessionNext(backend) /\ UNCHANGED <<backend, qwen3Vars>>
    BY <1>1 DEF OpenOrClose
  <2>2. /\ session' \in [phase : Phases, at : Nat \ {0}, held : SUBSET Resources,
                         canFree : BOOLEAN]
        /\ session'.held \subseteq Freeable(backend)
        /\ \A r \in session'.held \ Lost : Needs[r] \cap (session.held \ session'.held) = {}
        /\ session'.phase \in {"discarded", "closed"} => session'.held \subseteq Lost
    BY <1>0, <2>1, SessionStep
  <2>3. SessionInv'
    BY <1>0, <2>1, <2>2 DEF SessionInv
  <2>4. DecodeInv'
    BY <1>0, <2>1, DecodeUnchanged
  <2> QED
    BY <2>2, <2>3, <2>4 DEF RecognitionInv
<1>2. CASE FallBack
  <2>1. backend' \in {"session", "qwen3_cpu"} /\ UNCHANGED qwen3Vars
    BY <1>2 DEF FallBack
  <2>2. session' = [phase |-> IF backend' \in Kinds THEN "opening" ELSE "open", at |-> 1,
                    held |-> {}, canFree |-> FALSE]
    BY <1>2 DEF FallBack, NewSession, SessionOf
  <2>3. session'.held = {} /\ session'.phase \in {"opening", "open"}
    BY <2>2
  <2>4. session' \in [phase : Phases, at : Nat \ {0}, held : SUBSET Resources,
                      canFree : BOOLEAN]
    BY <2>2 DEF Phases
  <2>5. backend' \in Own \cup Offline \cup Cpu \cup {"online"}
    BY <2>1 DEF Own, FireRed, Cpu
  <2>6. SessionInv'
    BY <2>3, <2>4, <2>5 DEF SessionInv
  <2>7. DecodeInv'
    BY <1>0, <2>1, DecodeUnchanged
  <2> QED
    BY <2>3, <2>6, <2>7 DEF RecognitionInv
<1>3. CASE Qwen3Recognize
  <2>1. Qwen3Next({u.frames : u \in Utterances}) /\ UNCHANGED <<backend, session>>
    BY <1>3 DEF Qwen3Recognize
  <2>2. \A f \in {u.frames : u \in Utterances} : f \in Nat
    BY RecognitionAssumption
  <2>3. DecodeInv'
    BY <1>0, <2>1, <2>2, BeginInv, FailsInv, PrefillInv, PrefilledInv, GenerateInv,
       GenerateEndsInv
       DEF Qwen3Next
  <2>4. SessionInv'
    BY <1>0, <2>1 DEF SessionInv
  <2> QED
    BY <2>1, <2>3, <2>4 DEF RecognitionInv
<1>4. CASE UNCHANGED <<backend, session, qwen3Vars>>
  <2>1. DecodeInv'
    BY <1>0, <1>4, DecodeUnchanged
  <2>2. SessionInv'
    BY <1>0, <1>4 DEF SessionInv
  <2> QED
    BY <1>4, <2>1, <2>2 DEF RecognitionInv
<1>5. CASE \E u \in Utterances : \/ FireRedRecognize(u) \/ OfflineRecognize(u)
                                 \/ CpuRecognize(u) \/ OnlineRecognize(u)
  <2>1. UNCHANGED <<backend, session, qwen3Vars>>
    BY <1>5 DEF FireRedRecognize, OfflineRecognize, CpuRecognize, OnlineRecognize, Returns
  <2> QED
    BY <1>4, <2>1
<1>6. CASE UNCHANGED vars
  BY <1>4, <1>6 DEF vars
<1> QED
  BY <1>1, <1>2, <1>3, <1>5, <1>6 DEF Next

-----------------------------------------------------------------------------
\* In every reachable state of a recognition the invariant holds.
THEOREM RecognitionInvariance == Spec => []RecognitionInv
BY RecognitionInit, RecognitionStep, PTL DEF Spec

\* The position in the cache, the prompt and the answer stay within the limits
\* of stt_engine.cpp and qwen3_qnn_backend.cpp.
THEOREM RecognitionTypeCorrect == Spec => []RecognitionTypeOK
<1>1. RecognitionInv => RecognitionTypeOK
  <2> SUFFICES ASSUME RecognitionInv PROVE RecognitionTypeOK
    OBVIOUS
  <2>1. DecodeTypeOK /\ CacheInv /\ LimitInv
    BY DEF RecognitionInv, DecodeInv
  <2>2. /\ {MaxSteps, MaxNew, MaxTotal, BeforeLen, AfterLen} \subseteq Nat \ {0}
        /\ MaxTotal <= MaxSteps /\ BeforeLen + AfterLen < MaxTotal
    BY Qwen3Assumption
  <2>3. step \in 0..(MaxSteps + MaxNew)
    BY <2>1, <2>2 DEF DecodeTypeOK, CacheInv, LimitInv
  <2> QED
    BY <2>1, <2>3 DEF RecognitionTypeOK, DecodeTypeOK, LimitInv
<1> QED
  BY <1>1, RecognitionInvariance, PTL

\* The decoder is given as much audio as its prompt has pads for, however the
\* audio is chunked and the prompt cut.
THEOREM RecognitionAudioMatchesPrompt == Spec => []AudioMatchesPrompt
<1>1. RecognitionInv => AudioMatchesPrompt
  BY DEF RecognitionInv, DecodeInv
<1> QED
  BY <1>1, RecognitionInvariance, PTL

\* A token is computed from the last W tokens of this recognition's prompt and
\* answer, in order, and from nothing an earlier recognition has left.
THEOREM RecognitionFromItsPast == Spec => []GeneratesFromItsPast
<1>1. RecognitionInv => GeneratesFromItsPast
  <2> SUFFICES ASSUME RecognitionInv PROVE GeneratesFromItsPast
    OBVIOUS
  <2>1. DecodeTypeOK /\ CacheInv /\ ReadInv /\ WindowIsThePast
    BY DEF RecognitionInv, DecodeInv
  <2>2. ASSUME ~failed PROVE IsPrefix(past, prompt \o out)
    <3> DEFINE all == prompt \o out
    <3>1. /\ past \in Seq(Tokens) /\ all \in Seq(Tokens)
          /\ Len(past) \in Nat /\ Len(all) \in Nat
      BY <2>1 DEF DecodeTypeOK
    <3>2. Len(past) <= Len(all) /\ \A i \in 1..Len(past) : past[i] = all[i]
      <4>1. CASE request = 0
        <5>1. past = <<>>
          BY <2>1, <4>1 DEF CacheInv
        <5> QED
          BY <3>1, <5>1
      <4>2. CASE request # 0
        BY <2>1, <2>2, <4>2 DEF ReadInv
      <4> QED
        BY <4>1, <4>2
    <3> HIDE DEF all
    <3>3. SubSeq(past, 1, Len(past)) = SubSeq(all, 1, Len(past))
      BY <3>1, <3>2
    <3>4. IsPrefix(past, all)
      BY <3>2, <3>3 DEF IsPrefix
    <3> QED
      BY <3>4 DEF all
  <2>3. ReadsPromptThenItself
    BY <2>2 DEF ReadsPromptThenItself
  <2> QED
    BY <2>1, <2>3 DEF GeneratesFromItsPast
<1> QED
  BY <1>1, RecognitionInvariance, PTL

\* Whichever step of init fails, handles are freed in a sound order and all of
\* them before the next backend is tried, as far as the library can.
THEOREM RecognitionHandlesSound == Spec => HandlesSound
<1>1. RecognitionInv /\ [Next]_vars =>
         [/\ \A r \in session'.held \ Lost : Needs[r] \cap (session.held \ session'.held) = {}
          /\ session'.phase \in {"discarded", "closed"} => session'.held \subseteq Lost]_session
  BY RecognitionStep
<1> QED
  BY <1>1, RecognitionInvariance, PTL DEF Spec, HandlesSound

-----------------------------------------------------------------------------
(* Folds.  The community modules compute them by recursion over sets of     *)
(* indices; induction over how many there are, by WFMin, says what comes    *)
(* out.                                                                     *)

\* Induction without an operator as a parameter.
LEMMA CountingUp ==
    ASSUME NEW T, 0 \in T, \A n \in T \cap Nat : n + 1 \in T
    PROVE  Nat \subseteq T
<1> SUFFICES ASSUME Nat \ T # {} PROVE FALSE
  OBVIOUS
<1>1. PICK x \in Nat \ T : \A y \in Nat \ T : ~(<<y, x>> \in OpToRel(<, Nat))
  BY NatLessThanWellFounded, WFMin
<1>2. x # 0 /\ x \in Nat /\ x \notin T
  BY <1>1
<1>3. x - 1 \in Nat /\ x - 1 < x /\ x - 1 + 1 = x
  BY <1>2
<1>4. <<x - 1, x>> \in OpToRel(<, Nat)
  BY <1>2, <1>3 DEF OpToRel
<1>5. x - 1 \in T
  BY <1>1, <1>3, <1>4
<1> QED
  BY <1>2, <1>3, <1>5

\* A set of indices has a greatest one.
LEMMA GreatestIndex ==
    ASSUME NEW n \in Nat, NEW s \in SUBSET (1..n), s # {}
    PROVE  Max(s) \in s /\ \A i \in s : i <= Max(s)
<1> DEFINE Bounded(k) == \A r \in SUBSET (1..k) : r # {} => \E m \in r : \A i \in r : m >= i
           T == {k \in Nat : Bounded(k)}
<1>1. 0 \in T
  <2>1. 1..0 = {}
    OBVIOUS
  <2>2. Bounded(0)
    BY <2>1
  <2> QED
    BY <2>2
<1>2. ASSUME NEW k \in T \cap Nat PROVE k + 1 \in T
  <2>1. ASSUME NEW r \in SUBSET (1..k + 1), r # {}
        PROVE \E m \in r : \A i \in r : m >= i
    <3>1. CASE k + 1 \in r
      BY <3>1
    <3>2. CASE k + 1 \notin r
      <4>1. r \in SUBSET (1..k)
        BY <3>2
      <4> QED
        BY <2>1, <4>1
    <3> QED
      BY <3>1, <3>2
  <2> QED
    BY <2>1
<1>3. Bounded(n)
  <2>1. Nat \subseteq T
    <3> HIDE DEF T
    <3> QED
      BY <1>1, <1>2, CountingUp
  <2> QED
    BY <2>1
<1>4. \E m \in s : \A i \in s : m >= i
  BY <1>3
<1>5. Max(s) \in s /\ \A i \in s : Max(s) >= i
  BY <1>4 DEF Max
<1> QED
  BY <1>5

\* A fold from the left, as the community modules compute it: over the set of
\* indices, the greatest last.
Folded(iter, base, op, n) ==
    iter = [s \in SUBSET (1..n) |->
               IF s = {} THEN base ELSE op[<<iter[s \ {Max(s)}], Max(s)>>]]

LEMMA FoldExists ==
    ASSUME NEW n \in Nat, NEW A, NEW base \in A, NEW op \in [A \X (1..n) -> A]
    PROVE  \E iter \in [SUBSET (1..n) -> A] : Folded(iter, base, op, n)
<1> DEFINE Value(iter, s) == IF s = {} THEN base ELSE op[<<iter[s \ {Max(s)}], Max(s)>>]
           Good(iter, k) == \A s \in SUBSET (1..k) : iter[s] = Value(iter, s)
           Exists(k) == \E iter \in [SUBSET (1..k) -> A] : Good(iter, k)
           T == {k \in Nat : k <= n => Exists(k)}
<1>1. 0 \in T
  <2> DEFINE g == [s \in SUBSET (1..0) |-> base]
  <2>1. g \in [SUBSET (1..0) -> A]
    OBVIOUS
  <2>2. Good(g, 0)
    OBVIOUS
  <2> HIDE DEF g, Good
  <2> QED
    BY <2>1, <2>2
<1>2. ASSUME NEW k \in T \cap Nat PROVE k + 1 \in T
  <2> HIDE DEF Good, Exists
  <2> SUFFICES ASSUME k + 1 <= n PROVE Exists(k + 1)
    OBVIOUS
  <2>1. k \in Nat /\ k <= n /\ Exists(k)
    OBVIOUS
  <2> HIDE DEF T
  <2>1a. PICK f \in [SUBSET (1..k) -> A] : Good(f, k)
    BY <2>1 DEF Exists
  <2> USE DEF Good
  <2> DEFINE g == [s \in SUBSET (1..k + 1) |-> Value(f, s)]
  <2>2. ASSUME NEW s \in SUBSET (1..k + 1), s # {}
        PROVE  Max(s) \in 1..n /\ s \ {Max(s)} \in SUBSET (1..k)
    <3> DEFINE j == k + 1
               m == Max(s)
    <3>0. j \in Nat /\ s \in SUBSET (1..j)
      BY <2>1
    <3> HIDE DEF j
    <3>1. m \in s /\ \A i \in s : i <= m
      BY <2>2, <3>0, GreatestIndex
    <3> USE DEF j
    <3> HIDE DEF m
    <3>2. ASSUME NEW i \in s, i # m PROVE i \in 1..k
      <4>1. i \in 1..k + 1 /\ m \in 1..k + 1 /\ i <= m
        BY <3>1
      <4>2. i \in Int /\ m \in Int /\ 1 <= i /\ m <= k + 1
        BY <2>1, <4>1
      <4> QED
        BY <2>1, <3>2, <4>1, <4>2
    <3>3. m \in 1..n
      BY <2>1, <3>1
    <3> QED
      BY <3>2, <3>3 DEF m
  <2>3. SUBSET (1..k) \subseteq SUBSET (1..k + 1)
    OBVIOUS
  <2>4. ASSUME NEW s \in SUBSET (1..k) PROVE g[s] = f[s]
    <3>1. f[s] = Value(f, s)
      BY <2>1a
    <3> QED
      BY <2>3, <3>1
  <2>5. ASSUME NEW s \in SUBSET (1..k + 1) PROVE g[s] \in A /\ g[s] = Value(g, s)
    <3>1. CASE s = {}
      BY <3>1
    <3>2. CASE s # {}
      <4> DEFINE r == s \ {Max(s)}
      <4>1. r \in SUBSET (1..k) /\ Max(s) \in 1..n
        BY <2>2, <3>2
      <4>2. g[s] = op[<<f[r], Max(s)>>]
        BY <3>2
      <4> HIDE DEF g
      <4>3. g[r] = f[r]
        BY <2>4, <4>1
      <4>4. f[r] \in A /\ <<f[r], Max(s)>> \in A \X (1..n)
        BY <2>1a, <4>1
      <4>5. op[<<f[r], Max(s)>>] \in A
        BY <4>4
      <4> QED
        BY <3>2, <4>2, <4>3, <4>5
    <3> QED
      BY <3>1, <3>2
  <2>6. DOMAIN g = SUBSET (1..k + 1) /\ g = [s \in SUBSET (1..k + 1) |-> g[s]]
    OBVIOUS
  <2> HIDE DEF g, Value
  <2>7. g \in [SUBSET (1..k + 1) -> A]
    BY <2>5, <2>6
  <2> QED
    BY <2>5, <2>7 DEF Exists
<1>3. n \in T
  <2> HIDE DEF T
  <2> QED
    BY <1>1, <1>2, CountingUp
<1> HIDE DEF Good, Exists
<1>3a. Exists(n)
  BY <1>3
<1>4. PICK iter \in [SUBSET (1..n) -> A] : Good(iter, n)
  BY <1>3a DEF Exists
<1> USE DEF Good
<1>5. iter = [s \in SUBSET (1..n) |-> iter[s]]
  OBVIOUS
<1>6. Folded(iter, base, op, n)
  BY <1>4, <1>5 DEF Folded
<1> QED
  BY <1>6

\* The fold's set of the first k indices, and what is left without its greatest.
LEMMA InitialIndices ==
    ASSUME NEW n \in Nat, NEW k \in 1..n
    PROVE  1..k \in SUBSET (1..n) /\ 1..k # {} /\ Max(1..k) = k /\ (1..k) \ {k} = 1..(k - 1)
<1> DEFINE s == 1..k
           m == Max(s)
<1>1. s \in SUBSET (1..n) /\ s # {} /\ k \in s /\ \A i \in s : i <= k
  OBVIOUS
<1>2. m \in s /\ \A i \in s : i <= m
  BY <1>1, GreatestIndex
<1>3. m = k
  <2> HIDE DEF m
  <2> QED
    BY <1>1, <1>2
<1>4. s \ {k} = 1..(k - 1)
  OBVIOUS
<1> QED
  BY <1>1, <1>3, <1>4


\* The same, of a function on any domain and as long as it stays in A; and what
\* it computes, one element after the other.
FoldsIn(A, fold, base, op, n) ==
    /\ n \in Nat /\ base \in A /\ op \in [A \X (1..n) -> A]
    /\ fold[{}] = base
    /\ \A s \in SUBSET (1..n) : s # {} /\ fold[s \ {Max(s)}] \in A =>
           fold[s] = op[<<fold[s \ {Max(s)}], Max(s)>>]

Computes(acc, A, fold, base, op, n) ==
    /\ acc \in [0..n -> A]
    /\ acc[0] = base /\ acc[n] = fold[1..n]
    /\ \A k \in 1..n : acc[k] = op[<<acc[k - 1], k>>]

LEMMA FoldLoop ==
    ASSUME NEW n, NEW A, NEW base, NEW op, NEW fold, FoldsIn(A, fold, base, op, n)
    PROVE  \E acc : Computes(acc, A, fold, base, op, n)
<1>0. n \in Nat /\ base \in A /\ op \in [A \X (1..n) -> A]
  BY DEF FoldsIn
<1> DEFINE acc == [k \in 0..n |-> fold[1..k]]
<1>1. acc[0] = base
  <2>1. 1..0 = {} /\ 0 \in 0..n
    BY <1>0
  <2> QED
    BY <2>1 DEF FoldsIn
<1>2. ASSUME NEW k \in 1..n, acc[k - 1] \in A PROVE acc[k] = op[<<acc[k - 1], k>>]
  <2>1. 1..k \in SUBSET (1..n) /\ 1..k # {} /\ Max(1..k) = k /\ (1..k) \ {k} = 1..(k - 1)
    BY <1>0, InitialIndices
  <2>2. k \in 0..n /\ k - 1 \in 0..n
    BY <1>0
  <2>3. acc[k] = fold[1..k] /\ acc[k - 1] = fold[1..(k - 1)]
    BY <2>2
  <2> HIDE DEF acc
  <2> QED
    BY <1>2, <2>1, <2>3 DEF FoldsIn
<1>3. acc[n] = fold[1..n] /\ acc = [k \in 0..n |-> acc[k]]
  BY <1>0
<1> HIDE DEF acc
<1>4. \A k \in 0..n : acc[k] \in A
  <2> DEFINE T == {k \in Nat : k <= n => acc[k] \in A}
  <2>1. 0 \in T
    BY <1>0, <1>1
  <2>2. ASSUME NEW k \in T \cap Nat PROVE k + 1 \in T
    <3> SUFFICES ASSUME k + 1 <= n PROVE acc[k + 1] \in A
      OBVIOUS
    <3>1. k + 1 \in 1..n /\ acc[k] \in A /\ k + 1 - 1 = k
      BY <1>0
    <3>2. acc[k + 1] = op[<<acc[k], k + 1>>]
      BY <1>2, <3>1
    <3> QED
      BY <1>0, <3>1, <3>2
  <2>3. Nat \subseteq T
    <3> HIDE DEF T
    <3> QED
      BY <2>1, <2>2, CountingUp
  <2> QED
    BY <1>0, <2>3
<1>5. \A k \in 1..n : k - 1 \in 0..n
  BY <1>0
<1>6. acc \in [0..n -> A]
  BY <1>3, <1>4
<1> QED
  BY <1>1, <1>2, <1>3, <1>4, <1>5, <1>6 DEF Computes

-----------------------------------------------------------------------------
Readings == [prev : Int, ids : Seq(Nat)]
Reading(acc, b) ==
    [prev |-> b,
     ids |-> IF b # 0 /\ b # acc.prev THEN Append(acc.ids, b) ELSE acc.ids]
NothingRead == [prev |-> -1, ids |-> <<>>]

\* The loop of a greedy decoder: acc[k] is what it has after k frames.
LEMMA GreedyLoop ==
    ASSUME NEW best \in Seq(Nat)
    PROVE  \E acc \in [0..Len(best) -> Readings] :
              /\ acc[0] = NothingRead
              /\ \A k \in 1..Len(best) : acc[k] = Reading(acc[k - 1], best[k])
              /\ Greedy(best) = acc[Len(best)].ids
<1> DEFINE n == Len(best)
           op == [p \in Readings \X (1..n) |-> Reading(p[1], best[p[2]])]
           Iterates(iter) ==
               iter = [s \in SUBSET (1..n) |->
                          IF s = {} THEN NothingRead
                          ELSE Reading(iter[s \ {Max(s)}], best[Max(s)])]
           fold == CHOOSE iter : Iterates(iter)
<1>1. n \in Nat /\ DOMAIN best = 1..n
  OBVIOUS
<1>2. Greedy(best) = fold[1..n].ids
  BY <1>1 DEF Greedy, FoldLeft, MapThenFoldSet, Reading, NothingRead
<1>3. NothingRead \in Readings
  BY DEF NothingRead, Readings
<1>4. ASSUME NEW a \in Readings, NEW k \in 1..n PROVE Reading(a, best[k]) \in Readings
  <2>1. best[k] \in Nat /\ a.ids \in Seq(Nat)
    BY DEF Readings
  <2>2. Append(a.ids, best[k]) \in Seq(Nat)
    BY <2>1
  <2> QED
    BY <2>1, <2>2 DEF Reading, Readings
<1> HIDE DEF n
<1>5. op \in [Readings \X (1..n) -> Readings]
  BY <1>4
<1>6. \A a \in Readings, k \in 1..n : op[<<a, k>>] = Reading(a, best[k])
  OBVIOUS
<1> HIDE DEF op
<1>7. PICK g \in [SUBSET (1..n) -> Readings] : Folded(g, NothingRead, op, n)
  BY <1>1, <1>3, <1>5, FoldExists
<1>8. ASSUME NEW s \in SUBSET (1..n), s # {}
      PROVE  Max(s) \in 1..n /\ s \ {Max(s)} \in SUBSET (1..n)
  BY <1>1, <1>8, GreatestIndex
<1>9. ASSUME NEW s \in SUBSET (1..n)
      PROVE  g[s] = IF s = {} THEN NothingRead ELSE Reading(g[s \ {Max(s)}], best[Max(s)])
  <2>1. g[s] = IF s = {} THEN NothingRead ELSE op[<<g[s \ {Max(s)}], Max(s)>>]
    BY <1>7 DEF Folded
  <2> QED
    BY <1>6, <1>7, <1>8, <2>1
<1>10. Iterates(g)
  <2>1. g = [s \in SUBSET (1..n) |-> g[s]]
    BY <1>7
  <2> QED
    BY <1>9, <2>1
<1>11. Iterates(fold)
  <2> HIDE DEF Iterates
  <2> QED
    BY <1>10
<1> HIDE DEF fold
<1>12. fold[{}] = NothingRead
  <2>1. {} \in SUBSET (1..n)
    OBVIOUS
  <2> QED
    BY <1>11, <2>1
<1>13. \A s \in SUBSET (1..n) : s # {} /\ fold[s \ {Max(s)}] \in Readings =>
           fold[s] = op[<<fold[s \ {Max(s)}], Max(s)>>]
  <2> SUFFICES ASSUME NEW s \in SUBSET (1..n), s # {}, fold[s \ {Max(s)}] \in Readings
               PROVE  fold[s] = op[<<fold[s \ {Max(s)}], Max(s)>>]
    OBVIOUS
  <2>1. fold[s] = Reading(fold[s \ {Max(s)}], best[Max(s)])
    BY <1>11
  <2> QED
    BY <1>6, <1>8, <2>1
<1>14. FoldsIn(Readings, fold, NothingRead, op, n)
  BY <1>1, <1>3, <1>5, <1>12, <1>13 DEF FoldsIn
<1> HIDE DEF Iterates
<1>14a. PICK acc : Computes(acc, Readings, fold, NothingRead, op, n)
  BY <1>14, FoldLoop
<1>14b. /\ acc \in [0..n -> Readings]
      /\ acc[0] = NothingRead /\ acc[n] = fold[1..n]
      /\ \A k \in 1..n : acc[k] = op[<<acc[k - 1], k>>]
  BY <1>14a DEF Computes
<1>15. ASSUME NEW k \in 1..n PROVE acc[k] = Reading(acc[k - 1], best[k])
  <2>1. k - 1 \in 0..n
    BY <1>1
  <2>2. acc[k - 1] \in Readings
    BY <1>14b, <2>1
  <2> QED
    BY <1>6, <1>14b, <2>2
<1> QED
  BY <1>2, <1>14b, <1>15 DEF n

\* What the loop appends is one token for each run: the runs that start in the
\* first k frames have been read after k frames.
LEMMA GreedyReadsRuns ==
    ASSUME NEW u, u.best \in Seq(Nat)
    PROVE  Greedy(u.best) = Said(u)
<1> DEFINE best == u.best
           n == Len(best)
           runs == {i \in DOMAIN best :
                         best[i] # 0 /\ (i = 1 \/ best[i - 1] # best[i])}
           upto(k) == {j \in runs : j <= k}
           number(k) == Cardinality(upto(k))
<1>1. n \in Nat /\ DOMAIN best = 1..n /\ \A i \in 1..n : best[i] \in Nat
  OBVIOUS
<1>2. PICK acc \in [0..n -> Readings] :
          /\ acc[0] = NothingRead
          /\ \A k \in 1..n : acc[k] = Reading(acc[k - 1], best[k])
          /\ Greedy(best) = acc[n].ids
  BY GreedyLoop
<1>3. Said(u) = [k \in 1..Cardinality(runs) |->
                    best[CHOOSE i \in runs : number(i) = k]]
  BY DEF Said
<1>4. runs \subseteq 1..n /\ \A i \in runs : best[i] # 0
  BY <1>1
<1>5. \A k \in 1..n : k \in runs <=> best[k] # 0 /\ (k = 1 \/ best[k - 1] # best[k])
  BY <1>1
<1> HIDE DEF n, best, runs
<1>5a. \A j \in runs : j \in Nat /\ j <= n /\ ~(j <= 0)
  BY <1>1, <1>4
<1>6. \A k \in Nat : IsFiniteSet(upto(k)) /\ number(k) \in Nat
  <2>1. IsFiniteSet(runs)
    <3>1. IsFiniteSet(1..n)
      BY <1>1, FS_Interval
    <3> QED
      BY <1>4, <3>1, FS_Subset
  <2>2. \A k \in Nat : upto(k) \subseteq runs
    OBVIOUS
  <2> HIDE DEF upto
  <2> QED
    BY <2>1, <2>2, FS_Subset, FS_CardinalityType
<1>7. upto(n) = runs /\ upto(0) = {} /\ number(0) = 0
  <2>1. upto(n) = runs
    BY <1>5a
  <2>2. upto(0) = {}
    BY <1>5a
  <2>3. number(0) = Cardinality({})
    BY <2>2
  <2> QED
    BY <2>1, <2>2, <2>3, FS_EmptySet
<1>8. ASSUME NEW k \in Nat, k < n
      PROVE  /\ k + 1 \in runs => upto(k + 1) = upto(k) \cup {k + 1}
                                    /\ number(k + 1) = number(k) + 1
             /\ k + 1 \notin runs => upto(k + 1) = upto(k)
  <2>1. \A j \in runs : j <= k + 1 <=> j <= k \/ j = k + 1
    BY <1>1, <1>4
  <2>2. k + 1 \in runs => upto(k + 1) = upto(k) \cup {k + 1}
    BY <2>1
  <2>3. k + 1 \notin upto(k)
    OBVIOUS
  <2>4. k + 1 \in runs => number(k + 1) = number(k) + 1
    <3> HIDE DEF upto
    <3>1. IsFiniteSet(upto(k))
      BY <1>6
    <3>2. Cardinality(upto(k) \cup {k + 1}) = Cardinality(upto(k)) + 1
      BY <2>3, <3>1, FS_AddElement
    <3> QED
      BY <2>2, <3>2
  <2>5. k + 1 \notin runs => upto(k + 1) = upto(k)
    BY <2>1
  <2> QED
    BY <2>2, <2>4, <2>5
<1>9. ASSUME NEW k \in Nat, NEW i \in upto(k) PROVE number(i) \in 1..number(k)
  <2>1. i \in Nat /\ i <= k /\ i \in upto(i)
    BY <1>4
  <2>2. upto(i) \subseteq upto(k)
    <3>1. \A j \in runs : j <= i => j <= k
      BY <1>5a, <2>1
    <3> QED
      BY <3>1
  <2>3. number(i) \in Nat /\ number(k) \in Nat /\ number(i) <= number(k)
    BY <1>6, <2>1, <2>2, FS_Subset
  <2>4. number(i) # 0
    BY <1>6, <2>1, FS_EmptySet
  <2> QED
    BY <2>3, <2>4
<1> DEFINE Read(k) ==
               /\ Len(acc[k].ids) = number(k)
               /\ acc[k].prev = IF k = 0 THEN -1 ELSE best[k]
               /\ \A i \in upto(k) : acc[k].ids[number(i)] = best[i]
               /\ \A j \in 1..number(k) : \E i \in upto(k) : number(i) = j
           T == {k \in Nat : k <= n => Read(k)}
<1>10. 0 \in T
  <2>1. acc[0].ids = <<>> /\ acc[0].prev = -1
    BY <1>2 DEF NothingRead
  <2>2. Read(0)
    <3> HIDE DEF upto, number
    <3> QED
      BY <1>7, <2>1
  <2> QED
    BY <2>2
<1>11. ASSUME NEW k \in T \cap Nat PROVE k + 1 \in T
  <2> HIDE DEF Read
  <2> SUFFICES ASSUME k + 1 <= n PROVE Read(k + 1)
    OBVIOUS
  <2> HIDE DEF upto, number
  <2>1. k \in Nat /\ k < n /\ Read(k) /\ k + 1 \in 1..n /\ k \in 0..n /\ k + 1 # 0
    BY <1>1
  <2> HIDE DEF T
  <2> DEFINE b == best[k + 1]
             ids == acc[k].ids
  <2>2. acc[k + 1] = Reading(acc[k], b)
    BY <1>1, <1>2, <2>1
  <2>3. ids \in Seq(Nat) /\ b \in Nat
    BY <1>1, <1>2, <2>1 DEF Readings
  <2>4. b # 0 /\ b # acc[k].prev <=> k + 1 \in runs
    BY <1>5, <2>1, <2>3 DEF Read
  <2>5. acc[k + 1].prev = b
    BY <2>2 DEF Reading
  <2> HIDE DEF b
  <2>6. CASE k + 1 \in runs
    <3>1. acc[k + 1].ids = Append(ids, b)
      BY <2>2, <2>4, <2>6 DEF Reading
    <3>2. upto(k + 1) = upto(k) \cup {k + 1} /\ number(k + 1) = number(k) + 1
      BY <1>8, <2>1, <2>6
    <3>3. number(k) \in Nat /\ Len(ids) = number(k)
      BY <1>6, <2>1 DEF Read
    <3>4. Len(acc[k + 1].ids) = number(k + 1)
      BY <2>3, <3>1, <3>2, <3>3
    <3>5. ASSUME NEW i \in upto(k + 1) PROVE acc[k + 1].ids[number(i)] = best[i]
      <4>1. CASE i = k + 1
        BY <2>3, <3>1, <3>2, <3>3, <4>1 DEF b
      <4>2. CASE i \in upto(k)
        <5>1. number(i) \in 1..number(k)
          BY <1>9, <2>1, <4>2
        <5>2. ids[number(i)] = best[i]
          BY <2>1, <4>2 DEF Read
        <5> QED
          BY <2>3, <3>1, <3>3, <5>1, <5>2
      <4> QED
        BY <3>2, <4>1, <4>2
    <3>6. ASSUME NEW j \in 1..number(k + 1) PROVE \E i \in upto(k + 1) : number(i) = j
      <4>1. CASE j = number(k + 1)
        BY <3>2, <4>1
      <4>2. CASE j # number(k + 1)
        <5>1. j \in 1..number(k)
          BY <3>2, <3>3, <4>2
        <5> QED
          BY <2>1, <3>2, <5>1 DEF Read
      <4> QED
        BY <4>1, <4>2
    <3> QED
      BY <2>1, <2>5, <3>4, <3>5, <3>6 DEF Read, b
  <2>7. CASE k + 1 \notin runs
    <3>1. acc[k + 1].ids = ids
      BY <2>2, <2>4, <2>7 DEF Reading
    <3>2. upto(k + 1) = upto(k)
      BY <1>8, <2>1, <2>7
    <3>3. number(k + 1) = number(k)
      BY <3>2 DEF number
    <3> QED
      BY <2>1, <2>5, <3>1, <3>2, <3>3 DEF Read, b
  <2> QED
    BY <2>6, <2>7
<1>12. Read(n)
  <2> HIDE DEF Read
  <2>1. Nat \subseteq T
    <3> HIDE DEF T
    <3> QED
      BY <1>10, <1>11, CountingUp
  <2> QED
    BY <1>1, <2>1
<1> DEFINE ids == acc[n].ids
           c == Cardinality(runs)
<1>13. /\ ids \in Seq(Nat) /\ Len(ids) = c /\ c \in Nat
       /\ \A i \in runs : ids[number(i)] = best[i]
       /\ \A j \in 1..c : \E i \in runs : number(i) = j
  <2>1. n \in 0..n /\ acc[n] \in Readings
    BY <1>1, <1>2
  <2> QED
    BY <1>1, <1>6, <1>7, <1>12, <2>1 DEF Readings
<1> HIDE DEF ids, c
<1>14. ASSUME NEW j \in 1..c
       PROVE  ids[j] = best[CHOOSE i \in runs : number(i) = j]
  <2> HIDE DEF number
  <2>1. \E i \in runs : number(i) = j
    BY <1>13
  <2> DEFINE first == CHOOSE i \in runs : number(i) = j
  <2>2. first \in runs /\ number(first) = j
    BY <2>1
  <2> HIDE DEF first
  <2>3. ids[j] = best[first]
    BY <1>13, <2>2
  <2> QED
    BY <2>3 DEF first
<1>15. ids = [j \in 1..c |-> ids[j]]
  BY <1>13
<1>16. ids = Said(u)
  <2> HIDE DEF number
  <2> QED
    BY <1>3, <1>14, <1>15 DEF c
<1> QED
  BY <1>2, <1>16 DEF ids, best, n
\* Whole division.
LEMMA QuotientFacts ==
    ASSUME NEW m \in Nat, NEW d \in Nat \ {0}
    PROVE  m \div d \in Nat /\ d * (m \div d) <= m /\ m < d * (m \div d) + d
OBVIOUS

LEMMA DivMonotone ==
    ASSUME NEW a \in Nat, NEW b \in Nat, NEW d \in Nat \ {0}, a <= b
    PROVE  a \div d <= b \div d
<1> DEFINE q == a \div d
           r == b \div d
<1>1. q \in Nat /\ r \in Nat /\ d * q <= a /\ b < d * r + d
  BY QuotientFacts
<1> HIDE DEF q, r
<1>2. d * q < d * r + d
  BY <1>1
<1>3. d * q < d * (r + 1)
  BY <1>1, <1>2
<1>4. ASSUME r + 1 <= q PROVE FALSE
  <2>1. PICK e \in Nat : q = r + 1 + e
    BY <1>1, <1>4
  <2>2. d * q = d * (r + 1) + d * e /\ d * e >= 0
    BY <1>1, <2>1
  <2> QED
    BY <1>1, <1>3, <2>2
<1> QED
  BY <1>1, <1>4 DEF q, r

\* The padding of the session, and of the library, is cut off again.
LEMMA PaddingIsCutOff ==
    ASSUME NEW u, u.frames \in Nat, u.best \in Seq(Nat), Len(u.best) = Frames(u.frames)
    PROVE  /\ SessionFrames(u) = u.best
           /\ Frames(u.frames) <= StaticOut => LibraryFrames(u) = u.best
<1> DEFINE n == Frames(u.frames)
           best == u.best
<1>1. n \in Nat /\ best \in Seq(Nat) /\ Len(best) = n
  OBVIOUS
<1>2. ASSUME NEW k \in Nat, n <= k
      PROVE SubSeq(Output(u, k), 1, n) = best
  <2>1. Output(u, k) \in Seq(Nat) /\ Len(Output(u, k)) = k
    BY <1>1, CtcAssumption DEF Output
  <2>2. \A t \in 1..n : Output(u, k)[t] = best[t]
    BY <1>1, <1>2 DEF Output
  <2> DEFINE o == Output(u, k)
  <2> HIDE DEF o, n, best
  <2>3. SubSeq(o, 1, n) = [t \in 1..n |-> o[t]]
    BY <1>1, <1>2, <2>1 DEF o
  <2>4. best = [t \in 1..n |-> best[t]]
    BY <1>1
  <2> QED
    BY <2>2, <2>3, <2>4 DEF o
<1>3. Padded(u.frames) \in Nat /\ u.frames <= Padded(u.frames)
  <2> DEFINE b == Bucket
             m == u.frames + b - 1
  <2>1. b \in Nat \ {0} /\ m \in Nat
    BY CtcAssumption
  <2> HIDE DEF b, m
  <2>2. m \div b \in Nat /\ m < b * (m \div b) + b
    BY <2>1, QuotientFacts
  <2>3. Padded(u.frames) = (m \div b) * b
    BY DEF Padded, m, b
  <2>4. (m \div b) * b = b * (m \div b) /\ b * (m \div b) \in Nat
    BY <2>1, <2>2
  <2> QED
    BY <2>1, <2>2, <2>3, <2>4 DEF m
<1>4. Frames(Padded(u.frames)) \in Nat /\ n <= Frames(Padded(u.frames))
  <2> DEFINE a == u.frames + Stride - 1
             b == Padded(u.frames) + Stride - 1
  <2>1. a \in Nat /\ b \in Nat /\ a <= b /\ Stride \in Nat \ {0}
    BY <1>3, CtcAssumption
  <2> HIDE DEF a, b
  <2>2. a \div Stride <= b \div Stride /\ b \div Stride \in Nat
    BY <2>1, QuotientFacts, DivMonotone
  <2> QED
    BY <2>2 DEF Frames, a, b
<1>5. SessionFrames(u) = best
  BY <1>2, <1>4 DEF SessionFrames
<1>6. ASSUME n <= StaticOut PROVE LibraryFrames(u) = best
  <2>1. StaticOut \in Nat
    BY CtcAssumption
  <2>2. Min({StaticOut, n}) = n
    <3> HIDE DEF n
    <3> QED
      BY <1>1, <1>6, <2>1 DEF Min
  <2> QED
    BY <1>2, <1>6, <2>1, <2>2 DEF LibraryFrames
<1> QED
  BY <1>5, <1>6

-----------------------------------------------------------------------------
Lines == Seq([sym : STRING, id : Nat])

\* A token with one line: what its symbol is.
LEMMA TheSymbol ==
    ASSUME NEW table \in Lines, NEW id, Cardinality(Symbols(table, id)) = 1
    PROVE  /\ \E k \in DOMAIN table : table[k].sym # "" /\ table[k].id = id
           /\ \A k \in DOMAIN table : table[k].sym # "" /\ table[k].id = id =>
                 table[k].sym = Symbol(table, id)
<1> DEFINE n == Len(table)
           R == Range(table)
<1>1. n \in Nat /\ DOMAIN table = 1..n /\ R = {table[i] : i \in 1..n}
  BY DEF Lines, Range
<1>2. IsFiniteSet(R)
  <2> HIDE DEF n, R
  <2>1. table \in [1..n -> R] /\ \A e \in R : \E i \in 1..n : table[i] = e
    BY <1>1 DEF Lines
  <2>2. table \in Surjection(1..n, R)
    BY <2>1 DEF Surjection
  <2>3. IsFiniteSet(1..n)
    BY <1>1, FS_Interval
  <2> QED
    BY <2>2, <2>3, FS_Surjection
<1>3. Symbols(table, id) \subseteq R
  BY DEF Symbols
<1>4. PICK l : Symbols(table, id) = {l}
  <2> HIDE DEF R
  <2>1. IsFiniteSet(Symbols(table, id))
    BY <1>2, <1>3, FS_Subset
  <2> QED
    BY <2>1, FS_Singleton
<1>5. \A k \in DOMAIN table : table[k].sym # "" /\ table[k].id = id =>
          table[k] \in Symbols(table, id)
  BY <1>1 DEF Symbols
<1>6. (CHOOSE s \in Symbols(table, id) : TRUE) = l
  BY <1>4
<1>7. \E k \in DOMAIN table : table[k].sym # "" /\ table[k].id = id
  <2>1. l \in R /\ l.id = id /\ l.sym # ""
    BY <1>4 DEF Symbols
  <2>2. PICK k \in DOMAIN table : table[k] = l
    BY <1>1, <2>1
  <2> QED
    BY <2>1, <2>2
<1> QED
  BY <1>4, <1>5, <1>6, <1>7 DEF Symbol

\* The session's table, whatever the order of the lines.
LEMMA ByIdFindsTheSymbol ==
    ASSUME NEW table \in Lines, NEW id, Cardinality(Symbols(table, id)) = 1
    PROVE  ById(table, id) = Symbol(table, id)
<1> DEFINE n == Len(table)
           I == {i \in 1..n : table[i].sym # "" /\ table[i].id = id}
           last == IF I # {} THEN Max(I) ELSE 0
<1>1. n \in Nat /\ DOMAIN table = 1..n
  BY DEF Lines
<1>2. I # {}
  <2>1. \E k \in DOMAIN table : table[k].sym # "" /\ table[k].id = id
    BY TheSymbol
  <2> QED
    BY <1>1, <2>1
<1>3. Max(I) \in I
  <2>1. I \in SUBSET (1..n)
    OBVIOUS
  <2> HIDE DEF I, n
  <2> QED
    BY <1>1, <1>2, <2>1, GreatestIndex
<1>4. last = Max(I) /\ last # 0 /\ last \in DOMAIN table
      /\ table[last].sym # "" /\ table[last].id = id
  <2>1. last = Max(I)
    BY <1>2
  <2> HIDE DEF last, n
  <2>2. last \in I
    BY <1>3, <2>1
  <2>3. last \in 1..n
    BY <2>2
  <2>4. table[last].sym # "" /\ table[last].id = id
    BY <2>2
  <2>5. last # 0
    BY <1>1, <2>3
  <2> QED
    BY <1>1, <2>1, <2>3, <2>4, <2>5
<1>5. table[last].sym = Symbol(table, id)
  <2> HIDE DEF last
  <2> QED
    BY <1>4, TheSymbol
<1>6. last # 0 => ById(table, id) = table[last].sym
  BY DEF ById, SelectLastInSeq
<1> QED
  BY <1>4, <1>5, <1>6

\* The library's, when the lines are in order.
LEMMA ByLineFindsTheSymbol ==
    ASSUME NEW table \in Lines, NEW id, Cardinality(Symbols(table, id)) = 1,
           Numbered(table)
    PROVE  ByLine(table, id) = Symbol(table, id)
<1> DEFINE n == Len(table)
           earlier(k) == {j \in 1..(k - 1) : table[j].sym # ""}
           places == {k \in DOMAIN table : table[k].sym # "" /\ Cardinality(earlier(k)) = id}
<1>1. n \in Nat /\ DOMAIN table = 1..n
  BY DEF Lines
<1>2. \A k \in 1..n : table[k].id = k - 1 /\ table[k].sym # "" /\ table[k].sym # "space"
  BY <1>1 DEF Numbered
<1>3. ASSUME NEW k \in 1..n PROVE Cardinality(earlier(k)) = k - 1
  <2>1. \A j \in 1..(k - 1) : j \in 1..n
    BY <1>1
  <2>2. earlier(k) = 1..(k - 1)
    BY <1>2, <2>1
  <2>3. Cardinality(1..(k - 1)) = k - 1
    BY <1>1, FS_Interval
  <2> QED
    BY <2>2, <2>3
<1> HIDE DEF earlier
<1>4. PICK k \in 1..n : table[k].id = id /\ table[k].sym = Symbol(table, id)
  <2>1. PICK j \in DOMAIN table : table[j].sym # "" /\ table[j].id = id
    BY TheSymbol
  <2>2. table[j].sym = Symbol(table, id)
    BY <2>1, TheSymbol
  <2> QED
    BY <1>1, <2>1, <2>2
<1>5. id = k - 1
  BY <1>2, <1>4
<1>6. places = {k}
  <2>1. \A j \in 1..n : j - 1 = k - 1 <=> j = k
    BY <1>1
  <2> QED
    BY <1>1, <1>2, <1>3, <1>5, <2>1
<1>7. ByLine(table, id) =
          IF places = {} \/ (\E j \in places : table[j].sym = "space")
          THEN "" ELSE table[CHOOSE j \in places : TRUE].sym
  BY DEF ByLine, earlier
<1> HIDE DEF places
<1> QED
  BY <1>2, <1>4, <1>6, <1>7

-----------------------------------------------------------------------------
\* Both backends' texts.
LEMMA SessionHearsWhatWasSaid ==
    ASSUME NEW u, NEW table \in Lines, Complete(table, u),
           u.frames \in Nat, u.best \in Seq(Nat), Len(u.best) = Frames(u.frames)
    PROVE  SessionText(u, table) = SaidText(u, table)
<1> DEFINE ids == Said(u)
<1>1. Greedy(SessionFrames(u)) = ids
  BY PaddingIsCutOff, GreedyReadsRuns
<1>2. ASSUME NEW i \in DOMAIN ids PROVE ById(table, ids[i]) = Symbol(table, ids[i])
  <2>1. Cardinality(Symbols(table, ids[i])) = 1
    BY DEF Complete, Range
  <2> QED
    BY <2>1, ByIdFindsTheSymbol
<1> HIDE DEF ids
<1>3. [i \in DOMAIN ids |-> Visible(ById(table, ids[i]))]
      = [i \in DOMAIN ids |-> Visible(Symbol(table, ids[i]))]
  BY <1>2
<1> QED
  BY <1>1, <1>3 DEF SessionText, SaidText, ids

LEMMA LibraryHearsWhatWasSaid ==
    ASSUME NEW u, NEW table \in Lines, Complete(table, u), Numbered(table),
           u.frames \in Nat, u.best \in Seq(Nat), Len(u.best) = Frames(u.frames),
           Frames(u.frames) <= StaticOut
    PROVE  LibraryText(u, table) = SaidText(u, table)
<1> DEFINE ids == Said(u)
<1>1. Greedy(LibraryFrames(u)) = ids
  BY PaddingIsCutOff, GreedyReadsRuns
<1>2. ASSUME NEW i \in DOMAIN ids PROVE ByLine(table, ids[i]) = Symbol(table, ids[i])
  <2>1. Cardinality(Symbols(table, ids[i])) = 1
    BY DEF Complete, Range
  <2> QED
    BY <2>1, ByLineFindsTheSymbol
<1> HIDE DEF ids
<1>3. [i \in DOMAIN ids |-> Visible(ByLine(table, ids[i]))]
      = [i \in DOMAIN ids |-> Visible(Symbol(table, ids[i]))]
  BY <1>2
<1> QED
  BY <1>1, <1>3 DEF LibraryText, SaidText, ids
-----------------------------------------------------------------------------
(* The online recognizer *)

\* Decoding never takes more than there is; often enough, it leaves less than
\* one step.
LEMMA DrainedFacts ==
    ASSUME NEW n \in Nat, NEW times \in Nat
    PROVE  /\ Drained(n, times) \in 0..n
           /\ n < (times + 1) * Step => Drained(n, times) < Step
<1> DEFINE q == n \div Step
           m == Min({times, q})
<1>1. Step \in Nat \ {0}
  BY RecognitionAssumption
<1>2. q \in Nat /\ Step * q <= n /\ n < Step * q + Step
  BY <1>1, QuotientFacts
<1>3. Drained(n, times) = n - Step * m
  BY DEF Drained
<1> HIDE DEF q
<1>4. m \in {times, q} /\ m <= times /\ m <= q
  <2>1. \E x \in {times, q} : \A y \in {times, q} : x <= y
    BY <1>2
  <2>2. m \in {times, q} /\ \A y \in {times, q} : m <= y
    BY <2>1 DEF Min
  <2> QED
    BY <2>2
<1> HIDE DEF m
<1>5. PICK e \in Nat : q = m + e
  BY <1>2, <1>4
<1>6. m \in Nat /\ Step * m \in Nat /\ Step * e \in Nat /\ Step * q = Step * m + Step * e
  BY <1>1, <1>2, <1>4, <1>5
<1>7. Step * m <= n
  BY <1>2, <1>6
<1>8. ASSUME n < (times + 1) * Step PROVE m = q
  <2>1. CASE q <= times
    BY <1>2, <1>4, <2>1
  <2>2. CASE ~(q <= times)
    <3>1. PICK d \in Nat : q = times + 1 + d
      BY <1>2, <2>2
    <3>2. Step * q = (times + 1) * Step + Step * d /\ Step * d \in Nat
      BY <1>1, <3>1
    <3>3. (times + 1) * Step \in Nat
      BY <1>1
    <3> QED
      BY <1>2, <1>8, <3>2, <3>3
  <2> QED
    BY <2>1, <2>2
<1> QED
  BY <1>1, <1>2, <1>3, <1>6, <1>7, <1>8

\* However the audio is cut, less than one step of it is left in the end.
LEMMA OnlineLeavesLessThanAStep ==
    ASSUME NEW n \in Nat
    PROVE  \E w \in 0..(Step - 1) : OnlineDecoded(n) = n - w
<1> DEFINE A == 0..(Step - 1)
           chunks == [i \in 1..(n \div ChunkFrames) |-> ChunkFrames]
           s == Append(chunks, n % ChunkFrames)
           c == Len(s)
           op == [p \in A \X (1..c) |-> Drained(p[1] + s[p[2]], PerChunk)]
           Iterates(iter) ==
               iter = [r \in SUBSET (1..c) |->
                          IF r = {} THEN 0
                          ELSE Drained(iter[r \ {Max(r)}] + s[Max(r)], PerChunk)]
           fold == CHOOSE iter : Iterates(iter)
<1>1. /\ {Step, ChunkFrames, PerChunk, AtEnd} \subseteq Nat \ {0}
      /\ PerChunk * Step >= ChunkFrames
  BY RecognitionAssumption
<1>2. n \div ChunkFrames \in Nat /\ n % ChunkFrames \in 0..ChunkFrames
  BY <1>1
<1>3. chunks \in Seq(0..ChunkFrames)
  BY <1>1, <1>2
<1> HIDE DEF chunks
<1>4. c \in Nat /\ DOMAIN s = 1..c /\ \A k \in 1..c : s[k] \in 0..ChunkFrames
  <2> DEFINE D == 0..ChunkFrames
  <2>1. s \in Seq(D)
    BY <1>2, <1>3
  <2> HIDE DEF s, D
  <2>2. Len(s) \in Nat /\ DOMAIN s = 1..Len(s) /\ \A k \in 1..Len(s) : s[k] \in D
    BY <2>1, RangeFacts
  <2> QED
    BY <2>2 DEF D
<1>5. OnlineDecoded(n) = n - Drained(fold[1..c], AtEnd)
  <2>1. OnlineDecoded(n) =
           n - Drained((CHOOSE iter : iter = [r \in SUBSET DOMAIN s |->
                          IF r = {} THEN 0
                          ELSE Drained(iter[r \ {Max(r)}] + s[Max(r)], PerChunk)])[DOMAIN s], AtEnd)
    BY DEF OnlineDecoded, FoldLeft, MapThenFoldSet, chunks
  <2> QED
    BY <1>4, <2>1
<1> HIDE DEF s, c
<1>6. 0 \in A
  BY <1>1
<1>7. ASSUME NEW w \in A, NEW k \in 1..c PROVE Drained(w + s[k], PerChunk) \in A
  <2>1. s[k] \in 0..ChunkFrames
    BY <1>4
  <2>2. w + s[k] \in Nat /\ w + s[k] <= Step - 1 + PerChunk * Step
    BY <1>1, <2>1
  <2>3. (PerChunk + 1) * Step = PerChunk * Step + Step /\ PerChunk * Step \in Nat
    BY <1>1
  <2>4. w + s[k] < (PerChunk + 1) * Step
    BY <1>1, <2>2, <2>3
  <2>5. Drained(w + s[k], PerChunk) \in 0..(w + s[k]) /\ Drained(w + s[k], PerChunk) < Step
    BY <1>1, <2>2, <2>4, DrainedFacts
  <2> QED
    BY <1>1, <2>2, <2>5
<1>8. op \in [A \X (1..c) -> A]
  BY <1>7
<1>9. \A w \in A, k \in 1..c : op[<<w, k>>] = Drained(w + s[k], PerChunk)
  OBVIOUS
<1> HIDE DEF op, A
<1>10. PICK g \in [SUBSET (1..c) -> A] : Folded(g, 0, op, c)
  BY <1>4, <1>6, <1>8, FoldExists
<1>11. ASSUME NEW r \in SUBSET (1..c), r # {}
       PROVE  Max(r) \in 1..c /\ r \ {Max(r)} \in SUBSET (1..c)
  BY <1>4, <1>11, GreatestIndex
<1>12. ASSUME NEW r \in SUBSET (1..c)
       PROVE  g[r] = IF r = {} THEN 0 ELSE Drained(g[r \ {Max(r)}] + s[Max(r)], PerChunk)
  <2>1. g[r] = IF r = {} THEN 0 ELSE op[<<g[r \ {Max(r)}], Max(r)>>]
    BY <1>10 DEF Folded
  <2> QED
    BY <1>9, <1>10, <1>11, <2>1
<1>13. Iterates(g)
  <2>1. g = [r \in SUBSET (1..c) |-> g[r]]
    BY <1>10
  <2> QED
    BY <1>12, <2>1
<1>14. Iterates(fold)
  <2> HIDE DEF Iterates
  <2> QED
    BY <1>13
<1> HIDE DEF fold
<1>15. fold[{}] = 0
  <2>1. {} \in SUBSET (1..c)
    OBVIOUS
  <2> QED
    BY <1>14, <2>1
<1>16. \A r \in SUBSET (1..c) : r # {} /\ fold[r \ {Max(r)}] \in A =>
           fold[r] = op[<<fold[r \ {Max(r)}], Max(r)>>]
  <2> SUFFICES ASSUME NEW r \in SUBSET (1..c), r # {}, fold[r \ {Max(r)}] \in A
               PROVE  fold[r] = op[<<fold[r \ {Max(r)}], Max(r)>>]
    OBVIOUS
  <2>1. fold[r] = Drained(fold[r \ {Max(r)}] + s[Max(r)], PerChunk)
    BY <1>14
  <2> QED
    BY <1>9, <1>11, <2>1
<1>17. FoldsIn(A, fold, 0, op, c)
  BY <1>4, <1>6, <1>8, <1>15, <1>16 DEF FoldsIn
<1> HIDE DEF Iterates
<1>18. PICK acc : Computes(acc, A, fold, 0, op, c)
  BY <1>17, FoldLoop
<1>19. fold[1..c] \in A
  <2>1. acc \in [0..c -> A] /\ acc[c] = fold[1..c] /\ c \in 0..c
    BY <1>4, <1>18 DEF Computes
  <2> QED
    BY <2>1
<1> DEFINE w == fold[1..c]
<1>20. w \in Nat /\ w < Step
  BY <1>1, <1>19 DEF A
<1> HIDE DEF w
<1>21. Drained(w, AtEnd) \in 0..w
  BY <1>1, <1>20, DrainedFacts
<1>22. Drained(w, AtEnd) \in 0..(Step - 1)
  BY <1>1, <1>20, <1>21
<1> QED
  BY <1>5, <1>22 DEF w

-----------------------------------------------------------------------------
(* What recognize returns *)

\* A text is what the backend makes of the utterance, and a backend that has
\* given one is not replaced.
TextInv ==
    /\ backend \in FireRed => lines \in TokenFiles
    /\ text.success =>
          /\ heard \in Utterances
          /\ session.phase \in {"open", "closing", "closed"}
          /\ backend = "session" => text.text = SessionText(heard, lines)
          /\ backend = "library" => text.text = LibraryText(heard, lines)
          /\ backend = "online" => text.text = Marks(OnlineDecoded(heard.frames))

LEMMA TextInit == Init => TextInv
BY DEF Init, TextInv, Failure

LEMMA TextStep ==
    ASSUME RecognitionInv, TextInv, [Next]_vars
    PROVE  TextInv'
<1>1. CASE OpenOrClose
  <2>1. UNCHANGED <<backend, lines, heard, text>> /\ SessionNext(backend)
    BY <1>1 DEF OpenOrClose
  <2>2. ASSUME session.phase \in {"open", "closing", "closed"}
        PROVE  session'.phase \in {"open", "closing", "closed"}
    <3>1. CASE Close
      BY <3>1 DEF Close
    <3>2. CASE Release(backend)
      <4>1. session \in [phase : Phases, at : Nat \ {0}, held : SUBSET Resources,
                         canFree : BOOLEAN]
        BY DEF RecognitionInv, SessionInv
      <4> QED
        BY <2>2, <3>2, <4>1 DEF Release, After
    <3>3. ~Acquire(backend) /\ ~Fail(backend) /\ ~Opened(backend) /\ ~Discard
      BY <2>2 DEF Acquire, Fail, Opened, Discard
    <3> QED
      BY <2>1, <3>1, <3>2, <3>3 DEF SessionNext
  <2> QED
    BY <2>1, <2>2 DEF TextInv
<1>2. CASE FallBack
  <2>1. /\ session.phase = "discarded" /\ UNCHANGED <<lines, heard, text>>
        /\ \/ backend = "library" /\ backend' = "session"
           \/ backend = "qwen3" /\ backend' = "qwen3_cpu"
    BY <1>2 DEF FallBack
  <2> QED
    BY <2>1 DEF TextInv, FireRed
<1>3. CASE Qwen3Recognize
  BY <1>3 DEF Qwen3Recognize, TextInv
<1>4. ASSUME NEW u \in Utterances, NEW answer, Returns(u, answer),
             backend = "session" => answer \in {Failure, Answer(SessionText(u, lines))},
             backend = "library" => answer \in {Failure, Answer(LibraryText(u, lines))},
             backend = "online" => answer \in {Failure, Answer(Marks(OnlineDecoded(u.frames)))}
      PROVE  TextInv'
  <2>1. /\ UNCHANGED <<backend, lines, session>> /\ session.phase = "open"
        /\ heard' = u /\ text' \in {answer, Failure} /\ ~Failure.success
    BY <1>4 DEF Returns, Failure
  <2> HIDE DEF Failure
  <2> QED
    BY <1>4, <2>1 DEF TextInv, Answer
<1>5. ASSUME NEW u \in Utterances, FireRedRecognize(u) PROVE TextInv'
  <2> DEFINE answer == CASE u.frames = 0 -> Failure
                         [] u.frames > 0 /\ backend = "session" -> Answer(SessionText(u, lines))
                         [] u.frames > 0 /\ backend = "library" -> Answer(LibraryText(u, lines))
  <2>1. backend \in {"session", "library"} /\ Returns(u, answer)
    BY <1>5 DEF FireRedRecognize, FireRed
  <2>2. u.frames = 0 \/ u.frames > 0
    BY RecognitionAssumption
  <2>3. /\ backend = "session" => answer \in {Failure, Answer(SessionText(u, lines))}
        /\ backend = "library" => answer \in {Failure, Answer(LibraryText(u, lines))}
    BY <2>2
  <2> HIDE DEF answer
  <2> QED
    BY <1>4, <2>1, <2>3
<1>6. ASSUME NEW u \in Utterances, OfflineRecognize(u) \/ CpuRecognize(u) PROVE TextInv'
  <2>1. backend \notin {"session", "library", "online"} /\ Returns(u, Answer(Marks(u.frames)))
    BY <1>6 DEF OfflineRecognize, CpuRecognize, Offline, Cpu
  <2> QED
    BY <1>4, <2>1
<1>7. ASSUME NEW u \in Utterances, OnlineRecognize(u) PROVE TextInv'
  <2>1. backend = "online" /\ Returns(u, Answer(Marks(OnlineDecoded(u.frames))))
    BY <1>7 DEF OnlineRecognize
  <2> QED
    BY <1>4, <2>1
<1>8. CASE UNCHANGED vars
  BY <1>8 DEF vars, TextInv
<1> QED
  BY <1>1, <1>2, <1>3, <1>5, <1>6, <1>7, <1>8 DEF Next

\* Every frame of the utterance and nothing of the padding is in the text, one
\* symbol for each run of a token, for utterances of any length and any
\* tokens.txt with one line for each token; the library needs the lines in order
\* and an utterance that fits its input.  The online recognizer leaves less than
\* one step.
THEOREM RecognitionTextIsWhatWasHeard == Spec => []TextIsWhatWasHeard
<1>1. TextInv => TextIsWhatWasHeard
  <2> SUFFICES ASSUME TextInv, text.success PROVE
          /\ backend = "session" /\ Complete(lines, heard) => text.text = SaidText(heard, lines)
          /\ backend = "library" /\ Complete(lines, heard) /\ Numbered(lines)
               /\ Frames(heard.frames) <= StaticOut => text.text = SaidText(heard, lines)
          /\ backend = "online" => heard.frames - Len(text.text) < Step
    BY DEF TextIsWhatWasHeard
  <2>1. /\ heard.frames \in Nat /\ heard.best \in Seq(Nat)
        /\ Len(heard.best) = Frames(heard.frames)
    BY RecognitionAssumption DEF TextInv
  <2>2. backend \in {"session", "library"} => lines \in Lines
    BY RecognitionAssumption DEF TextInv, FireRed, Lines
  <2>3. ASSUME backend = "session", Complete(lines, heard)
        PROVE  text.text = SaidText(heard, lines)
    BY <2>1, <2>2, <2>3, SessionHearsWhatWasSaid DEF TextInv
  <2>4. ASSUME backend = "library", Complete(lines, heard), Numbered(lines),
               Frames(heard.frames) <= StaticOut
        PROVE  text.text = SaidText(heard, lines)
    BY <2>1, <2>2, <2>4, LibraryHearsWhatWasSaid DEF TextInv
  <2>5. ASSUME backend = "online" PROVE heard.frames - Len(text.text) < Step
    <3> DEFINE n == heard.frames
    <3>1. PICK w \in 0..(Step - 1) : OnlineDecoded(n) = n - w
      BY <2>1, OnlineLeavesLessThanAStep
    <3>2. text.text = Marks(n - w)
      BY <2>5, <3>1 DEF TextInv
    <3>3. n \in Nat /\ w \in Int /\ w < Step /\ Step \in Nat
      BY <2>1, <3>1, RecognitionAssumption
    <3> HIDE DEF n
    <3>4. CASE n - w >= 0
      <4>1. Marks(n - w) \in Seq({"frame"}) /\ Len(Marks(n - w)) = n - w
        BY <3>3, <3>4 DEF Marks
      <4> QED
        BY <3>2, <3>3, <4>1 DEF n
    <3>5. CASE n - w < 0
      <4>1. 1..(n - w) = {}
        BY <3>3, <3>5
      <4>2. Marks(n - w) = <<>>
        BY <4>1 DEF Marks
      <4>3. Len(Marks(n - w)) = 0
        BY <4>2
      <4> QED
        BY <3>2, <3>3, <3>5, <4>3 DEF n
    <3> QED
      BY <3>3, <3>4, <3>5
  <2> QED
    BY <2>3, <2>4, <2>5
<1> QED
  BY <1>1, TextInit, TextStep, RecognitionInvariance, PTL DEF Spec

=============================================================================
