------------------------------ MODULE CtcDecoding ------------------------------
(***************************************************************************)
(* What the two FireRed backends make of an utterance: the ONNX session    *)
(* (firered_ctc_qnn_backend.cpp) and the vendor's library                  *)
(* (fire_red_qnn_model_lib_backend.cpp).  Both decode greedily; they pad   *)
(* the features differently and read tokens.txt in different ways.         *)
(*                                                                         *)
(* An utterance is the number of its feature frames and, for every frame   *)
(* of the output, the token with the largest probability; where padding    *)
(* was recognised this is noise.  A line of tokens.txt is a symbol with    *)
(* its number; the symbol "" stands for an empty line, "space" for a line  *)
(* of which only the number can be seen.  A symbol may begin with the      *)
(* marker of a word's boundary.                                            *)
(***************************************************************************)
EXTENDS Integers, SequencesExt

CONSTANTS Stride,       \* feature frames for one frame of the output
          Bucket,       \* the session's input is a multiple of this
          StaticFrames, \* kStaticFrames, the library's input
          StaticOut,    \* frames of the library's output
          Noise         \* the token that padding gives

ASSUME CtcAssumption ==
    /\ {Stride, Bucket, StaticFrames, StaticOut} \subseteq Nat \ {0}
    /\ StaticOut * Stride <= StaticFrames
    /\ Noise \in Nat

Frames(n) == (n + Stride - 1) \div Stride

-----------------------------------------------------------------------------
(* The graphs (external): the token of each of the frames they give. *)
Output(u, given) == [t \in 1..given |-> IF t <= Len(u.best) THEN u.best[t] ELSE Noise]

(* The session pads to a multiple of its bucket. *)
Padded(n) == ((n + Bucket - 1) \div Bucket) * Bucket

(* Mutant: the frames of the padding are decoded, too. *)
SessionDecodesPadding(u) == Output(u, Frames(Padded(u.frames)))

(* The session's frames, as many as it says are valid. *)
SessionFrames(u) ==
    SubSeq(Output(u, Frames(Padded(u.frames))), 1, Frames(u.frames))

(* The library's: what is longer than its input is cut off. *)
LibraryFrames(u) ==
    SubSeq(Output(u, StaticOut), 1, Min({StaticOut, Frames(u.frames)}))

(* Greedy decoding: blanks (0) are dropped, repetitions are one token. *)
Greedy(best) ==
    LET Read(acc, b) ==
          [prev |-> b,
           ids |-> IF b # 0 /\ b # acc.prev THEN Append(acc.ids, b) ELSE acc.ids]
    IN  FoldLeft(Read, [prev |-> -1, ids |-> <<>>], best).ids

-----------------------------------------------------------------------------
(* tokens.txt *)

(* TokenTable::load and at: by number, the last line counts; gaps are "<err>". *)
ById(lines, id) ==
    LET last == SelectLastInSeq(lines, LAMBDA l : l.sym # "" /\ l.id = id)
    IN  CASE last # 0 -> lines[last].sym
          [] last = 0 /\ \E l \in Range(lines) : l.sym # "" /\ l.id > id -> "<err>"
          [] OTHER -> "<oob>"

(* FireRedQnnModelLibBackend::init: by the order of the lines. *)
ByLine(lines, id) ==
    LET Earlier(k) == {j \in 1..(k - 1) : lines[j].sym # ""}
        places == {k \in DOMAIN lines : lines[k].sym # "" /\ Cardinality(Earlier(k)) = id}
    IN  IF places = {} \/ (\E k \in places : lines[k].sym = "space")
        THEN "" ELSE lines[CHOOSE k \in places : TRUE].sym

(* What a symbol adds to the text; the marker is taken off. *)
Visible(sym) ==
    CASE sym \in {"", "<blank>", "_"} -> <<>>
      [] sym = "_a" -> <<"a">>
      [] OTHER -> <<sym>>

SessionText(u, lines) ==
    LET ids == Greedy(SessionFrames(u))
    IN  FlattenSeq([i \in DOMAIN ids |-> Visible(ById(lines, ids[i]))])

LibraryText(u, lines) ==
    LET ids == Greedy(LibraryFrames(u))
    IN  FlattenSeq([i \in DOMAIN ids |-> Visible(ByLine(lines, ids[i]))])

-----------------------------------------------------------------------------
(* For reference: the runs of equal tokens in what was said. *)
Said(u) ==
    LET starts == {i \in DOMAIN u.best :
                     u.best[i] # 0 /\ (i = 1 \/ u.best[i - 1] # u.best[i])}
        Number(i) == Cardinality({j \in starts : j <= i})
    IN  [k \in 1..Cardinality(starts) |->
            u.best[CHOOSE i \in starts : Number(i) = k]]

(* The file numbers its lines, and every number has a symbol to be seen. *)
Numbered(lines) ==
    \A k \in DOMAIN lines : lines[k].id = k - 1 /\ lines[k].sym \notin {"", "space"}

(* Every token has one line, in whatever order. *)
Symbols(lines, id) == {l \in Range(lines) : l.id = id /\ l.sym # ""}
Complete(lines, u) == \A id \in Range(Said(u)) : Cardinality(Symbols(lines, id)) = 1
Symbol(lines, id) == (CHOOSE l \in Symbols(lines, id) : TRUE).sym

SaidText(u, lines) ==
    LET ids == Said(u)
    IN  FlattenSeq([i \in DOMAIN ids |-> Visible(Symbol(lines, ids[i]))])
=============================================================================
