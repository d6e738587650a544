---- MODULE MCRecognition ----
(* Small instance: two tokens of the pack, utterances of up to four frames  *)
(* of output, the library's input two frames of output shorter, and a       *)
(* decoder with a window of three tokens and a cache of eight positions.    *)
EXTENDS Recognition

MCUtterances ==
    UNION {{[frames |-> n, best |-> b] : b \in [1..Frames(n) -> {0, 1, 2}]} :
             n \in {0, 1, 4, 5, 9, 16}}
      \cup {[frames |-> n, best |-> [i \in 1..Frames(n) |-> 1]] : n \in {20, 40, 60}}

Ln(sym, id) == [sym |-> sym, id |-> id]
MCTokenFiles == {
    <<Ln("<blank>", 0), Ln("_a", 1), Ln("b", 2)>>,
    <<Ln("b", 2), Ln("<blank>", 0), Ln("_a", 1)>>,
    <<Ln("<blank>", 0), Ln("", 0), Ln("_", 1), Ln("space", 2)>>,
    <<Ln("<blank>", 0), Ln("b", 2), Ln("_a", 2)>>}
====
