---- MODULE MCChatBoxQueue ----
(* The queue with three texts, a memory of two and a short clock. *)
EXTENDS ChatBoxQueue

CONSTANTS t1, t2, t3

MCText == {t1, t2, t3}
\* A text alone, with a repetition, with an empty chunk, and two texts.
MCBatches == {<<t1>>, <<t2, t2>>, <<Blank, t3>>, <<t1, t2>>}
====
