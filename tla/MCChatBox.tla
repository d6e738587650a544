---- MODULE MCChatBox ----
(* The ChatBox side with two texts; formatter and queue remember one, so that
   a text can be forgotten and come again. *)
EXTENDS ChatBox

CONSTANTS t1, t2

MCText == {t1, t2}
MCBatches == {<<t1>>, <<t2>>}
====
