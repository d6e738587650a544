---- MODULE MCPhoneServer ----
(* Three connections and two segments, numbered by one PC process. *)
EXTENDS PhoneServer

MCWireId == [s \in 1..MaxSegments |-> s]
====
