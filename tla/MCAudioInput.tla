----------------------------- MODULE MCAudioInput -----------------------------
(* One device besides the default one, two tasks. *)
EXTENDS AudioInput, TLC

===============================================================================
