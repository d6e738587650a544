------------------------------- MODULE MCVadClock -------------------------------
(* A float of 24 bits, with the duration of a frame as the program computes *)
(* it: 160.0f/16000 = 10737418 / 2^30.                                      *)
EXTENDS VadClock
=============================================================================
