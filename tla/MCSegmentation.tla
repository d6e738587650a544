----------------------------- MODULE MCSegmentation -----------------------------
(* Instances of Segmentation for TLC. *)
EXTENDS Segmentation

AllModes == {"live", "simulate", "file"}
=============================================================================
