--------------------------- MODULE MCEngineLifecycle ---------------------------
(* Two model packs, two things to say, a cache of one. *)
EXTENDS EngineLifecycle

Symmetry == Permutations(Audio)

=============================================================================
