---------------------------- MODULE MCMuxReorder ----------------------------
(* Model-checking instances of MuxReorder. *)
EXTENDS MuxReorder, TLC

(* No action tells one sid from another. *)
SidSymmetry == Permutations(Sids)
=============================================================================
