---------------------------- MODULE MCAuthWindow -----------------------------
(* AuthWindow for TLC.                                                     *)
EXTENDS AuthWindow, TLC

SidSymmetry == Permutations(Sids)
=============================================================================
