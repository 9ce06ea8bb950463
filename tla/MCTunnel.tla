------------------------------ MODULE MCTunnel -------------------------------
(* Tunnel for TLC.  Connections are interchangeable.                       *)
EXTENDS Tunnel, TLC

ConnSymmetry == Permutations(Owners)
=============================================================================
