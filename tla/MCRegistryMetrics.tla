------------------------ MODULE MCRegistryMetrics ----------------------------
(* RegistryMetrics for TLC.  Sessions are interchangeable. *)
EXTENDS RegistryMetrics, TLC

OwnerSymmetry == Permutations(Owners)
=============================================================================
