------------------------------ MODULE MCSrtConn ------------------------------
(* SrtConn for TLC.                                                        *)
EXTENDS SrtConn, TLC

CloserSymmetry == Permutations(Closers)
=============================================================================
