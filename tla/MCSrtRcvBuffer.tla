--------------------------- MODULE MCSrtRcvBuffer ----------------------------
(* SrtRcvBuffer for TLC: messages of one, two, one, one and two packets in *)
(* a buffer of four.                                                       *)
EXTENDS SrtRcvBuffer

MCMsgOf == [s \in 0 .. (NPkts - 1) |-> CASE s = 0 -> 1 [] s \in {1, 2} -> 2 [] s = 3 -> 3
                                         [] s = 4 -> 4 [] OTHER -> 5]
MCMixes == SUBSET (1 .. 5)
=============================================================================
