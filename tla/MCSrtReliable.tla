---------------------------- MODULE MCSrtReliable ----------------------------
(* SrtReliable for TLC: a tunnel frame is one packet, MAX_FRAME is 1316.   *)
EXTENDS SrtReliable

MCMsgOf == [s \in 0 .. (NPkts - 1) |-> s + 1]
ReliableOnly == {{}}
Mixed == {{2}}

(* A packet whose arrival changes nothing any more, now or later.  (The    *)
(* ACKACK that an old ACK may still draw names a number that no decision   *)
(* of the receiver depends on.)                                            *)
Spent(p) ==
  \/ p.type = "DATA" /\ (Belated(p.seq) \/ (p.seq <= rcvCurr /\ p.seq \in held \cup readAt \cup dropAt))
  \/ p.type = "ACKACK" /\ p.ack <= rcvLastAckAck
  \/ p.type = "DROPREQ" /\ p.hi < start
  \/ p.type = "ACK" /\ p.ack < lastAck
  \/ p.type = "LITE" /\ p.ack <= lastAck

(* Such packets arrive at once, unless they are lost: which steps they     *)
(* would come between makes no difference to the rest of the state.        *)
SpentArrive ==
  /\ \E p \in net : Spent(p)
  /\ net' = {p \in net : ~Spent(p)}
  /\ UNCHANGED <<bufVars, sndVars, faults, early, rcvVars, wkVars, appVars>>

PromptNext ==
  \/ SpentArrive
  \/ Losses
  \/ Next /\ \A p \in net : ~Spent(p)

PromptSpec ==
  Init /\ [][PromptNext]_vars /\ ThreadsRun /\ SF_vars(RecvPackets \/ SpentArrive)
=============================================================================
