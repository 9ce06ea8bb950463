----------------------------- MODULE SrtService ------------------------------
(***************************************************************************)
(* What one direction of an SRT connection promises the tunnel: messages   *)
(* are numbered as they are submitted; one is delivered at most once, a    *)
(* reliable one after every reliable one before it, and no message after a *)
(* later reliable one.  A datagram may be delivered early, or never.  This *)
(* is what MuxReorder assumes of its network (Arrivable), and SrtReliable  *)
(* implements it.                                                          *)
(***************************************************************************)
EXTENDS Integers, Sequences

CONSTANT NMsgs \* messages that may be submitted

VARIABLES
  submitted, \* number of messages submitted
  got,       \* the ones delivered, in the order of delivery
  unordered  \* the ones that are datagrams; set once

serviceVars == <<submitted, got, unordered>>

Numbers == 1 .. NMsgs
Reliable == Numbers \ unordered
Delivered == {got[i] : i \in DOMAIN got}

SvcInit ==
  /\ submitted = 0
  /\ got = <<>>
  /\ unordered \in SUBSET Numbers

SvcSubmit ==
  /\ submitted < NMsgs
  /\ submitted' = submitted + 1
  /\ UNCHANGED <<got, unordered>>

SvcDeliver(m) ==
  /\ m <= submitted
  /\ got' = Append(got, m) /\ m \notin Delivered
  /\ m \in Reliable => \A k \in Reliable : k < m => k \in Delivered
  /\ \A k \in Delivered \cap Reliable : k < m
  /\ UNCHANGED <<submitted, unordered>>

SvcNext == SvcSubmit \/ \E m \in Numbers : SvcDeliver(m)

SvcSpec == SvcInit /\ [][SvcNext]_serviceVars
=============================================================================
