------------------------------ MODULE MsgBuffer ------------------------------
(***************************************************************************)
(* What libsrt's receive buffer promises in message mode without TSBPD,    *)
(* the mode the tunnel uses (src/src/srt/connection.rs:686): packets       *)
(* arrive in any order, a message is read when all its packets are there,  *)
(* a message sent "in order" only when everything before it was read or    *)
(* dropped.  Positions are sequence numbers here; SrtRcvBuffer has the     *)
(* circular array of src/srt-1.5.6/srtcore/buffer_rcv.cpp and implements   *)
(* this module.  SrtReliable uses it as the receiver's buffer.             *)
(***************************************************************************)
EXTENDS Integers, FiniteSets, FiniteSetsExt

CONSTANTS
  NPkts,   \* packets that may be sent; sequence numbers count from 0
  MsgOf,   \* the message number of each packet
  Capacity, \* capacity(): m_szSize - 1
  Mixes     \* the sets of messages that may be the ones sent with inorder = 0

Seqs == 0 .. (NPkts - 1)

ASSUME BufferAssumption ==
  /\ NPkts \in Nat \ {0}
  /\ Capacity \in Nat \ {0}
  /\ MsgOf \in [Seqs -> Nat \ {0}]
  /\ \A s, t \in Seqs : s <= t => MsgOf[s] <= MsgOf[t]
  /\ \A mix \in Mixes : \A m \in mix : \E s \in Seqs : MsgOf[s] = m

VARIABLES
  start,  \* m_iStartSeqNo
  held,   \* packets stored (EntryState_Avail)
  readAt, \* packets read out of order (EntryState_Read)
  dropAt, \* packets dropped (EntryState_Drop)
  non,    \* sequence number of m_iFirstNonreadPos
  dgram   \* messages sent with inorder = 0; set once

bufVars == <<start, held, readAt, dropAt, non, dgram>>

Msgs == {MsgOf[s] : s \in Seqs}
Pkts(m) == {s \in Seqs : MsgOf[s] = m}

(* Boundary flags of a packet: PB_FIRST, PB_LAST, PB_SOLO is both. *)
IsFirst(s) == s = 0 \/ MsgOf[s - 1] # MsgOf[s]
IsLast(s) == s = NPkts - 1 \/ MsgOf[s + 1] # MsgOf[s]
Solo(s) == IsFirst(s) /\ IsLast(s)

BufInit ==
  /\ start = 0
  /\ held = {} /\ readAt = {} /\ dropAt = {}
  /\ non = 0
  /\ dgram \in Mixes

(* releaseNextFillerEntries: the first position from s on that is neither  *)
(* read nor dropped.                                                       *)
PastFillers(s, fillers) == Min({t \in s .. NPkts : t \notin fillers})

(* updateNonreadPos: from n over as many whole messages as are stored. *)
Extended(n, stored) ==
  Max({e \in n .. NPkts :
         \/ e = n
         \/ n .. (e - 1) \subseteq stored /\ IsFirst(n) /\ IsLast(e - 1)})

Complete(m) == Pkts(m) \subseteq held
InOrderReady == non # start
(* isRcvDataReady *)
Ready == InOrderReady \/ \E m \in dgram : Complete(m)

Fits(s) == start <= s /\ s < start + Capacity

(* insert, of a packet it accepts. *)
Store(s) ==
  /\ Fits(s)
  /\ s \notin held \cup readAt \cup dropAt
  /\ held' = held \cup {s}
  /\ non' = Extended(non, held')
  /\ UNCHANGED <<start, readAt, dropAt, dgram>>

(* The buffer after messages were taken out: fillers at the front go, and  *)
(* the nonread position is pulled along, but not moved over what is next.  *)
Released(from, fillers) ==
  /\ start' = PastFillers(from, fillers)
  /\ non' = IF non < start' THEN start' ELSE non

ReadInOrder(m) ==
  /\ InOrderReady
  /\ m = MsgOf[start]
  /\ held' = held \ Pkts(m)
  /\ Released(Max(Pkts(m)) + 1, readAt \cup dropAt)
  /\ readAt' = {s \in readAt : s >= start'}
  /\ dropAt' = {s \in dropAt : s >= start'}
  /\ UNCHANGED dgram

ReadOutOfOrder(m) ==
  /\ ~InOrderReady
  /\ m \in dgram /\ Complete(m)
  /\ held' = held \ Pkts(m)
  /\ Released(start, readAt \cup dropAt \cup Pkts(m))
  /\ readAt' = {s \in readAt \cup Pkts(m) : s >= start'}
  /\ dropAt' = {s \in dropAt : s >= start'}
  /\ UNCHANGED dgram

(* readMessage *)
Read(m) == ReadInOrder(m) \/ ReadOutOfOrder(m)

(* dropMessage(lo, hi, m, KEEP_EXISTING), m = 0 for no message number: the *)
(* positions lo to hi except whole one-packet messages, and what is stored *)
(* of message m before lo.                                                 *)
KeepNothing(s) == FALSE
Kept(s) == s \in held /\ Solo(s)
ToDrop(lo, hi, m) ==
  IF hi < start \/ lo > start + Capacity THEN {}
  ELSE {s \in lo .. hi : Fits(s) /\ ~Kept(s) /\ s \notin dropAt}
         \cup {s \in held : MsgOf[s] = m /\ s < lo /\ ~Kept(s)}

Drop(lo, hi, m) ==
  LET gone == ToDrop(lo, hi, m)
      fillers == readAt \cup dropAt \cup gone
      first == PastFillers(start, fillers)
  IN  /\ held' = held \ gone
      /\ start' = first
      /\ readAt' = {s \in readAt \ gone : s >= first}
      /\ dropAt' = {s \in dropAt \cup gone : s >= first}
      /\ non' = IF gone # {} /\ Min(gone) <= non THEN Extended(first, held') ELSE non
      /\ UNCHANGED dgram

(* The environment of a buffer: packets and drop requests in any order.    *)
(* The sender drops messages that had a time to live, so datagrams, from   *)
(* the packet it was asked for on (SrtReliable), and by sequence number    *)
(* alone what it no longer has.                                            *)
BufNext ==
  \/ \E s \in Seqs : Store(s)
  \/ \E m \in Msgs : Read(m)
  \/ \E m \in dgram : \E lo \in Pkts(m) : Drop(lo, Max(Pkts(m)), m)
  \/ \E s \in Seqs : Drop(s, s, 0)

BufSpec == BufInit /\ [][BufNext]_bufVars
=============================================================================
