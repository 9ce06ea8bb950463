----------------------------- MODULE SrtReliable -----------------------------
(***************************************************************************)
(* One direction of an established SRT connection as the tunnel uses it    *)
(* (SRTT_FILE, message API, no TSBPD, no periodic NAK): the sending        *)
(* CUDT (sendmsg2, CSndQueue::worker, ACK and loss-report handling, the    *)
(* retransmission timer) and the receiving one (packet reception, loss     *)
(* detection, the ACK timer, drop requests, receiveMessage), over a        *)
(* network that loses, duplicates and reorders.  The receive buffer is     *)
(* MsgBuffer.  Sequence numbers count from 0.                              *)
(*                                                                         *)
(* Threads: at the sender the application, CSndQueue::worker (sndPc) and   *)
(* CRcvQueue::worker (ACKs, NAKs, the timer: one at a time); at the        *)
(* receiver CRcvQueue::worker (wkPc: sendCtrlAck gives its lock up in the  *)
(* middle) and the application (appPc).  m_RecvAckLock guards the sender,  *)
(* m_RecvLock and m_RcvBufferLock the receiver.                            *)
(***************************************************************************)
EXTENDS MsgBuffer, Sequences

CONSTANTS
  SndCapacity, \* packets the send buffer takes
  MaxFaults,   \* packets the network may lose or deliver twice
  MaxLite,     \* lite ACKs: one for every 64 packets between two full ones
  MaxEarly,    \* times a timer fires before its answer could be lost
  MaxMishaps   \* these three together

ASSUME ReliableAssumption ==
  /\ SndCapacity \in Nat \ {0}
  /\ {MaxFaults, MaxLite, MaxEarly, MaxMishaps} \subseteq Nat

VARIABLES
  added,     \* m_iSndNextSeqNo: packets ever put into the send buffer
  next,      \* m_iSndCurrSeqNo + 1: packets ever sent or skipped
  lastAck,   \* m_iSndLastAck, and m_iSndLastDataAck, equal without TLPKTDROP
  flow,      \* m_iFlowWindowSize
  sndLoss,   \* m_pSndLossList
  expired,   \* messages whose time to live has passed
  sched,     \* the socket is in CSndUList
  sndPc,     \* CSndQueue::worker: "idle" | "extract" | "unique"
  rexmit,    \* the packet extractCleanRexmitPacket works on
  broken,    \* m_bBroken, set where the code says "attack or bug"
  net,       \* packets in flight
  faults,    \* packets lost or duplicated
  early,     \* timers that fired early
  rcvCurr,   \* m_iRcvCurrSeqNo
  rcvLoss,   \* m_pRcvLossList
  rcvLargest, \* its m_iLargestSeq when that is above m_iRcvCurrSeqNo, else -1
  rcvLastAck, rcvLastAckAck, bufferWasFull,
  lites,     \* lite ACKs sent
  wkPc,      \* CRcvQueue::worker in sendCtrlAck: "idle" | "wake" | "send"
  needAck,   \* bNeedFullAck of that call
  epIn,      \* SRT_EPOLL_IN of the socket
  appPc,     \* "wait" | "recv" | "check" | "clear" | "again"
  got        \* messages delivered, in that order

sndVars == <<added, next, lastAck, flow, sndLoss, expired, sched, sndPc, rexmit, broken>>
netVars == <<net, faults, early>>
rcvVars == <<rcvCurr, rcvLoss, rcvLargest, rcvLastAck, rcvLastAckAck, bufferWasFull>>
wkVars == <<wkPc, needAck, lites>>
appVars == <<epIn, appPc, got>>
vars == <<bufVars, sndVars, netVars, rcvVars, wkVars, appVars>>

Data(s) == [type |-> "DATA", seq |-> s]
Ack(a, left) == [type |-> "ACK", ack |-> a, left |-> left]
LiteAck(a) == [type |-> "LITE", ack |-> a]
AckAck(a) == [type |-> "ACKACK", ack |-> a]
Nak(lo, hi) == [type |-> "NAK", lo |-> lo, hi |-> hi]
DropReq(lo, hi, m) == [type |-> "DROPREQ", lo |-> lo, hi |-> hi, msg |-> m]

Init ==
  /\ BufInit
  /\ added = 0 /\ next = 0 /\ lastAck = 0 /\ flow = Capacity
  /\ sndLoss = {} /\ expired = {} /\ sched = FALSE
  /\ sndPc = "idle" /\ rexmit = 0 /\ broken = FALSE
  /\ net = {} /\ faults = 0 /\ early = 0
  /\ rcvCurr = -1 /\ rcvLoss = {} /\ rcvLargest = -1
  /\ rcvLastAck = 0 /\ rcvLastAckAck = 0 /\ bufferWasFull = FALSE
  /\ wkPc = "idle" /\ needAck = FALSE /\ lites = 0
  /\ epIn = FALSE /\ appPc = "wait" /\ got = <<>>

Mishap == faults + lites + early < MaxMishaps

(* The network.  A packet sent twice while on its way counts once. *)
Sends(ps) == net' = net \cup ps /\ UNCHANGED <<faults, early>>

Takes(p, replies) ==
  /\ p \in net
  /\ \/ net' = (net \ {p}) \cup replies /\ UNCHANGED faults
     \/ faults < MaxFaults /\ Mishap /\ faults' = faults + 1 /\ net' = net \cup replies
  /\ UNCHANGED early

Lose(p) ==
  /\ p \in net /\ faults < MaxFaults /\ Mishap
  /\ net' = net \ {p} /\ faults' = faults + 1
  /\ UNCHANGED <<bufVars, sndVars, early, rcvVars, wkVars, appVars>>

(* A timer that waits for an answer fires when none can come any more, or  *)
(* too early: the answer is on its way.                                    *)
TimerFires(onTheWay) ==
  /\ IF onTheWay THEN early < MaxEarly /\ Mishap /\ early' = early + 1 ELSE UNCHANGED early
  /\ UNCHANGED <<net, faults>>
-----------------------------------------------------------------------------
(* The sender.                                                             *)

RecvAckLockFree == sndPc # "extract"
FlightSpan == next - lastAck

(* CSndBuffer::addBuffer takes a message whole, one block for each packet. *)
AddBuffer(m) == added' = Max(Pkts(m)) + 1

(* sendmsg2: a message is put into the send buffer whole or not at all;    *)
(* then the socket is scheduled.                                           *)
Sendmsg2(m) ==
  /\ ~broken /\ RecvAckLockFree
  /\ added = Min(Pkts(m))
  /\ SndCapacity - (added - lastAck) >= Cardinality(Pkts(m))
  /\ AddBuffer(m)
  /\ sched' = TRUE
  /\ UNCHANGED <<bufVars, next, lastAck, flow, sndLoss, expired, sndPc, rexmit, broken,
                 netVars, rcvVars, wkVars, appVars>>

(* Time passes: a datagram still in the send buffer is past its msgttl. *)
Expire(m) ==
  /\ m \in dgram \ expired
  /\ \E s \in Pkts(m) : lastAck <= s /\ s < added
  /\ expired' = expired \cup {m}
  /\ UNCHANGED <<bufVars, added, next, lastAck, flow, sndLoss, sched, sndPc, rexmit, broken,
                 netVars, rcvVars, wkVars, appVars>>

(* getCleanRexmitOffset: the first packet reported lost. *)
CleanRexmit == Min(sndLoss)

(* CSndQueue::worker takes the socket from CSndUList and calls packData:   *)
(* packLostData when something is reported lost, else packUniqueData.      *)
Pop ==
  /\ sndPc = "idle" /\ sched
  /\ sched' = FALSE
  /\ IF broken THEN UNCHANGED <<sndPc, sndLoss, rexmit>>
     ELSE IF sndLoss = {} THEN sndPc' = "unique" /\ UNCHANGED <<sndLoss, rexmit>>
     ELSE /\ sndPc' = "extract"
          /\ rexmit' = CleanRexmit
          /\ sndLoss' = sndLoss \ {rexmit'}
  /\ UNCHANGED <<bufVars, added, next, lastAck, flow, expired, broken,
                 netVars, rcvVars, wkVars, appVars>>

(* One turn of the loop of extractCleanRexmitPacket, under m_RecvAckLock.  *)
(* An expired message is to be dropped by the peer, and "continue" goes    *)
(* back to the same packet.                                                *)
ExtractRexmit ==
  /\ sndPc = "extract" /\ MsgOf[rexmit] \notin expired
  /\ Sends({Data(rexmit)})
  /\ sndPc' = "idle" /\ sched' = TRUE /\ rexmit' = 0
  /\ UNCHANGED <<bufVars, added, next, lastAck, flow, sndLoss, expired, broken,
                 rcvVars, wkVars, appVars>>

ExtractDrop ==
  /\ sndPc = "extract" /\ MsgOf[rexmit] \in expired
  /\ LET hi == Max(Pkts(MsgOf[rexmit]))
     IN  /\ Sends({DropReq(rexmit, hi, MsgOf[rexmit])})
         /\ sndLoss' = {s \in sndLoss : s > hi}
         /\ next' = Max({next, hi + 1})
  /\ UNCHANGED <<bufVars, added, lastAck, flow, expired, sched, sndPc, rexmit, broken,
                 rcvVars, wkVars, appVars>>

(* packUniqueData: nothing when the window is closed; expired messages are *)
(* skipped without a word to the peer, and the next packet is sent.  The   *)
(* socket is scheduled again when there was one.  The window is the one    *)
(* the peer advertises: FileCC's never falls below 16 packets.             *)
WindowOpenOffByOne == flow >= FlightSpan
WindowOpen == flow > FlightSpan
NextUnexpired == Min({s \in next .. added : s = added \/ MsgOf[s] \notin expired})

PackUniqueData ==
  /\ sndPc = "unique"
  /\ sndPc' = "idle"
  /\ IF WindowOpen
     THEN LET s == NextUnexpired
          IN  IF s = added THEN next' = added /\ UNCHANGED <<netVars, sched>>
              ELSE next' = s + 1 /\ Sends({Data(s)}) /\ sched' = TRUE
     ELSE UNCHANGED <<next, netVars, sched>>
  /\ UNCHANGED <<bufVars, added, lastAck, flow, sndLoss, expired, rexmit, broken,
                 rcvVars, wkVars, appVars>>

(* processCtrlAck, the part that both forms of ACK share                   *)
(* (updateSndLossListOnACK): the packets before a are released.            *)
LossAfterAck(a) == {s \in sndLoss : s >= a}

(* The socket is scheduled when the ACK is new, or opens the window. *)
AckSchedulesIfNew(a) == a > lastAck
AckSchedules(a) == a > lastAck \/ (~WindowOpen /\ flow' > next - lastAck')

(* A full ACK: its window replaces the sender's unless it is older than    *)
(* the last.  It is answered by an ACKACK, at most one in a SYN interval.  *)
RecvAck(p) ==
  /\ p.type = "ACK" /\ RecvAckLockFree /\ ~broken
  /\ \E answer \in {{}, {AckAck(p.ack)}} : Takes(p, answer)
  /\ broken' = (p.ack > next)
  /\ sndLoss' = LossAfterAck(p.ack)
  /\ IF p.ack >= lastAck /\ p.ack <= next
     THEN lastAck' = p.ack /\ flow' = p.left
     ELSE UNCHANGED <<lastAck, flow>>
  /\ sched' = (sched \/ AckSchedules(p.ack))
  /\ UNCHANGED <<bufVars, added, next, expired, sndPc, rexmit, rcvVars, wkVars, appVars>>

(* A lite ACK takes what it acknowledges off the window. *)
RecvLiteAck(p) ==
  /\ p.type = "LITE" /\ RecvAckLockFree /\ ~broken
  /\ Takes(p, {})
  /\ sndLoss' = LossAfterAck(p.ack)
  /\ IF p.ack >= lastAck
     THEN lastAck' = p.ack /\ flow' = flow - (p.ack - lastAck)
     ELSE UNCHANGED <<lastAck, flow>>
  /\ sched' = (sched \/ p.ack > lastAck)
  /\ UNCHANGED <<bufVars, added, next, expired, sndPc, rexmit, broken, rcvVars, wkVars, appVars>>

(* processCtrlLossReport: what was acknowledged meanwhile is to be dropped *)
(* by the peer, the rest is scheduled for retransmission.                  *)
NakInserts(lo, hi) == Max({lo, lastAck}) .. hi

RecvNak(p) ==
  /\ p.type = "NAK" /\ RecvAckLockFree /\ ~broken
  /\ broken' = (p.hi >= next)
  /\ IF p.hi >= next THEN Takes(p, {}) /\ UNCHANGED <<sndLoss, sched>>
     ELSE /\ sndLoss' = sndLoss \cup NakInserts(p.lo, p.hi)
          /\ Takes(p, IF p.lo >= lastAck THEN {}
                      ELSE {DropReq(p.lo, Min({p.hi, lastAck - 1}), 0)})
          /\ sched' = TRUE
  /\ UNCHANGED <<bufVars, added, next, lastAck, flow, expired, sndPc, rexmit,
                 rcvVars, wkVars, appVars>>

(* checkRexmitTimer: no ACK for some time.  Whatever is in flight is lost, *)
(* if nothing is known to be.                                              *)
RexmitTimerIdle == {}
RexmitTimerInserts == lastAck .. (next - 1)

CheckRexmitTimer ==
  /\ RecvAckLockFree /\ ~broken
  /\ added > lastAck
  /\ TimerFires(\E p \in net : p.type \in {"DATA", "ACK", "LITE"})
  /\ sndLoss' = IF sndLoss = {} THEN RexmitTimerInserts ELSE sndLoss
  /\ sched' = TRUE
  /\ UNCHANGED <<bufVars, added, next, lastAck, flow, expired, sndPc, rexmit, broken,
                 rcvVars, wkVars, appVars>>
-----------------------------------------------------------------------------
(* The receiver.                                                           *)

RecvLockFree == appPc \notin {"check", "clear", "again"}

(* CRcvLossList::remove, of what arrived (unlose) or never will            *)
(* (dropFromLossLists).  Each number asked for raises m_iLargestSeq, in    *)
(* the list or not; only a list that becomes empty forgets it.             *)
LossRemove(lo, hi) ==
  /\ rcvLoss' = rcvLoss \ (lo .. hi)
  /\ LET largest == IF rcvLoss # {} /\ rcvLoss' = {} THEN -1 ELSE Max({rcvLargest, hi})
     IN  rcvLargest' = IF largest > rcvCurr' THEN largest ELSE -1

(* CRcvLossList::insert takes nothing up to m_iLargestSeq. *)
LossInsert(gap) ==
  LET new == {s \in gap : s > rcvLargest}
  IN  /\ rcvLoss' = rcvLoss \cup new
      /\ rcvLargest' = IF new = {} /\ rcvLargest > rcvCurr' THEN rcvLargest ELSE -1

(* processData and handleSocketPacketReception.  A packet that is not new  *)
(* to the buffer is not followed by loss detection, but moves the latest   *)
(* sequence number.                                                        *)
Belated(s) == s < start \/ s < rcvLastAck
Gap(s) == (rcvCurr + 1) .. (s - 1)
LossReport(s) == IF Gap(s) = {} THEN {} ELSE {Nak(rcvCurr + 1, s - 1)}

RecvBelated(p) ==
  /\ wkPc = "idle" /\ p.type = "DATA"
  /\ Belated(p.seq) \/ p.seq >= start + Capacity
  /\ Takes(p, {})
  /\ UNCHANGED <<bufVars, sndVars, rcvVars, wkVars, appVars>>

RecvRedundant(p) ==
  /\ wkPc = "idle" /\ p.type = "DATA"
  /\ ~Belated(p.seq) /\ p.seq \in held \cup readAt \cup dropAt
  /\ Takes(p, {})
  /\ rcvCurr' = Max({rcvCurr, p.seq})
  /\ IF p.seq > rcvCurr THEN LossInsert({}) ELSE LossRemove(p.seq, p.seq)
  /\ UNCHANGED <<bufVars, sndVars, rcvLastAck, rcvLastAckAck, bufferWasFull, wkVars, appVars>>

RecvNew(p) ==
  /\ wkPc = "idle" /\ p.type = "DATA"
  /\ ~Belated(p.seq)
  /\ Store(p.seq)
  /\ Takes(p, LossReport(p.seq))
  /\ rcvCurr' = Max({rcvCurr, p.seq})
  /\ IF p.seq > rcvCurr THEN LossInsert(Gap(p.seq)) ELSE LossRemove(p.seq, p.seq)
  /\ UNCHANGED <<sndVars, rcvLastAck, rcvLastAckAck, bufferWasFull, wkVars, appVars>>

(* processCtrlDropReq *)
RecvDropReq(p) ==
  /\ wkPc = "idle" /\ p.type = "DROPREQ" /\ RecvLockFree
  /\ Takes(p, {})
  /\ Drop(p.lo, p.hi, p.msg)
  /\ rcvCurr' = IF p.lo <= rcvCurr + 1 THEN Max({rcvCurr, p.hi}) ELSE rcvCurr
  /\ LossRemove(p.lo, p.hi)
  /\ UNCHANGED <<sndVars, rcvLastAck, rcvLastAckAck, bufferWasFull, wkVars, appVars>>

(* processCtrlAckAck *)
RecvAckAck(p) ==
  /\ wkPc = "idle" /\ p.type = "ACKACK"
  /\ Takes(p, {})
  /\ rcvLastAckAck' = Max({rcvLastAckAck, p.ack})
  /\ UNCHANGED <<bufVars, sndVars, rcvCurr, rcvLoss, rcvLargest, rcvLastAck, bufferWasFull,
                 wkVars, appVars>>

(* getFirstNoncontSequence, getAvailSize *)
FirstNoncontIgnoresLoss == rcvCurr + 1
FirstNoncontOneMore == IF rcvLoss # {} THEN Min(rcvLoss) ELSE rcvCurr + 2
FirstNoncont == IF rcvLoss # {} THEN Min(rcvLoss) ELSE rcvCurr + 1

AvailSize == IF start >= rcvLastAck THEN Capacity ELSE Capacity - (rcvLastAck - start)

(* sendCtrlAck until it gives up m_RcvBufferLock. *)
NeedFullAck == bufferWasFull /\ AvailSize > 0

SendLiteAck ==
  /\ wkPc = "idle"
  /\ ~NeedFullAck /\ rcvLastAckAck # FirstNoncont
  /\ lites < MaxLite /\ Mishap /\ lites' = lites + 1
  /\ Sends({LiteAck(FirstNoncont)})
  /\ UNCHANGED <<bufVars, sndVars, rcvVars, wkPc, needAck, appVars>>

AckAdvances ==
  /\ wkPc = "idle"
  /\ FirstNoncont > rcvLastAck
  /\ rcvLastAckAck # FirstNoncont \/ NeedFullAck
  /\ rcvLastAck' = FirstNoncont
  /\ needAck' = NeedFullAck
  /\ wkPc' = "wake"
  /\ UNCHANGED <<bufVars, sndVars, netVars, rcvCurr, rcvLoss, rcvLargest, rcvLastAckAck, bufferWasFull,
                 lites, appVars>>

(* The same number again, when a round trip has passed without an ACKACK,  *)
(* or when the buffer has room again.                                      *)
AckRepeats ==
  /\ wkPc = "idle"
  /\ NeedFullAck \/ (FirstNoncont = rcvLastAck /\ rcvLastAckAck # FirstNoncont)
  /\ FirstNoncont <= rcvLastAck
  /\ TimerFires(~NeedFullAck /\ \E p \in net : p.type \in {"ACK", "ACKACK"} /\ p.ack = rcvLastAck)
  /\ needAck' = NeedFullAck
  /\ wkPc' = "send"
  /\ UNCHANGED <<bufVars, sndVars, rcvVars, lites, appVars>>

(* Under m_RecvLock: data for epoll. *)
AckWakesUnlocked ==
  /\ wkPc = "wake"
  /\ epIn' = (epIn \/ Ready)
  /\ wkPc' = "send"
  /\ UNCHANGED <<bufVars, sndVars, netVars, rcvVars, needAck, lites, appPc, got>>
AckWakes ==
  /\ wkPc = "wake" /\ RecvLockFree
  /\ epIn' = (epIn \/ Ready)
  /\ wkPc' = "send"
  /\ UNCHANGED <<bufVars, sndVars, netVars, rcvVars, needAck, lites, appPc, got>>

(* Under m_RcvBufferLock again: the ACK itself. *)
AckSends ==
  /\ wkPc = "send"
  /\ wkPc' = "idle" /\ needAck' = FALSE
  /\ IF rcvLastAck > rcvLastAckAck \/ needAck
     THEN /\ Sends({Ack(rcvLastAck, AvailSize)})
          /\ bufferWasFull' = (AvailSize = 0)
     ELSE UNCHANGED <<netVars, bufferWasFull>>
  /\ UNCHANGED <<bufVars, sndVars, rcvCurr, rcvLoss, rcvLargest, rcvLastAck, rcvLastAckAck,
                 lites, appVars>>

(* The application waits for SRT_EPOLL_IN and then receives until there is *)
(* nothing (receiveMessage, m_RecvLock held from the read to the return).  *)
AppWakes ==
  /\ appPc = "wait" /\ epIn
  /\ appPc' = "recv"
  /\ UNCHANGED <<bufVars, sndVars, netVars, rcvVars, wkVars, epIn, got>>

ReceiveMessage(m) ==
  /\ appPc = "recv"
  /\ Read(m)
  /\ got' = Append(got, m)
  /\ appPc' = "check"
  /\ UNCHANGED <<sndVars, netVars, rcvVars, wkVars, epIn>>

ReceiveChecks ==
  /\ appPc = "check"
  /\ appPc' = IF Ready THEN "recv" ELSE "clear"
  /\ UNCHANGED <<bufVars, sndVars, netVars, rcvVars, wkVars, epIn, got>>

ReceiveClears ==
  /\ appPc = "clear"
  /\ epIn' = FALSE
  /\ appPc' = "recv"
  /\ UNCHANGED <<bufVars, sndVars, netVars, rcvVars, wkVars, got>>

ReceiveNothing ==
  /\ appPc = "recv" /\ ~Ready
  /\ appPc' = "again"
  /\ UNCHANGED <<bufVars, sndVars, netVars, rcvVars, wkVars, epIn, got>>

ReceiveAgain ==
  /\ appPc = "again"
  /\ epIn' = FALSE
  /\ appPc' = "wait"
  /\ UNCHANGED <<bufVars, sndVars, netVars, rcvVars, wkVars, got>>
-----------------------------------------------------------------------------
SndWorker == Pop \/ ExtractRexmit \/ ExtractDrop \/ PackUniqueData
RecvData(s) == \E p \in net : p = Data(s) /\ (RecvBelated(p) \/ RecvRedundant(p) \/ RecvNew(p))
RecvAcks == \E p \in net : RecvAck(p)
RecvLites == \E p \in net : RecvLiteAck(p)
RecvNaks == \E p \in net : RecvNak(p)
Losses == \E p \in net : Lose(p)
RecvControl == \E p \in net : RecvDropReq(p) \/ RecvAckAck(p)
AckTimer == AckAdvances \/ AckRepeats \/ AckWakes \/ AckSends
AppReceives ==
  \/ AppWakes \/ ReceiveChecks \/ ReceiveClears \/ ReceiveNothing \/ ReceiveAgain
  \/ \E m \in Msgs : ReceiveMessage(m)

Next ==
  \/ \E m \in Msgs : Sendmsg2(m) \/ Expire(m)
  \/ SndWorker
  \/ \E s \in Seqs : RecvData(s)
  \/ RecvAcks \/ RecvLites \/ RecvNaks \/ RecvControl
  \/ CheckRexmitTimer
  \/ AckTimer \/ SendLiteAck
  \/ AppReceives
  \/ Losses

RecvPackets == RecvControl \/ \E s \in Seqs : RecvData(s)

(* Fairness.  The threads run and get their locks; what is not lost        *)
(* arrives, loss reports excepted.  CRcvQueue::worker comes to every       *)
(* socket's timers each 10 ms however many ACKs arrive, and to the packets *)
(* however often the ACK timer fires: these two are strong.  Nothing       *)
(* forces the application to send, or a datagram to expire.                *)
ThreadsRun ==
  /\ WF_vars(SndWorker) /\ WF_vars(AppReceives) /\ WF_vars(AckTimer)
  /\ WF_vars(RecvAcks) /\ WF_vars(RecvLites) /\ SF_vars(CheckRexmitTimer)
Fairness == ThreadsRun /\ SF_vars(RecvPackets)

Spec == Init /\ [][Next]_vars /\ Fairness
-----------------------------------------------------------------------------
(* Properties.                                                             *)

(* The types, and where the sender stands: it retransmits only packets it  *)
(* still has (READ_NONE and the negative offset in getCleanRexmitOffset    *)
(* never happen, core.cpp:9650 and 9784), although reports, ACKs and the   *)
(* timer add to and take from the loss list in any order.                  *)
TypeOK ==
  /\ added \in 0 .. NPkts /\ next \in 0 .. added /\ lastAck \in 0 .. next
  /\ sndLoss \subseteq lastAck .. (next - 1)
  /\ flow \in Int /\ flow <= Capacity
  /\ expired \subseteq dgram /\ dgram \subseteq Msgs
  /\ sndPc \in {"idle", "extract", "unique"}
  /\ sndPc = "extract" => rexmit \in lastAck .. (next - 1)
  /\ rcvCurr \in -1 .. (next - 1) /\ rcvLoss \subseteq 0 .. rcvCurr /\ rcvLargest \in Int
  /\ rcvLastAck \in 0 .. (rcvCurr + 1) /\ rcvLastAckAck \in 0 .. rcvLastAck

(* SrtService, for messages of one packet: each at most once, reliable     *)
(* ones in order and without a gap, whatever the network does.             *)
Service == INSTANCE SrtService WITH
  NMsgs <- NPkts, submitted <- added, got <- got, unordered <- dgram
Implements == Service!SvcSpec

(* The sender forgets a packet only when the receiver has it, has passed   *)
(* it on, or was told to drop it: an ACK is never ahead of the data,       *)
(* whatever was lost and reordered (core.cpp:8290, 8602).                  *)
AckSound ==
  \A s \in 0 .. (lastAck - 1) : s < start \/ s \in held \cup readAt \cup dropAt

(* "if we have a situation when there are any packets in the acknowledged  *)
(* area, but they aren't retrieved, this area DOES NOT contain any losses" *)
(* (core.cpp:10643).  It does when a drop request overtook what comes      *)
(* before it: neither the packet that was dropped nor m_iLargestSeq let    *)
(* the gap be recorded then (AckedGap.cfg).  The sender spins by that      *)
(* time and takes no ACK, so that AckSound holds all the same.             *)
AckedAreaComplete ==
  \A s \in start .. (rcvLastAck - 1) : s \in held \cup readAt \cup dropAt

(* The peer is never taken for an attacker: no ACK exceeds what was sent,  *)
(* no loss report either ("this should not happen: attack or bug",         *)
(* core.cpp:8769 and 9204).                                                *)
NeverBroken == ~broken

(* With reliable messages only the sender never sends what the receiver    *)
(* has no room for ("In File mode this shall not be possible because the   *)
(* sender should stop sending in this situation", core.cpp:10668), on the  *)
(* strength of windows that arrive late, twice, out of order, or not.      *)
NoOverrun == dgram = {} => \A p \in net : p.type = "DATA" => p.seq < start + Capacity

(* With reliable messages only, no wakeup is lost: a message that was      *)
(* acknowledged and can be read is signalled to an application that waits, *)
(* although it clears SRT_EPOLL_IN after it looked (core.cpp:8477-8489).   *)
NoLostWakeup ==
  /\ dgram = {} /\ appPc = "wait" /\ wkPc # "wake"
  /\ InOrderReady /\ Max(Pkts(MsgOf[start])) < rcvLastAck
  => epIn

(* CSndUList never forgets the socket: with something to retransmit, or to *)
(* send and a window to send it in, the socket is scheduled or the worker  *)
(* is busy with it (queue.cpp:601-612, core.cpp:8799, 12189).              *)
Scheduled ==
  ~broken /\ (sndLoss # {} \/ (next < added /\ WindowOpen)) => sched \/ sndPc # "idle"

(* What stops a connection: a closed window with nothing in flight, while  *)
(* the receiver has room and sees no reason to say so again; a worker that *)
(* never leaves extractCleanRexmitPacket; or a message that is next and    *)
(* complete but behind m_iFirstNonreadPos.  ZeroWindow.cfg,                *)
(* RexmitSpins.cfg and RcvBufferStuck.cfg show one each.                   *)
WindowLost ==
  /\ flow = 0 /\ lastAck = next /\ next < added
  /\ ~bufferWasFull /\ rcvLastAckAck = FirstNoncont
Spinning == sndPc = "extract" /\ MsgOf[rexmit] \in expired
Hidden == start < NPkts /\ Complete(MsgOf[start]) /\ ~InOrderReady
AllDelivered ==
  \A s \in 0 .. (added - 1) : MsgOf[s] \in dgram \/ \E i \in DOMAIN got : got[i] = MsgOf[s]

(* Every reliable message submitted is delivered in the end, unless one of *)
(* these three happens: nothing else can stop the transfer, whichever ACK, *)
(* report or packet was lost.  The last two need datagrams.                *)
DeliveredUnlessStuck == <>[](AllDelivered \/ WindowLost \/ Spinning \/ Hidden)

(* "It should unblock the sender to proceed further" (core.cpp:8356): with *)
(* reliable messages only, a closed window opens again.  It does not when  *)
(* the one ACK that says so is lost (ZeroWindow.cfg).                      *)
WindowReopens == dgram = {} /\ flow = 0 /\ next < added ~> flow > 0

(* "REPEATABLE BLOCK (not a real loop)" (core.cpp:9762): the worker leaves *)
(* it, and m_RecvAckLock and m_ConnectionLock with it.  It does not once a *)
(* datagram that is to be retransmitted has expired (RexmitSpins).         *)
WorkerLeavesLoop == sndPc = "extract" ~> sndPc # "extract"
=============================================================================
