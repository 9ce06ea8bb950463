-------------------------- MODULE SrtReliableProofs --------------------------
(***************************************************************************)
(* SrtReliable for every number of packets, every message length, every    *)
(* capacity and every number of faults.                                    *)
(***************************************************************************)
EXTENDS SrtReliable, WellFoundedInduction, TLAPS

(* A nonempty set of naturals has a least element. *)
LEMMA LeastNat ==
  ASSUME NEW T, T \subseteq Nat, T # {}
  PROVE  \E x \in T : \A y \in T : x <= y
<1>1. PICK x \in T : \A y \in T : ~(<<y, x>> \in OpToRel(<, Nat))
  BY NatLessThanWellFounded, WFMin
<1>2. \A y \in T : <<y, x>> \in Nat \X Nat /\ (<<y, x>> \in OpToRel(<, Nat) <=> y < x)
  BY DEF OpToRel
<1>3. \A y \in T : ~(y < x)
  BY <1>1, <1>2, Zenon
<1> QED
  BY <1>3

(* A nonempty set of indices has a greatest element. *)
LEMMA LastIndex ==
  ASSUME NEW k \in Nat, NEW T, T \subseteq 1 .. k, T # {}
  PROVE  \E i \in T : \A j \in T : j <= i
<1> DEFINE U == {k - i : i \in T}
<1>0. \A i \in T : i \in 1 .. k /\ k - i \in Nat
  OBVIOUS
<1>1. U \subseteq Nat /\ U # {}
  BY <1>0, Zenon
<1>2. PICK u \in U : \A y \in U : u <= y
  BY <1>1, LeastNat
<1>3. PICK i \in T : u = k - i
  BY <1>2
<1>4. \A j \in T : k - j \in U
  OBVIOUS
<1>5. \A j \in T : u <= k - j
  BY <1>2, <1>4, Zenon
<1>6. \A j \in T : j <= i
  BY <1>3, <1>5
<1> QED
  BY <1>6
-----------------------------------------------------------------------------
(* Operators.                                                              *)

LEMMA MaxOfTwo ==
  ASSUME NEW a \in Int, NEW b \in Int
  PROVE  Max({a, b}) = IF a >= b THEN a ELSE b
<1> DEFINE P(x) == x \in {a, b} /\ \A y \in {a, b} : x >= y
           r == IF a >= b THEN a ELSE b
<1>1. P(r)
  OBVIOUS
<1>2. \A x : P(x) => x = r
  OBVIOUS
<1>3. Max({a, b}) \in {a, b} /\ \A y \in {a, b} : Max({a, b}) >= y
  BY <1>1, Zenon DEF Max
<1> QED
  BY <1>2, <1>3

LEMMA MinOfTwo ==
  ASSUME NEW a \in Int, NEW b \in Int
  PROVE  Min({a, b}) = IF a <= b THEN a ELSE b
<1> DEFINE P(x) == x \in {a, b} /\ \A y \in {a, b} : x <= y
           r == IF a <= b THEN a ELSE b
<1>1. P(r)
  OBVIOUS
<1>2. \A x : P(x) => x = r
  OBVIOUS
<1>3. Min({a, b}) \in {a, b} /\ \A y \in {a, b} : Min({a, b}) <= y
  BY <1>1, Zenon DEF Min
<1> QED
  BY <1>2, <1>3

LEMMA MinIs ==
  ASSUME NEW T, T \subseteq Nat, T # {}
  PROVE  Min(T) \in T /\ \A y \in T : Min(T) <= y
<1>1. \E x \in T : \A y \in T : x <= y
  BY LeastNat
<1> QED
  BY <1>1, Zenon DEF Min

LEMMA MaxIs ==
  ASSUME NEW k \in Nat, NEW T, T \subseteq 0 .. k, T # {}
  PROVE  Max(T) \in T /\ \A y \in T : Max(T) >= y
<1> DEFINE U == {i + 1 : i \in T}
<1>0. k + 1 \in Nat /\ \A i \in T : i + 1 \in 1 .. (k + 1)
  OBVIOUS
<1>1. U \subseteq 1 .. (k + 1) /\ U # {}
  BY <1>0, Zenon
<1>2. PICK u \in U : \A j \in U : j <= u
  BY <1>0, <1>1, LastIndex
<1>3. PICK x \in T : u = x + 1
  BY <1>2
<1>4. \A y \in T : y + 1 \in U
  OBVIOUS
<1>5. \A y \in T : y + 1 <= u
  BY <1>2, <1>4, Zenon
<1>6. \A y \in T : x >= y
  BY <1>3, <1>5
<1>7. \E z \in T : \A y \in T : z >= y
  BY <1>3, <1>6
<1> QED
  BY <1>7, Zenon DEF Max

(* The packets of a message are consecutive. *)
LEMMA Consecutive ==
  ASSUME NEW s \in Seqs, NEW t \in Seqs, NEW u \in Seqs,
         s <= t, t <= u, MsgOf[s] = MsgOf[u]
  PROVE  MsgOf[t] = MsgOf[s]
<1>1. MsgOf[s] <= MsgOf[t] /\ MsgOf[t] <= MsgOf[u] /\ MsgOf[s] \in Nat /\ MsgOf[t] \in Nat
  BY BufferAssumption
<1> QED
  BY <1>1

(* The ends of a message. *)
LEMMA MsgEnds ==
  ASSUME NEW m \in Msgs
  PROVE  /\ Pkts(m) \subseteq Seqs /\ Pkts(m) # {}
         /\ Max(Pkts(m)) \in Pkts(m) /\ Min(Pkts(m)) \in Pkts(m)
         /\ \A s \in Pkts(m) : Min(Pkts(m)) <= s /\ s <= Max(Pkts(m))
<1>1. Pkts(m) \subseteq Seqs /\ Pkts(m) # {}
  BY DEF Pkts, Msgs
<1>2. NPkts - 1 \in Nat /\ Seqs = 0 .. (NPkts - 1) /\ Seqs \subseteq Nat
  BY BufferAssumption DEF Seqs
<1>3. Max(Pkts(m)) \in Pkts(m) /\ \A y \in Pkts(m) : Max(Pkts(m)) >= y
  BY <1>1, <1>2, MaxIs
<1>4. Min(Pkts(m)) \in Pkts(m) /\ \A y \in Pkts(m) : Min(Pkts(m)) <= y
  BY <1>1, <1>2, MinIs
<1> QED
  BY <1>1, <1>2, <1>3, <1>4

(* releaseNextFillerEntries stops at the first position that is no filler. *)
LEMMA PastFillersIs ==
  ASSUME NEW s \in 0 .. NPkts, NEW F, F \subseteq Seqs
  PROVE  /\ PastFillers(s, F) \in s .. NPkts
         /\ PastFillers(s, F) \notin F
         /\ \A t \in s .. (PastFillers(s, F) - 1) : t \in F
<1> DEFINE T == {t \in s .. NPkts : t \notin F}
<1>1. NPkts \in Nat /\ NPkts \notin F /\ NPkts \in s .. NPkts
  BY BufferAssumption DEF Seqs
<1>2. T \subseteq Nat /\ T # {}
  BY <1>1
<1>3. PastFillers(s, F) = Min(T)
  BY DEF PastFillers
<1>4. Min(T) \in T /\ \A y \in T : Min(T) <= y
  BY <1>2, MinIs
<1> QED
  BY <1>1, <1>3, <1>4

(* updateNonreadPos moves over whole messages that are stored, and as far  *)
(* as it can.                                                              *)
LEMMA ExtendedIs ==
  ASSUME NEW n \in 0 .. NPkts, NEW S
  PROVE  /\ Extended(n, S) \in n .. NPkts
         /\ n .. (Extended(n, S) - 1) \subseteq S
         /\ Extended(n, S) = n \/ (IsFirst(n) /\ IsLast(Extended(n, S) - 1))
         /\ \A e \in n .. NPkts :
              n .. (e - 1) \subseteq S /\ IsFirst(n) /\ IsLast(e - 1) => e <= Extended(n, S)
<1> DEFINE T == {e \in n .. NPkts :
                   e = n \/ (n .. (e - 1) \subseteq S /\ IsFirst(n) /\ IsLast(e - 1))}
<1>1. NPkts \in Nat
  BY BufferAssumption
<1>2. T \subseteq 0 .. NPkts /\ n \in T
  BY <1>1
<1>3. Extended(n, S) = Max(T)
  BY DEF Extended
<1>4. Max(T) \in T /\ \A y \in T : Max(T) >= y
  BY <1>1, <1>2, MaxIs
<1>5. \A e \in T : e \in n .. NPkts /\ n .. (e - 1) \subseteq S
  BY <1>1
<1> QED
  BY <1>1, <1>3, <1>4, <1>5
-----------------------------------------------------------------------------
(* The invariants.                                                         *)

(* What a packet in flight may say, whichever way it goes and however old  *)
(* it is.                                                                  *)
PktOK(p, n, a, c) ==
  /\ p.type = "DATA" => p.seq \in 0 .. (n - 1)
  /\ p.type = "ACK" => p.ack \in 0 .. a /\ p.left \in Int /\ p.left <= Capacity
  /\ p.type = "LITE" => p.ack \in 0 .. (c + 1)
  /\ p.type = "ACKACK" => p.ack \in 0 .. a
  /\ p.type = "NAK" => p.lo \in Nat /\ p.hi \in Nat /\ p.lo <= p.hi /\ p.hi <= c
  /\ p.type = "DROPREQ" => p.lo \in Nat /\ p.hi \in Nat /\ p.lo <= p.hi /\ p.hi < n
NetOK == \A p \in net : PktOK(p, next, rcvLastAck, rcvCurr)

(* The send buffer ends with a whole message: a message that is dropped    *)
(* does not move the sender past it.                                       *)
WholeMsgs == \A s, t \in Seqs : s < added /\ MsgOf[t] = MsgOf[s] => t < added

SeqInv == TypeOK /\ NeverBroken /\ NetOK /\ WholeMsgs

(* The receive buffer. *)
BufInv ==
  /\ start \in 0 .. NPkts /\ non \in start .. NPkts
  /\ held \subseteq Seqs /\ readAt \subseteq Seqs /\ dropAt \subseteq Seqs
  /\ \A s \in held : s >= start /\ s \notin readAt \cup dropAt
  /\ start \notin readAt \cup dropAt
  /\ \A s \in start .. (non - 1) : s \in held
  /\ non # start => IsLast(non - 1)

Received(s) == s < start \/ s \in held \cup readAt \cup dropAt

(* Until the worker spins, no drop request runs ahead of the ACKs, so that *)
(* every packet up to the latest is stored or known to be lost, and what   *)
(* an ACK says was received.                                               *)
RcvNet == \A p \in net :
  /\ p.type = "DROPREQ" => p.hi < lastAck
  /\ p.type = "LITE" => \A s \in 0 .. (p.ack - 1) : Received(s)
RcvBuf ==
  /\ rcvLargest = -1
  /\ start <= rcvCurr + 1
  /\ \A s \in held \cup readAt \cup dropAt : s <= rcvCurr
  /\ \A s \in 0 .. rcvCurr : Received(s) \/ s \in rcvLoss
  /\ \A s \in 0 .. (rcvLastAck - 1) : Received(s)

(* Once it spins it takes no ACK any more. *)
AckInv == AckSound /\ (~Spinning => RcvNet /\ RcvBuf)

(* The worker between taking the socket off the list and packUniqueData. *)
SchedInv == Scheduled /\ (sndPc = "unique" /\ sndLoss # {} => sched)

(* The window, wherever it is on its way, is one the receiver has. *)
WindowInv == dgram = {} =>
  /\ lastAck + flow <= start + Capacity
  /\ next <= start + Capacity
  /\ \A p \in net : p.type = "ACK" => p.ack + p.left <= start + Capacity

(* A tunnel frame is one packet. *)
OnePacket == \A s \in Seqs : MsgOf[s] = s + 1

WakeInv == dgram = {} =>
  /\ readAt = {} /\ dropAt = {}
  /\ non \notin held
  /\ appPc = "wait" /\ wkPc # "wake" /\ start < rcvLastAck => epIn
  /\ appPc = "again" /\ wkPc # "wake" => start >= rcvLastAck

(* The messages delivered, and where their packets are. *)
DropReqOK(p) ==
  p.type = "DROPREQ" => \/ \A s \in p.lo .. p.hi : Received(s)
                        \/ \A s \in p.lo .. p.hi : MsgOf[s] \in dgram

SvcInv ==
  /\ got \in Seq(Msgs)
  /\ \A s \in readAt \cup dropAt : MsgOf[s] \in dgram
  /\ \A p \in net : DropReqOK(p)
  /\ \A s \in held : s < added
  /\ \A s \in 0 .. (start - 1) : MsgOf[s] \notin dgram => \E i \in DOMAIN got : got[i] = MsgOf[s]
  /\ \A i \in DOMAIN got : got[i] - 1 < start \/ got[i] - 1 \in readAt \cup dropAt
-----------------------------------------------------------------------------
(* Sequence numbers.                                                       *)

LEMMA Sizes == /\ NPkts \in Nat \ {0} /\ Capacity \in Nat \ {0}
               /\ \A s : s \in Seqs <=> s \in Nat /\ s < NPkts
BY BufferAssumption DEF Seqs

LEMMA TakesNet ==
  ASSUME NEW p, NEW R, Takes(p, R)
  PROVE  p \in net /\ net' \subseteq net \cup R
BY DEF Takes

(* A packet stays in order as the two ends move on. *)
LEMMA NetStep ==
  ASSUME TypeOK, TypeOK', NetOK, NEW R, net' \subseteq net \cup R,
         next <= next', rcvLastAck <= rcvLastAck', rcvCurr <= rcvCurr',
         \A p \in R : PktOK(p, next', rcvLastAck', rcvCurr')
  PROVE  NetOK'
<1>1. SUFFICES ASSUME NEW p \in net PROVE PktOK(p, next', rcvLastAck', rcvCurr')
  BY DEF NetOK
<1>2. PktOK(p, next, rcvLastAck, rcvCurr)
  BY DEF NetOK
<1> QED
  BY <1>2, Sizes DEF PktOK, TypeOK

LEMMA NetSame ==
  ASSUME TypeOK, TypeOK', NetOK, net' \subseteq net,
         next <= next', rcvLastAck <= rcvLastAck', rcvCurr <= rcvCurr'
  PROVE  NetOK'
<1>1. PICK R : R = {}
  OBVIOUS
<1>2. net' \subseteq net \cup R /\ \A p \in R : PktOK(p, next', rcvLastAck', rcvCurr')
  BY <1>1
<1> QED
  BY <1>2, NetStep

LEMMA WholeStep == WholeMsgs /\ added' = added => WholeMsgs'
BY DEF WholeMsgs

LEMMA AvailSizeIs == TypeOK /\ start \in Int => AvailSize \in Int /\ AvailSize <= Capacity
BY Sizes DEF AvailSize, TypeOK

LEMMA FirstNoncontIs ==
  ASSUME TypeOK
  PROVE  /\ FirstNoncont \in 0 .. (rcvCurr + 1)
         /\ \A s \in 0 .. (FirstNoncont - 1) : s <= rcvCurr /\ s \notin rcvLoss
<1>1. CASE rcvLoss = {}
  BY <1>1 DEF FirstNoncont, TypeOK
<1>2. CASE rcvLoss # {}
  <2>1. rcvCurr \in Int /\ rcvLoss \subseteq 0 .. rcvCurr
    BY DEF TypeOK
  <2>2. rcvLoss \subseteq Nat
    BY <2>1
  <2>3. PICK f : f = Min(rcvLoss)
    OBVIOUS
  <2>4. f \in rcvLoss /\ \A y \in rcvLoss : f <= y
    BY <1>2, <2>2, <2>3, MinIs
  <2>5. FirstNoncont = f
    BY <1>2, <2>3 DEF FirstNoncont
  <2> QED
    BY <2>1, <2>4, <2>5
<1> QED
  BY <1>1, <1>2

(* CRcvLossList never holds what was not skipped. *)
LEMMA LossRemoveIs ==
  ASSUME TypeOK, NEW lo, NEW hi \in Int, LossRemove(lo, hi)
  PROVE  rcvLoss' = rcvLoss \ (lo .. hi) /\ (rcvCurr' \in Int => rcvLargest' \in Int)
<1>1. Max({rcvLargest, hi}) \in Int
  BY MaxOfTwo DEF TypeOK
<1> QED
  BY <1>1 DEF LossRemove

LEMMA LossInsertIs ==
  ASSUME TypeOK, NEW gap, LossInsert(gap)
  PROVE  rcvLoss \subseteq rcvLoss' /\ rcvLoss' \subseteq rcvLoss \cup gap /\ rcvLargest' \in Int
BY DEF LossInsert, TypeOK

LEMMA SeqInvInit == Init => SeqInv
<1> SUFFICES ASSUME Init PROVE SeqInv
  OBVIOUS
<1>1. dgram \subseteq Msgs
  BY BufferAssumption DEF Init, BufInit, Msgs
<1> QED
  BY <1>1, Sizes DEF Init, BufInit, SeqInv, TypeOK, NeverBroken, NetOK, WholeMsgs

(* What the sender's threads do. *)
LEMMA SeqInvSender ==
  ASSUME SeqInv,
         \/ \E m \in Msgs : Sendmsg2(m) \/ Expire(m)
         \/ SndWorker \/ CheckRexmitTimer
  PROVE  SeqInv'
<1> USE DEF SeqInv
<1>t. TypeOK /\ NeverBroken /\ NetOK /\ WholeMsgs
  OBVIOUS
<1>s. NPkts \in Nat \ {0} /\ Capacity \in Nat \ {0} /\ \A s : s \in Seqs <=> s \in Nat /\ s < NPkts
  BY Sizes
<1>1. ASSUME NEW m \in Msgs, Sendmsg2(m) PROVE SeqInv'
  <2>1. /\ added = Min(Pkts(m)) /\ added' = Max(Pkts(m)) + 1 /\ sched' = TRUE
        /\ UNCHANGED <<dgram, next, lastAck, flow, sndLoss, expired, sndPc, rexmit, broken,
                       net, rcvCurr, rcvLoss, rcvLargest, rcvLastAck, rcvLastAckAck>>
    BY <1>1 DEF Sendmsg2, AddBuffer, bufVars, netVars, rcvVars
  <2>2. /\ Max(Pkts(m)) \in Pkts(m) /\ Min(Pkts(m)) \in Pkts(m) /\ Pkts(m) \subseteq Seqs
        /\ \A s \in Pkts(m) : Min(Pkts(m)) <= s /\ s <= Max(Pkts(m))
    BY MsgEnds
  <2>3. added' \in added .. NPkts
    BY <2>1, <2>2, <1>s
  <2>4. TypeOK'
    BY <1>t, <1>s, <2>1, <2>3 DEF TypeOK, Msgs
  <2>5. WholeMsgs'
    <3>1. SUFFICES ASSUME NEW s \in Seqs, NEW t \in Seqs, s < added', MsgOf[t] = MsgOf[s]
                   PROVE  t < added'
      BY DEF WholeMsgs
    <3>2. CASE s < added
      BY <1>t, <1>s, <2>3, <3>1, <3>2 DEF WholeMsgs, TypeOK
    <3>3. CASE s >= added
      <4>1. Min(Pkts(m)) \in Seqs /\ Max(Pkts(m)) \in Seqs
            /\ MsgOf[Min(Pkts(m))] = m /\ MsgOf[Max(Pkts(m))] = m
        BY <2>2 DEF Pkts
      <4>2. MsgOf[s] = m
        BY <1>s, <2>1, <3>1, <3>3, <4>1, Consecutive
      <4>3. t \in Pkts(m)
        BY <3>1, <4>2 DEF Pkts
      <4> QED
        BY <1>s, <2>1, <2>2, <4>1, <4>3
    <3> QED
      BY <1>s, <1>t, <3>2, <3>3 DEF TypeOK
  <2>m. next <= next' /\ rcvLastAck <= rcvLastAck' /\ rcvCurr <= rcvCurr'
    BY <1>t, <2>1, <2>4 DEF TypeOK
  <2>6. NetOK'
    BY <1>t, <2>1, <2>4, <2>m, NetSame
  <2> QED
    BY <1>t, <2>1, <2>4, <2>5, <2>6 DEF NeverBroken
<1>2. ASSUME NEW m \in Msgs, Expire(m) PROVE SeqInv'
  <2>1. /\ m \in dgram /\ expired' = expired \cup {m}
        /\ UNCHANGED <<dgram, added, next, lastAck, flow, sndLoss, sched, sndPc, rexmit, broken,
                       net, rcvCurr, rcvLoss, rcvLargest, rcvLastAck, rcvLastAckAck>>
    BY <1>2 DEF Expire, bufVars, netVars, rcvVars
  <2>2. TypeOK'
    BY <1>t, <2>1 DEF TypeOK, Msgs
  <2>m. next <= next' /\ rcvLastAck <= rcvLastAck' /\ rcvCurr <= rcvCurr'
    BY <1>t, <2>1, <2>2 DEF TypeOK
  <2>n. NetOK'
    BY <1>t, <2>1, <2>2, <2>m, NetSame, NetStep
  <2> QED
    BY <1>t, <2>1, <2>2, <2>n, WholeStep DEF NeverBroken
<1>3. CASE Pop
  <2>1. /\ sched' = FALSE /\ ~broken
        /\ UNCHANGED <<dgram, added, next, lastAck, flow, expired, broken,
                       net, rcvCurr, rcvLoss, rcvLargest, rcvLastAck, rcvLastAckAck>>
    BY <1>3, <1>t DEF Pop, bufVars, netVars, rcvVars, NeverBroken
  <2>2. CASE sndLoss = {}
    <3>1. sndPc' = "unique" /\ sndLoss' = sndLoss
      BY <1>3, <2>1, <2>2 DEF Pop
    <3>2. TypeOK'
      BY <1>t, <2>1, <3>1 DEF TypeOK, Msgs
    <3>m. next <= next' /\ rcvLastAck <= rcvLastAck' /\ rcvCurr <= rcvCurr'
      BY <1>t, <2>1, <3>2 DEF TypeOK
    <3>n. NetOK'
      BY <1>t, <2>1, <3>2, <3>m, NetSame, NetStep
    <3> QED
      BY <1>t, <2>1, <3>2, <3>n, WholeStep DEF NeverBroken
  <2>3. CASE sndLoss # {}
    <3>1. sndPc' = "extract" /\ rexmit' = Min(sndLoss) /\ sndLoss' \subseteq sndLoss
      BY <1>3, <2>1, <2>3 DEF Pop, CleanRexmit
    <3>2. Min(sndLoss) \in sndLoss
      <4>1. sndLoss \subseteq Nat
        BY <1>t DEF TypeOK
      <4> QED
        BY <4>1, <2>3, MinIs
    <3>3. TypeOK'
      BY <1>t, <2>1, <3>1, <3>2 DEF TypeOK, Msgs
    <3>m. next <= next' /\ rcvLastAck <= rcvLastAck' /\ rcvCurr <= rcvCurr'
      BY <1>t, <2>1, <3>3 DEF TypeOK
    <3>n. NetOK'
      BY <1>t, <2>1, <3>3, <3>m, NetSame, NetStep
    <3> QED
      BY <1>t, <2>1, <3>3, <3>n, WholeStep DEF NeverBroken
  <2> QED
    BY <2>2, <2>3
<1>4. CASE ExtractRexmit
  <2>1. /\ sndPc = "extract" /\ sndPc' = "idle" /\ sched' = TRUE /\ net' = net \cup {Data(rexmit)}
        /\ UNCHANGED <<dgram, added, next, lastAck, flow, sndLoss, expired, broken,
                       rcvCurr, rcvLoss, rcvLargest, rcvLastAck, rcvLastAckAck>>
    BY <1>4 DEF ExtractRexmit, Sends, bufVars, rcvVars
  <2>2. TypeOK'
    BY <1>t, <2>1 DEF TypeOK, Msgs
  <2>r. PICK R : R = {Data(rexmit)}
    OBVIOUS
  <2>3. net' = net \cup R /\ \A p \in R : PktOK(p, next', rcvLastAck', rcvCurr')
    BY <1>t, <2>1, <2>r DEF PktOK, Data, TypeOK
  <2>m. next <= next' /\ rcvLastAck <= rcvLastAck' /\ rcvCurr <= rcvCurr'
    BY <1>t, <2>1, <2>2, <2>3 DEF TypeOK
  <2>n. NetOK'
    BY <1>t, <2>1, <2>2, <2>3, <2>m, NetSame, NetStep
  <2> QED
    BY <1>t, <2>1, <2>2, <2>3, <2>n, WholeStep DEF NeverBroken
<1>5. CASE ExtractDrop
  <2>0. PICK m, hi : m = MsgOf[rexmit] /\ hi = Max(Pkts(m))
    OBVIOUS
  <2>1. /\ sndPc = "extract" /\ m \in expired
        /\ net' = net \cup {DropReq(rexmit, hi, m)}
        /\ sndLoss' = {s \in sndLoss : s > hi} /\ next' = Max({next, hi + 1})
        /\ UNCHANGED <<dgram, added, lastAck, flow, expired, sched, sndPc, rexmit, broken,
                       rcvCurr, rcvLoss, rcvLargest, rcvLastAck, rcvLastAckAck>>
    BY <1>5, <2>0 DEF ExtractDrop, Sends, bufVars, rcvVars
  <2>2. rexmit \in Seqs /\ rexmit \in lastAck .. (next - 1) /\ m \in Msgs
    BY <1>t, <1>s, <2>0, <2>1 DEF TypeOK, Msgs
  <2>3. hi \in Seqs /\ MsgOf[hi] = m /\ rexmit <= hi
    <3>1. rexmit \in Pkts(m)
      BY <2>0, <2>2 DEF Pkts
    <3> QED
      BY <2>0, <2>2, <3>1, MsgEnds DEF Pkts
  <2>4. hi < added
    BY <1>t, <1>s, <2>0, <2>2, <2>3 DEF WholeMsgs, TypeOK
  <2>5. PICK n : next' = n
    OBVIOUS
  <2>6. n \in next .. added /\ hi < n /\ hi \in Nat
    <3>1. hi + 1 \in Int /\ next \in Int
      BY <1>s, <1>t, <2>3 DEF TypeOK
    <3>2. Max({next, hi + 1}) = IF next >= hi + 1 THEN next ELSE hi + 1
      BY <3>1, MaxOfTwo
    <3> QED
      BY <1>s, <1>t, <2>1, <2>3, <2>4, <2>5, <3>2 DEF TypeOK
  <2>8. TypeOK'
    <3>1. sndLoss' \subseteq sndLoss
      BY <2>1
    <3>2. UNCHANGED <<dgram, added, lastAck, flow, expired, sndPc, rexmit,
                      rcvCurr, rcvLoss, rcvLargest, rcvLastAck, rcvLastAckAck>>
      BY <2>1
    <3>3. sndLoss' \subseteq lastAck .. (n - 1) /\ rexmit \in lastAck .. (n - 1)
      BY <1>s, <1>t, <2>2, <2>6, <3>1 DEF TypeOK
    <3> QED
      BY <1>s, <1>t, <2>5, <2>6, <3>2, <3>3 DEF TypeOK, Msgs
  <2>r. PICK R : R = {DropReq(rexmit, hi, m)}
    OBVIOUS
  <2>7. net' = net \cup R /\ \A p \in R : PktOK(p, next', rcvLastAck', rcvCurr')
    <3>1. rexmit \in Nat /\ rexmit <= hi /\ hi \in Nat /\ hi < n
      BY <1>t, <2>2, <2>3, <2>6 DEF TypeOK
    <3> QED
      BY <2>1, <2>5, <2>r, <3>1 DEF PktOK, DropReq
  <2>m. next <= next' /\ rcvLastAck <= rcvLastAck' /\ rcvCurr <= rcvCurr'
    BY <1>t, <1>s, <2>1, <2>5, <2>6 DEF TypeOK
  <2>n. NetOK'
    BY <1>t, <2>7, <2>8, <2>m, NetStep
  <2> QED
    BY <1>t, <2>1, <2>8, <2>n, WholeStep DEF NeverBroken
<1>6. CASE PackUniqueData
  <2>1. NextUnexpired \in next .. added
    <3> DEFINE T == {s \in next .. added : s = added \/ MsgOf[s] \notin expired}
    <3>1. T \subseteq Nat /\ added \in T
      BY <1>t DEF TypeOK
    <3>2. Min(T) \in T
      BY <3>1, MinIs
    <3> QED
      BY <3>2 DEF NextUnexpired
  <2>2. /\ sndPc' = "idle"
        /\ UNCHANGED <<dgram, added, lastAck, flow, sndLoss, expired, rexmit, broken,
                       rcvCurr, rcvLoss, rcvLargest, rcvLastAck, rcvLastAckAck>>
    BY <1>6 DEF PackUniqueData, bufVars, rcvVars
  <2>3. \/ next' \in {next, added} /\ net' = net /\ sched' = sched
        \/ /\ NextUnexpired # added /\ next' = NextUnexpired + 1 /\ sched' = TRUE
           /\ net' = net \cup {Data(NextUnexpired)}
    BY <1>6 DEF PackUniqueData, Sends, netVars
  <2>4. next' \in next .. added
    BY <1>t, <2>1, <2>3 DEF TypeOK
  <2>5. TypeOK'
    <3>1. PICK n : n = next'
      OBVIOUS
    <3>0. /\ added \in 0 .. NPkts /\ next \in 0 .. added /\ lastAck \in 0 .. next
          /\ rcvCurr \in -1 .. (next - 1) /\ sndLoss \subseteq lastAck .. (next - 1)
      BY <1>t DEF TypeOK
    <3>i. n \in Int /\ next \in Int /\ lastAck \in Int /\ added \in Int /\ next <= n /\ n <= added
      BY <1>s, <2>4, <3>0, <3>1
    <3>2. n \in 0 .. added /\ lastAck \in 0 .. n /\ rcvCurr \in -1 .. (n - 1)
      BY <3>0, <3>i
    <3>3. sndLoss \subseteq lastAck .. (n - 1)
      BY <3>0, <3>i
    <3> QED
      BY <1>t, <2>2, <3>1, <3>2, <3>3 DEF TypeOK
  <2>6. CASE net' = net
    <3>m. next <= next' /\ rcvLastAck <= rcvLastAck' /\ rcvCurr <= rcvCurr'
      BY <1>t, <2>2, <2>4, <2>5, <2>6 DEF TypeOK
    <3>n. NetOK'
      BY <1>t, <2>2, <2>4, <2>5, <2>6, <3>m, NetSame, NetStep
    <3> QED
      BY <1>t, <2>2, <2>4, <2>5, <2>6, <3>n, WholeStep DEF NeverBroken
  <2>7. CASE next' = NextUnexpired + 1 /\ net' = net \cup {Data(NextUnexpired)}
    <3>r. PICK R : R = {Data(NextUnexpired)}
      OBVIOUS
    <3>1. net' = net \cup R /\ \A p \in R : PktOK(p, next', rcvLastAck', rcvCurr')
      BY <1>t, <2>1, <2>2, <2>7, <3>r DEF PktOK, Data, TypeOK
    <3>m. next <= next' /\ rcvLastAck <= rcvLastAck' /\ rcvCurr <= rcvCurr'
      BY <1>t, <2>2, <2>4, <2>5, <2>7, <3>1 DEF TypeOK
    <3>n. NetOK'
      BY <1>t, <2>2, <2>4, <2>5, <2>7, <3>1, <3>m, NetSame, NetStep
    <3> QED
      BY <1>t, <2>2, <2>4, <2>5, <2>7, <3>1, <3>n, WholeStep DEF NeverBroken
  <2> QED
    BY <2>3, <2>6, <2>7
<1>7. CASE CheckRexmitTimer
  <2>1. /\ sched' = TRUE /\ sndLoss' = IF sndLoss = {} THEN lastAck .. (next - 1) ELSE sndLoss
        /\ UNCHANGED <<dgram, added, next, lastAck, flow, expired, sndPc, rexmit, broken,
                       net, rcvCurr, rcvLoss, rcvLargest, rcvLastAck, rcvLastAckAck>>
    BY <1>7 DEF CheckRexmitTimer, RexmitTimerInserts, TimerFires, bufVars, rcvVars
  <2>2. TypeOK'
    BY <1>t, <2>1 DEF TypeOK, Msgs
  <2>m. next <= next' /\ rcvLastAck <= rcvLastAck' /\ rcvCurr <= rcvCurr'
    BY <1>t, <2>1, <2>2 DEF TypeOK
  <2>n. NetOK'
    BY <1>t, <2>1, <2>2, <2>m, NetSame, NetStep
  <2> QED
    BY <1>t, <2>1, <2>2, <2>n, WholeStep DEF NeverBroken
<1> QED
  BY <1>1, <1>2, <1>3, <1>4, <1>5, <1>6, <1>7 DEF SndWorker

(* What the sender does with ACKs and loss reports. *)
LEMMA SeqInvControl ==
  ASSUME SeqInv, NEW p \in net, RecvAck(p) \/ RecvLiteAck(p) \/ RecvNak(p)
  PROVE  SeqInv'
<1> USE DEF SeqInv
<1>t. TypeOK /\ NeverBroken /\ NetOK /\ WholeMsgs
  OBVIOUS
<1>s. NPkts \in Nat \ {0} /\ Capacity \in Nat \ {0}
  BY Sizes
<1>p. PktOK(p, next, rcvLastAck, rcvCurr)
  BY <1>t DEF NetOK
<1>1. CASE RecvAck(p)
  <2>1. /\ p.type = "ACK" /\ broken' = (p.ack > next) /\ sndLoss' = {s \in sndLoss : s >= p.ack}
        /\ IF p.ack >= lastAck /\ p.ack <= next
           THEN lastAck' = p.ack /\ flow' = p.left
           ELSE UNCHANGED <<lastAck, flow>>
        /\ UNCHANGED <<dgram, added, next, expired, sndPc, rexmit,
                       rcvCurr, rcvLoss, rcvLargest, rcvLastAck, rcvLastAckAck>>
    BY <1>1 DEF RecvAck, LossAfterAck, bufVars, rcvVars
  <2>2. PICK R : R \in {{}, {AckAck(p.ack)}} /\ Takes(p, R)
    BY <1>1 DEF RecvAck
  <2>3. p.ack \in 0 .. rcvLastAck /\ p.ack <= next /\ p.left \in Int /\ p.left <= Capacity
    BY <1>p, <1>s, <1>t, <2>1 DEF PktOK, TypeOK
  <2>4. ~broken'
    <3>1. ~(p.ack > next)
      BY <1>s, <1>t, <2>3 DEF TypeOK
    <3> QED
      BY <2>1, <3>1, Zenon
  <2>5. RecvAckLockFree
    BY <1>1 DEF RecvAck
  <2>6. CASE p.ack >= lastAck
    <3>1. lastAck' = p.ack /\ flow' = p.left
      BY <2>1, <2>3, <2>6
    <3>2. sndLoss' \subseteq p.ack .. (next - 1)
      <4>1. SUFFICES ASSUME NEW s \in sndLoss' PROVE s \in p.ack .. (next - 1)
        OBVIOUS
      <4>2. s \in sndLoss /\ s >= p.ack
        BY <2>1
      <4>3. next \in Int /\ lastAck \in Int /\ p.ack \in Int /\ sndLoss \subseteq lastAck .. (next - 1)
        BY <1>s, <1>t, <2>3 DEF TypeOK
      <4> QED
        BY <4>2, <4>3
    <3>3. UNCHANGED <<dgram, added, next, expired, sndPc, rexmit,
                       rcvCurr, rcvLoss, rcvLargest, rcvLastAck, rcvLastAckAck>>
      BY <2>1
    <3> QED
      <4>1. TypeOK'
        BY <1>s, <1>t, <2>3, <2>5, <3>1, <3>2, <3>3 DEF TypeOK, Msgs, RecvAckLockFree
      <4>2. net' \subseteq net \cup R /\ \A q \in R : PktOK(q, next', rcvLastAck', rcvCurr')
        BY <2>1, <2>2, <2>3, TakesNet DEF PktOK, AckAck
      <4>3. next <= next' /\ rcvLastAck <= rcvLastAck' /\ rcvCurr <= rcvCurr'
        BY <1>s, <1>t, <3>3 DEF TypeOK
      <4>4. NetOK'
        BY <1>t, <4>1, <4>2, <4>3, NetStep
      <4> QED
        BY <1>t, <2>4, <3>3, <4>1, <4>4, WholeStep DEF NeverBroken
  <2>7. CASE ~(p.ack >= lastAck)
    <3>1. UNCHANGED <<lastAck, flow, dgram, added, next, expired, sndPc, rexmit,
                       rcvCurr, rcvLoss, rcvLargest, rcvLastAck, rcvLastAckAck>>
      BY <2>1, <2>7
    <3>2. sndLoss' \subseteq sndLoss
      BY <2>1
    <3> QED
      <4>1. TypeOK'
        BY <1>s, <1>t, <3>1, <3>2 DEF TypeOK, Msgs
      <4>2. net' \subseteq net \cup R /\ \A q \in R : PktOK(q, next', rcvLastAck', rcvCurr')
        BY <2>1, <2>2, <2>3, TakesNet DEF PktOK, AckAck
      <4>3. next <= next' /\ rcvLastAck <= rcvLastAck' /\ rcvCurr <= rcvCurr'
        BY <1>s, <1>t, <3>1 DEF TypeOK
      <4>4. NetOK'
        BY <1>t, <4>1, <4>2, <4>3, NetStep
      <4> QED
        BY <1>t, <2>4, <3>1, <4>1, <4>4, WholeStep DEF NeverBroken
  <2> QED
    BY <2>6, <2>7
<1>2. CASE RecvLiteAck(p)
  <2>1. /\ p.type = "LITE" /\ sndLoss' = {s \in sndLoss : s >= p.ack}
        /\ IF p.ack >= lastAck
           THEN lastAck' = p.ack /\ flow' = flow - (p.ack - lastAck)
           ELSE UNCHANGED <<lastAck, flow>>
        /\ UNCHANGED <<dgram, added, next, expired, sndPc, rexmit, broken,
                       rcvCurr, rcvLoss, rcvLargest, rcvLastAck, rcvLastAckAck>>
    BY <1>2 DEF RecvLiteAck, LossAfterAck, bufVars, rcvVars
  <2>2. net' \subseteq net
    BY <1>2, TakesNet DEF RecvLiteAck
  <2>3. p.ack \in 0 .. (rcvCurr + 1) /\ p.ack <= next
    BY <1>p, <1>s, <1>t, <2>1 DEF PktOK, TypeOK
  <2>4. RecvAckLockFree
    BY <1>2 DEF RecvLiteAck
  <2>5. TypeOK'
    <3>1. CASE p.ack >= lastAck
      <4>1. lastAck' = p.ack /\ flow' = flow - (p.ack - lastAck)
        BY <2>1, <3>1
      <4>2. sndLoss' \subseteq p.ack .. (next - 1)
        <5>1. SUFFICES ASSUME NEW s \in sndLoss' PROVE s \in p.ack .. (next - 1)
          OBVIOUS
        <5>2. s \in sndLoss /\ s >= p.ack
          BY <2>1
        <5>3. next \in Int /\ lastAck \in Int /\ p.ack \in Int /\ sndLoss \subseteq lastAck .. (next - 1)
          BY <1>s, <1>t, <2>3 DEF TypeOK
        <5> QED
          BY <5>2, <5>3
      <4>3. UNCHANGED <<dgram, added, next, expired, sndPc, rexmit,
                         rcvCurr, rcvLoss, rcvLargest, rcvLastAck, rcvLastAckAck>>
        BY <2>1
      <4> QED
        BY <1>s, <1>t, <2>3, <2>4, <3>1, <4>1, <4>2, <4>3 DEF TypeOK, Msgs, RecvAckLockFree
    <3>2. CASE ~(p.ack >= lastAck)
      <4>1. UNCHANGED <<lastAck, flow, dgram, added, next, expired, sndPc, rexmit,
                         rcvCurr, rcvLoss, rcvLargest, rcvLastAck, rcvLastAckAck>>
        BY <2>1, <3>2
      <4>2. sndLoss' \subseteq sndLoss
        BY <2>1
      <4> QED
        BY <1>s, <1>t, <4>1, <4>2 DEF TypeOK, Msgs
    <3> QED
      BY <3>1, <3>2
  <2>6. next <= next' /\ rcvLastAck <= rcvLastAck' /\ rcvCurr <= rcvCurr'
    BY <1>s, <1>t, <2>1 DEF TypeOK
  <2>7. NetOK'
    BY <1>t, <2>2, <2>5, <2>6, NetSame
  <2> QED
    BY <1>t, <2>1, <2>5, <2>7, WholeStep DEF NeverBroken
<1>3. CASE RecvNak(p)
  <2>1. p.type = "NAK" /\ broken' = (p.hi >= next)
        /\ UNCHANGED <<dgram, added, next, lastAck, flow, expired, sndPc, rexmit,
                       rcvCurr, rcvLoss, rcvLargest, rcvLastAck, rcvLastAckAck>>
    BY <1>3 DEF RecvNak, bufVars, rcvVars
  <2>2. p.lo \in Nat /\ p.hi \in Nat /\ p.lo <= p.hi /\ p.hi < next
    BY <1>p, <1>s, <1>t, <2>1 DEF PktOK, TypeOK
  <2>a. lastAck \in Nat /\ next \in Nat
    BY <1>s, <1>t DEF TypeOK
  <2>4. ~(p.hi >= next)
    BY <2>2, <2>a
  <2>3. ~broken'
    BY <2>1, <2>4, Zenon
  <2>5. PICK R : R = IF p.lo >= lastAck THEN {} ELSE {DropReq(p.lo, Min({p.hi, lastAck - 1}), 0)}
    OBVIOUS
  <2>6. sndLoss' = sndLoss \cup NakInserts(p.lo, p.hi) /\ Takes(p, R)
    BY <1>3, <2>4, <2>5 DEF RecvNak
  <2>7. sndLoss' \subseteq lastAck .. (next - 1)
    <3>1. Max({p.lo, lastAck}) = IF p.lo >= lastAck THEN p.lo ELSE lastAck
      BY <2>2, <2>a, MaxOfTwo
    <3>2. NakInserts(p.lo, p.hi) \subseteq lastAck .. (next - 1)
      BY <2>2, <2>a, <3>1 DEF NakInserts
    <3> QED
      BY <1>t, <2>6, <3>2 DEF TypeOK
  <2>8. TypeOK'
    BY <1>s, <1>t, <2>1, <2>7 DEF TypeOK, Msgs
  <2>9. net' \subseteq net \cup R /\ \A q \in R : PktOK(q, next', rcvLastAck', rcvCurr')
    <3>1. lastAck - 1 \in Int /\ p.hi \in Int
      BY <2>2, <2>a
    <3>2. Min({p.hi, lastAck - 1}) = IF p.hi <= lastAck - 1 THEN p.hi ELSE lastAck - 1
      BY <3>1, MinOfTwo
    <3>3. PICK h : h = Min({p.hi, lastAck - 1})
      OBVIOUS
    <3>4. p.lo < lastAck => h \in Nat /\ p.lo <= h /\ h < next
      BY <2>2, <2>a, <3>2, <3>3
    <3>5. R = IF p.lo >= lastAck THEN {} ELSE {DropReq(p.lo, h, 0)}
      BY <2>5, <3>3
    <3> QED
      BY <2>1, <2>2, <2>6, <2>a, <3>4, <3>5, TakesNet DEF PktOK, DropReq
  <2>10. next <= next' /\ rcvLastAck <= rcvLastAck' /\ rcvCurr <= rcvCurr'
    BY <1>s, <1>t, <2>1 DEF TypeOK
  <2>11. NetOK'
    BY <1>t, <2>8, <2>9, <2>10, NetStep
  <2> QED
    BY <1>t, <2>1, <2>3, <2>8, <2>11, WholeStep DEF NeverBroken
<1> QED
  BY <1>1, <1>2, <1>3

(* The sender's half of a step of the receiver or of the network: nothing. *)
SenderKept == UNCHANGED <<dgram, added, next, lastAck, flow, sndLoss, expired, sndPc, rexmit, broken>>

LEMMA RcvSide ==
  ASSUME SeqInv, SenderKept,
         NEW c, rcvCurr' = c, c \in rcvCurr .. (next - 1),
         NEW a, rcvLastAck' = a, a \in rcvLastAck .. (c + 1),
         NEW k, rcvLastAckAck' = k, k \in 0 .. a,
         rcvLoss' \subseteq 0 .. c, rcvLargest' \in Int,
         NEW R, net' \subseteq net \cup R, \A q \in R : PktOK(q, next, a, c)
  PROVE  SeqInv'
<1> USE DEF SeqInv
<1>s. NPkts \in Nat \ {0} /\ Capacity \in Nat \ {0}
  BY Sizes
<1>1. TypeOK'
  BY <1>s DEF SenderKept, TypeOK, Msgs
<1>2. next <= next' /\ rcvLastAck <= rcvLastAck' /\ rcvCurr <= rcvCurr'
  BY <1>s DEF SenderKept, TypeOK
<1>3. \A q \in R : PktOK(q, next', rcvLastAck', rcvCurr')
  BY DEF SenderKept
<1>4. NetOK'
  BY <1>1, <1>2, <1>3, NetStep
<1>5. WholeMsgs' /\ ~broken'
  BY WholeStep, Zenon DEF SenderKept, NeverBroken
<1> QED
  BY <1>1, <1>4, <1>5 DEF NeverBroken

(* Only the buffer, the application or the worker's program counter moves. *)
LEMMA RcvKept ==
  ASSUME SeqInv, SenderKept, net' \subseteq net,
         UNCHANGED <<rcvCurr, rcvLoss, rcvLargest, rcvLastAck, rcvLastAckAck>>
  PROVE  SeqInv'
<1>1. PICK R : R = {}
  OBVIOUS
<1>2. PICK c, a, k : c = rcvCurr /\ a = rcvLastAck /\ k = rcvLastAckAck
  OBVIOUS
<1>3. net' \subseteq net \cup R /\ \A q \in R : PktOK(q, next, a, c)
  BY <1>1
<1>4. /\ rcvCurr' = c /\ c \in rcvCurr .. (next - 1) /\ rcvLastAck' = a /\ a \in rcvLastAck .. (c + 1)
      /\ rcvLastAckAck' = k /\ k \in 0 .. a /\ rcvLoss' \subseteq 0 .. c /\ rcvLargest' \in Int
  BY <1>2, Sizes DEF SeqInv, TypeOK
<1> QED
  BY <1>3, <1>4, RcvSide

(* Data, drop requests and ACKACKs arrive. *)
LEMMA SeqInvArrivals ==
  ASSUME SeqInv,
         NEW p \in net, RecvBelated(p) \/ RecvRedundant(p) \/ RecvNew(p) \/ RecvDropReq(p) \/ RecvAckAck(p)
  PROVE  SeqInv'
<1>t. TypeOK /\ NetOK
  BY DEF SeqInv
<1>s. NPkts \in Nat \ {0} /\ next \in Nat /\ rcvCurr \in -1 .. (next - 1)
      /\ rcvLastAck \in 0 .. (rcvCurr + 1) /\ rcvLastAckAck \in 0 .. rcvLastAck
      /\ rcvLoss \subseteq 0 .. rcvCurr
  BY <1>t, Sizes DEF TypeOK
<1>p. PktOK(p, next, rcvLastAck, rcvCurr)
  BY <1>t DEF NetOK
<1>k. PICK a, k : a = rcvLastAck /\ k = rcvLastAckAck
  OBVIOUS
<1>1. CASE RecvBelated(p)
  <2>1. SenderKept /\ UNCHANGED <<rcvCurr, rcvLoss, rcvLargest, rcvLastAck, rcvLastAckAck>>
    BY <1>1 DEF RecvBelated, SenderKept, bufVars, sndVars, rcvVars
  <2>2. net' \subseteq net
    BY <1>1, TakesNet DEF RecvBelated
  <2> QED
    BY <2>1, <2>2, RcvKept
<1>2. CASE RecvRedundant(p) \/ RecvNew(p)
  <2>1. SenderKept /\ UNCHANGED <<rcvLastAck, rcvLastAckAck>> /\ p.type = "DATA"
        /\ rcvCurr' = Max({rcvCurr, p.seq})
    BY <1>2 DEF RecvRedundant, RecvNew, Store, SenderKept, bufVars, sndVars
  <2>2. p.seq \in 0 .. (next - 1)
    BY <1>p, <2>1 DEF PktOK
  <2>3. PICK c : rcvCurr' = c
    OBVIOUS
  <2>4. c = IF rcvCurr >= p.seq THEN rcvCurr ELSE p.seq
    <3>1. rcvCurr \in Int /\ p.seq \in Int
      BY <1>s, <2>2
    <3> QED
      BY <2>1, <2>3, <3>1, MaxOfTwo
  <2>5. c \in rcvCurr .. (next - 1) /\ rcvLastAck' = a /\ a \in rcvLastAck .. (c + 1)
        /\ rcvLastAckAck' = k /\ k \in 0 .. a
    BY <1>k, <1>s, <2>1, <2>2, <2>4
  <2>6. PICK R : R = IF RecvNew(p) THEN LossReport(p.seq) ELSE {}
    OBVIOUS
  <2>7. net' \subseteq net \cup R
    BY <1>2, <2>6, TakesNet DEF RecvRedundant, RecvNew
  <2>8. \A q \in R : PktOK(q, next, a, c)
    <3>1. R = {} \/ (R = {Nak(rcvCurr + 1, p.seq - 1)} /\ Gap(p.seq) # {})
      BY <2>6 DEF LossReport
    <3>2. Gap(p.seq) # {} => rcvCurr + 1 <= p.seq - 1
      BY <1>s, <2>2 DEF Gap
    <3> QED
      BY <1>s, <2>2, <2>4, <3>1, <3>2 DEF PktOK, Nak
  <2>9. rcvLoss' \subseteq 0 .. c /\ rcvLargest' \in Int
    <3>1. CASE p.seq > rcvCurr
      <4>1. LossInsert({}) \/ LossInsert(Gap(p.seq))
        BY <1>2, <3>1 DEF RecvRedundant, RecvNew
      <4>2. rcvLoss' \subseteq rcvLoss \cup Gap(p.seq) /\ rcvLargest' \in Int
        BY <1>t, <4>1, LossInsertIs
      <4>3. Gap(p.seq) \subseteq 0 .. c
        BY <1>s, <2>2, <2>4, <3>1 DEF Gap
      <4>4. rcvLoss \subseteq 0 .. c
        BY <1>s, <2>2, <2>4
      <4> QED
        BY <4>2, <4>3, <4>4
    <3>2. CASE ~(p.seq > rcvCurr)
      <4>1. LossRemove(p.seq, p.seq)
        BY <1>2, <3>2 DEF RecvRedundant, RecvNew
      <4>2. p.seq \in Int /\ rcvCurr' \in Int
        BY <1>s, <2>2, <2>3, <2>4
      <4>3. rcvLoss' \subseteq rcvLoss /\ rcvLargest' \in Int
        BY <1>t, <4>1, <4>2, LossRemoveIs
      <4>4. rcvLoss \subseteq 0 .. c
        BY <1>s, <2>2, <2>4
      <4> QED
        BY <4>3, <4>4
    <3> QED
      BY <3>1, <3>2
  <2> QED
    BY <2>1, <2>3, <2>5, <2>7, <2>8, <2>9, RcvSide
<1>3. CASE RecvDropReq(p)
  <2>d. dgram' = dgram
    <3>1. Drop(p.lo, p.hi, p.msg)
      BY <1>3 DEF RecvDropReq
    <3> QED
      BY <3>1 DEF Drop
  <2>1. SenderKept /\ UNCHANGED <<rcvLastAck, rcvLastAckAck>> /\ p.type = "DROPREQ"
    BY <1>3, <2>d DEF RecvDropReq, SenderKept, sndVars
  <2>l. LossRemove(p.lo, p.hi)
    BY <1>3 DEF RecvDropReq
  <2>c. rcvCurr' = Max({rcvCurr, p.hi}) \/ rcvCurr' = rcvCurr
    BY <1>3 DEF RecvDropReq
  <2>2. p.lo \in Nat /\ p.hi \in Nat /\ p.hi < next
    BY <1>p, <2>1 DEF PktOK
  <2>3. PICK c : rcvCurr' = c
    OBVIOUS
  <2>4. c \in rcvCurr .. (next - 1)
    <3>1. rcvCurr \in Int /\ p.hi \in Int
      BY <1>s, <2>2
    <3>2. Max({rcvCurr, p.hi}) = IF rcvCurr >= p.hi THEN rcvCurr ELSE p.hi
      BY <3>1, MaxOfTwo
    <3>3. PICK x : x = Max({rcvCurr, p.hi})
      OBVIOUS
    <3>4. x \in rcvCurr .. (next - 1)
      BY <1>s, <2>2, <3>2, <3>3
    <3>5. c = x \/ c = rcvCurr
      BY <2>c, <2>3, <3>3
    <3> QED
      BY <1>s, <3>4, <3>5
  <2>5. rcvLastAck' = a /\ a \in rcvLastAck .. (c + 1) /\ rcvLastAckAck' = k /\ k \in 0 .. a
    BY <1>k, <1>s, <2>1, <2>4
  <2>6. rcvLoss' \subseteq 0 .. c /\ rcvLargest' \in Int
    <3>1. p.hi \in Int /\ rcvCurr' \in Int
      BY <1>s, <2>2, <2>3, <2>4
    <3>2. rcvLoss' \subseteq rcvLoss /\ rcvLargest' \in Int
      BY <1>t, <2>l, <3>1, LossRemoveIs
    <3>3. rcvLoss \subseteq 0 .. c
      BY <1>s, <2>4
    <3> QED
      BY <3>2, <3>3
  <2>7. PICK R : R = {}
    OBVIOUS
  <2>8. net' \subseteq net \cup R /\ \A q \in R : PktOK(q, next, a, c)
    BY <1>3, <2>7, TakesNet DEF RecvDropReq
  <2> QED
    BY <2>1, <2>3, <2>4, <2>5, <2>6, <2>8, RcvSide
<1>4. CASE RecvAckAck(p)
  <2>1. SenderKept /\ UNCHANGED <<rcvCurr, rcvLoss, rcvLargest, rcvLastAck>> /\ p.type = "ACKACK"
        /\ rcvLastAckAck' = Max({rcvLastAckAck, p.ack})
    BY <1>4 DEF RecvAckAck, SenderKept, bufVars, sndVars
  <2>2. p.ack \in 0 .. rcvLastAck
    BY <1>p, <2>1 DEF PktOK
  <2>3. PICK c, j : c = rcvCurr /\ rcvLastAckAck' = j
    OBVIOUS
  <2>4. j \in 0 .. a
    <3>1. rcvLastAckAck \in Int /\ p.ack \in Int
      BY <1>s, <2>2
    <3>2. Max({rcvLastAckAck, p.ack}) = IF rcvLastAckAck >= p.ack THEN rcvLastAckAck ELSE p.ack
      BY <3>1, MaxOfTwo
    <3> QED
      BY <1>k, <1>s, <2>1, <2>2, <2>3, <3>2
  <2>5. c \in rcvCurr .. (next - 1) /\ rcvCurr' = c /\ rcvLastAck' = a /\ a \in rcvLastAck .. (c + 1)
        /\ rcvLoss' \subseteq 0 .. c /\ rcvLargest' \in Int
    BY <1>k, <1>s, <1>t, <2>1, <2>3 DEF TypeOK
  <2>6. PICK R : R = {}
    OBVIOUS
  <2>7. net' \subseteq net \cup R /\ \A q \in R : PktOK(q, next, a, c)
    BY <1>4, <2>6, TakesNet DEF RecvAckAck
  <2> QED
    BY <2>1, <2>3, <2>4, <2>5, <2>7, RcvSide
<1> QED
  BY <1>1, <1>2, <1>3, <1>4

(* ACKs go out, the application receives, packets get lost. *)
LEMMA SeqInvTimers ==
  ASSUME SeqInv, start \in Nat,
         AckTimer \/ SendLiteAck \/ AppReceives \/ \E p \in net : Lose(p)
  PROVE  SeqInv'
<1>t. TypeOK /\ NetOK
  BY DEF SeqInv
<1>s. NPkts \in Nat \ {0} /\ Capacity \in Nat /\ next \in Nat /\ rcvCurr \in -1 .. (next - 1)
      /\ rcvLastAck \in 0 .. (rcvCurr + 1) /\ rcvLastAckAck \in 0 .. rcvLastAck
      /\ rcvLoss \subseteq 0 .. rcvCurr /\ rcvLargest \in Int
  BY <1>t, Sizes DEF TypeOK
<1>k. PICK c, a, k, f : c = rcvCurr /\ a = rcvLastAck /\ k = rcvLastAckAck /\ f = FirstNoncont
  OBVIOUS
<1>f. f \in 0 .. (rcvCurr + 1)
  BY <1>k, <1>t, FirstNoncontIs
<1>1. CASE AckAdvances
  <2>1. SenderKept /\ UNCHANGED <<net, rcvCurr, rcvLoss, rcvLargest, rcvLastAckAck>>
        /\ rcvLastAck' = f /\ f > rcvLastAck
    BY <1>1, <1>k DEF AckAdvances, SenderKept, bufVars, sndVars, netVars
  <2>2. PICK R : R = {}
    OBVIOUS
  <2>3. net' \subseteq net \cup R /\ \A q \in R : PktOK(q, next, f, c)
    BY <2>1, <2>2
  <2>4. /\ rcvCurr' = c /\ c \in rcvCurr .. (next - 1) /\ f \in rcvLastAck .. (c + 1)
        /\ rcvLastAckAck' = k /\ k \in 0 .. f /\ rcvLoss' \subseteq 0 .. c /\ rcvLargest' \in Int
    BY <1>f, <1>k, <1>s, <2>1
  <2> QED
    BY <2>1, <2>3, <2>4, RcvSide
<1>2. CASE SendLiteAck
  <2>1. SenderKept /\ UNCHANGED <<rcvCurr, rcvLoss, rcvLargest, rcvLastAck, rcvLastAckAck>>
        /\ net' = net \cup {LiteAck(f)}
    BY <1>2, <1>k DEF SendLiteAck, Sends, SenderKept, bufVars, sndVars, rcvVars
  <2>2. PICK R : R = {LiteAck(f)}
    OBVIOUS
  <2>3. net' \subseteq net \cup R /\ \A q \in R : PktOK(q, next, a, c)
    BY <1>f, <1>k, <1>s, <2>1, <2>2 DEF PktOK, LiteAck
  <2>4. /\ rcvCurr' = c /\ c \in rcvCurr .. (next - 1) /\ rcvLastAck' = a /\ a \in rcvLastAck .. (c + 1)
        /\ rcvLastAckAck' = k /\ k \in 0 .. a /\ rcvLoss' \subseteq 0 .. c /\ rcvLargest' \in Int
    BY <1>k, <1>s, <2>1
  <2> QED
    BY <2>1, <2>3, <2>4, RcvSide
<1>3. CASE AckSends
  <2>1. SenderKept /\ UNCHANGED <<rcvCurr, rcvLoss, rcvLargest, rcvLastAck, rcvLastAckAck>>
        /\ (net' = net \/ net' = net \cup {Ack(rcvLastAck, AvailSize)})
    BY <1>3 DEF AckSends, Sends, SenderKept, bufVars, sndVars, netVars
  <2>2. PICK R, l : R = {Ack(rcvLastAck, l)} /\ l = AvailSize
    OBVIOUS
  <2>3. l \in Int /\ l <= Capacity
    BY <1>t, <2>2, AvailSizeIs
  <2>4. net' \subseteq net \cup R /\ \A q \in R : PktOK(q, next, a, c)
    BY <1>k, <1>s, <2>1, <2>2, <2>3 DEF PktOK, Ack
  <2>5. /\ rcvCurr' = c /\ c \in rcvCurr .. (next - 1) /\ rcvLastAck' = a /\ a \in rcvLastAck .. (c + 1)
        /\ rcvLastAckAck' = k /\ k \in 0 .. a /\ rcvLoss' \subseteq 0 .. c /\ rcvLargest' \in Int
    BY <1>k, <1>s, <2>1
  <2> QED
    BY <2>1, <2>4, <2>5, RcvSide
<1>4. CASE AckRepeats \/ AckWakes
  <2>1. SenderKept /\ UNCHANGED <<net, rcvCurr, rcvLoss, rcvLargest, rcvLastAck, rcvLastAckAck>>
    BY <1>4 DEF AckRepeats, AckWakes, TimerFires, SenderKept, bufVars, sndVars, netVars, rcvVars
  <2> QED
    BY <2>1, RcvKept
<1>5. CASE AppReceives
  <2>1. SenderKept /\ UNCHANGED <<net, rcvCurr, rcvLoss, rcvLargest, rcvLastAck, rcvLastAckAck>>
    BY <1>5 DEF AppReceives, AppWakes, ReceiveMessage, ReceiveChecks, ReceiveClears,
         ReceiveNothing, ReceiveAgain, Read, ReadInOrder, ReadOutOfOrder,
         SenderKept, bufVars, sndVars, netVars, rcvVars
  <2> QED
    BY <2>1, RcvKept
<1>6. CASE \E p \in net : Lose(p)
  <2>1. SenderKept /\ net' \subseteq net
        /\ UNCHANGED <<rcvCurr, rcvLoss, rcvLargest, rcvLastAck, rcvLastAckAck>>
    BY <1>6 DEF Lose, SenderKept, bufVars, sndVars, rcvVars
  <2> QED
    BY <2>1, RcvKept
<1> QED
  BY <1>1, <1>2, <1>3, <1>4, <1>5, <1>6 DEF AckTimer
-----------------------------------------------------------------------------
(* The receive buffer.                                                     *)

(* A message that starts before the nonread position ends before it. *)
LEMMA ReadyIsWhole ==
  ASSUME BufInv, non # start
  PROVE  /\ start \in Seqs /\ MsgOf[start] \in Msgs
         /\ Max(Pkts(MsgOf[start])) \in Seqs /\ start <= Max(Pkts(MsgOf[start]))
         /\ MsgOf[Max(Pkts(MsgOf[start]))] = MsgOf[start]
         /\ Max(Pkts(MsgOf[start])) < non
         /\ \A s \in Pkts(MsgOf[start]) : s \in Seqs /\ s <= Max(Pkts(MsgOf[start]))
<1>s. NPkts \in Nat \ {0} /\ \A s : s \in Seqs <=> s \in Nat /\ s < NPkts
  BY Sizes
<1>1. start \in Nat /\ non \in Nat /\ start < non /\ non <= NPkts /\ IsLast(non - 1)
  BY <1>s DEF BufInv
<1>2. start \in Seqs /\ MsgOf[start] \in Msgs /\ start \in Pkts(MsgOf[start])
  BY <1>s, <1>1 DEF Msgs, Pkts
<1>3. PICK e : e = Max(Pkts(MsgOf[start]))
  OBVIOUS
<1>4. /\ e \in Seqs /\ MsgOf[e] = MsgOf[start] /\ start <= e
      /\ \A s \in Pkts(MsgOf[start]) : s \in Seqs /\ s <= e
  BY <1>2, <1>3, MsgEnds DEF Pkts
<1>5. e < non
  <2>1. SUFFICES ASSUME e >= non PROVE FALSE
    BY <1>s, <1>1, <1>4
  <2>l. PICK l : l = non - 1
    OBVIOUS
  <2>2. non \in Seqs /\ l \in Seqs /\ start <= l /\ l <= e /\ start <= non /\ non <= e /\ l + 1 = non
        /\ l # NPkts - 1
    BY <1>s, <1>1, <1>4, <2>1, <2>l
  <2>3. MsgOf[non] = MsgOf[start] /\ MsgOf[l] = MsgOf[start]
    BY <1>2, <1>4, <2>2, Consecutive
  <2> QED
    BY <1>1, <2>l, <2>2, <2>3 DEF IsLast
<1> QED
  BY <1>2, <1>3, <1>4, <1>5

LEMMA BufInvInit == Init => BufInv
BY Sizes DEF Init, BufInit, BufInv

LEMMA BufStore ==
  ASSUME BufInv, NEW s \in Seqs, Store(s)
  PROVE  BufInv' /\ start' = start /\ \A t \in Int : Received(t) => Received(t)'
<1>s. NPkts \in Nat \ {0} /\ \A t : t \in Seqs <=> t \in Nat /\ t < NPkts
  BY Sizes
<1>1. /\ start <= s /\ s \notin held \cup readAt \cup dropAt /\ held' = held \cup {s}
      /\ non' = Extended(non, held') /\ UNCHANGED <<start, readAt, dropAt>>
  BY DEF Store, Fits
<1>2. PICK n, h : n = non' /\ h = held'
  OBVIOUS
<1>3. non \in 0 .. NPkts /\ start \in Nat /\ start <= non
  BY <1>s DEF BufInv
<1>4. /\ n \in non .. NPkts /\ non .. (n - 1) \subseteq h
      /\ n = non \/ IsLast(n - 1)
  BY <1>1, <1>2, <1>3, ExtendedIs
<1>5. \A t \in start .. (n - 1) : t \in h
  <2>1. SUFFICES ASSUME NEW t \in start .. (n - 1) PROVE t \in h
    OBVIOUS
  <2>2. t \in start .. (non - 1) \/ t \in non .. (n - 1)
    BY <1>s, <1>3, <1>4
  <2> QED
    BY <1>1, <1>2, <1>4, <2>2 DEF BufInv
<1>6. n # start => IsLast(n - 1)
  BY <1>4 DEF BufInv
<1>7. n \in start .. NPkts
  BY <1>s, <1>3, <1>4
<1>8. /\ h \subseteq Seqs /\ \A t \in h : t >= start /\ t \notin readAt \cup dropAt
  BY <1>1, <1>2 DEF BufInv
<1>9. BufInv'
  BY <1>1, <1>2, <1>5, <1>6, <1>7, <1>8 DEF BufInv, IsLast
<1> QED
  BY <1>1, <1>9 DEF Received

LEMMA BufRead ==
  ASSUME BufInv, NEW m \in Msgs, Read(m)
  PROVE  /\ BufInv' /\ start <= start' /\ \A t \in Int : Received(t) => Received(t)'
         /\ held' \subseteq held
         /\ start' # start => start' - 1 \in held \cup readAt \cup dropAt
         /\ readAt' \cup dropAt' \subseteq held \cup readAt \cup dropAt
<1>s. NPkts \in Nat \ {0} /\ \A t : t \in Seqs <=> t \in Nat /\ t < NPkts
  BY Sizes
<1>b. start \in 0 .. NPkts /\ non \in start .. NPkts /\ held \subseteq Seqs
      /\ readAt \subseteq Seqs /\ dropAt \subseteq Seqs /\ readAt \cup dropAt \subseteq Seqs
  BY DEF BufInv
<1>k. PICK b, n, h, r, d : start' = b /\ non' = n /\ held' = h /\ readAt' = r /\ dropAt' = d
  OBVIOUS
<1>m. Pkts(m) \subseteq Seqs
  BY DEF Pkts
<1>1. CASE ReadInOrder(m)
  <2>1. PICK e : e = Max(Pkts(m))
    OBVIOUS
  <2>2. /\ non # start /\ m = MsgOf[start] /\ h = held \ Pkts(m)
        /\ b = PastFillers(e + 1, readAt \cup dropAt) /\ n = IF non < b THEN b ELSE non
        /\ r = {s \in readAt : s >= b} /\ d = {s \in dropAt : s >= b}
    BY <1>1, <1>k, <2>1 DEF ReadInOrder, InOrderReady, Released
  <2>3. /\ start <= e /\ e < non /\ e \in Seqs /\ \A s \in Pkts(m) : s \in Seqs /\ s <= e
        /\ start \in Pkts(m)
    BY <2>1, <2>2, ReadyIsWhole DEF Pkts
  <2>4. e + 1 \in 0 .. NPkts
    BY <1>s, <2>3
  <2>5. /\ b \in (e + 1) .. NPkts /\ b \notin readAt \cup dropAt
        /\ \A t \in (e + 1) .. (b - 1) : t \in readAt \cup dropAt
    BY <1>b, <2>2, <2>4, PastFillersIs
  <2>a. /\ start \in Nat /\ non \in Nat /\ e \in Nat /\ b \in Nat /\ non <= NPkts /\ b <= NPkts
        /\ start <= e /\ e < non /\ e < b
    BY <1>s, <1>b, <2>3, <2>5
  <2>n. n = IF non < b THEN b ELSE non
    BY <2>2
  <2>6. b \in 0 .. NPkts /\ n \in b .. NPkts /\ start < b
    BY <1>s, <2>a, <2>n
  <2>7. \A s \in h : s >= b /\ s \in Seqs /\ s \in held /\ s \notin r \cup d
    <3>1. SUFFICES ASSUME NEW s \in h PROVE s >= b /\ s \in Seqs /\ s \in held /\ s \notin r \cup d
      OBVIOUS
    <3>2. s \in held /\ s \notin Pkts(m) /\ s \in Seqs /\ s >= start /\ s \notin readAt \cup dropAt
      BY <2>2 DEF BufInv
    <3>3. s > e
      <4>1. SUFFICES ASSUME s <= e PROVE FALSE
        BY <1>s, <2>3, <3>2
      <4>2. MsgOf[s] = MsgOf[start]
        <5>1. start \in Seqs /\ MsgOf[start] = MsgOf[e]
          BY <1>m, <2>1, <2>2, <2>3, ReadyIsWhole
        <5> QED
          BY <2>3, <3>2, <4>1, <5>1, Consecutive
      <4> QED
        BY <2>2, <3>2, <4>2 DEF Pkts
    <3>4. s >= b
      BY <1>s, <2>3, <2>5, <3>2, <3>3
    <3> QED
      BY <2>2, <3>2, <3>4
  <2>8. \A s \in b .. (n - 1) : s \in h
    <3>1. SUFFICES ASSUME NEW s \in b .. (n - 1) PROVE s \in h
      OBVIOUS
    <3>2. s \in start .. (non - 1) /\ ~(s <= e)
      BY <1>s, <2>a, <2>n
    <3>3. s \in held /\ s \notin Pkts(m)
      BY <2>3, <3>2 DEF BufInv
    <3> QED
      BY <2>2, <3>3
  <2>9. n # b => IsLast(n - 1)
    BY <2>2 DEF BufInv
  <2>10. r \subseteq readAt /\ d \subseteq dropAt
    BY <2>2
  <2>11. BufInv'
    BY <1>b, <1>k, <2>5, <2>6, <2>7, <2>8, <2>9, <2>10 DEF BufInv, IsLast
  <2>12. \A t \in Int : Received(t) => t < b \/ t \in h \cup r \cup d
    <3>1. SUFFICES ASSUME NEW t \in Int, Received(t) PROVE t < b \/ t \in h \cup r \cup d
      OBVIOUS
    <3>2. CASE t < start
      BY <1>b, <1>s, <2>6, <3>2
    <3>3. CASE t \in held
      <4>1. t \in h \/ t \in Pkts(m)
        BY <2>2, <3>3
      <4>2. t \in Pkts(m) => t <= e
        BY <2>3
      <4> QED
        BY <2>a, <4>1, <4>2
    <3>4. CASE t \in readAt \cup dropAt
      BY <2>a, <2>2, <3>4
    <3> QED
      BY <3>1, <3>2, <3>3, <3>4 DEF Received
  <2>13. b - 1 \in held \cup readAt \cup dropAt
    <3>1. CASE b = e + 1
      <4>1. e \in held
        BY <1>s, <1>b, <2>3 DEF BufInv
      <4> QED
        BY <1>s, <2>3, <3>1, <4>1
    <3>2. CASE b # e + 1
      <4>1. b - 1 \in (e + 1) .. (b - 1)
        BY <1>s, <2>3, <2>5, <3>2
      <4> QED
        BY <2>5, <4>1
    <3> QED
      BY <3>1, <3>2
  <2>14. h \subseteq held /\ start <= b
    BY <2>2, <2>a
  <2> QED
    BY <1>k, <2>10, <2>11, <2>12, <2>13, <2>14 DEF Received
<1>2. CASE ReadOutOfOrder(m)
  <2>1. PICK F : F = readAt \cup dropAt \cup Pkts(m)
    OBVIOUS
  <2>2. /\ non = start /\ Pkts(m) \subseteq held /\ h = held \ Pkts(m)
        /\ b = PastFillers(start, F) /\ n = IF non < b THEN b ELSE non
        /\ r = {s \in readAt \cup Pkts(m) : s >= b} /\ d = {s \in dropAt : s >= b}
    BY <1>2, <1>k, <2>1 DEF ReadOutOfOrder, InOrderReady, Released, Complete
  <2>3. F \subseteq Seqs
    BY <1>b, <1>m, <2>1
  <2>4. /\ b \in start .. NPkts /\ b \notin F /\ \A t \in start .. (b - 1) : t \in F
    BY <1>b, <2>2, <2>3, PastFillersIs
  <2>5. b \in 0 .. NPkts /\ n = b
    BY <1>s, <1>b, <2>2, <2>4
  <2>6. \A s \in h : s >= b /\ s \in Seqs /\ s \in held /\ s \notin r \cup d
    <3>1. SUFFICES ASSUME NEW s \in h PROVE s >= b /\ s \in Seqs /\ s \in held /\ s \notin r \cup d
      OBVIOUS
    <3>2. s \in held /\ s \notin Pkts(m) /\ s \in Seqs /\ s >= start /\ s \notin readAt \cup dropAt
      BY <2>2 DEF BufInv
    <3>3. s >= b
      BY <1>s, <1>b, <2>1, <2>4, <3>2
    <3> QED
      BY <2>2, <3>2, <3>3
  <2>7. r \subseteq Seqs /\ d \subseteq Seqs /\ b \notin r \cup d /\ r \cup d \subseteq held \cup readAt \cup dropAt
    BY <1>b, <1>m, <2>1, <2>2, <2>4
  <2>8. BufInv'
    <3>1. n \in b .. NPkts /\ \A s \in b .. (n - 1) : s \in h
      BY <1>s, <2>5
    <3> QED
      BY <1>k, <2>5, <2>6, <2>7, <3>1 DEF BufInv, IsLast
  <2>9. \A t \in Int : Received(t) => t < b \/ t \in h \cup r \cup d
    <3>1. SUFFICES ASSUME NEW t \in Int, Received(t) PROVE t < b \/ t \in h \cup r \cup d
      OBVIOUS
    <3>2. CASE t < start
      BY <1>b, <1>s, <2>4, <3>2
    <3>3. CASE t \in held \cup readAt \cup dropAt
      BY <1>s, <1>b, <2>2, <2>5, <3>3
    <3> QED
      BY <3>1, <3>2, <3>3 DEF Received
  <2>10. b # start => b - 1 \in held \cup readAt \cup dropAt
    BY <1>s, <1>b, <2>1, <2>2, <2>4
  <2> QED
    BY <1>b, <1>k, <1>s, <2>2, <2>4, <2>7, <2>8, <2>9, <2>10 DEF Received
<1> QED
  BY <1>1, <1>2 DEF Read

LEMMA BufDrop ==
  ASSUME BufInv, NEW lo \in Nat, NEW hi \in Seqs, NEW m, Drop(lo, hi, m)
  PROVE  /\ BufInv' /\ start <= start' /\ \A t \in Int : Received(t) => Received(t)'
         /\ held' \subseteq held
         /\ start' # start => start' - 1 \in readAt \cup dropAt \cup ToDrop(lo, hi, m)
         /\ readAt' \cup dropAt' \subseteq readAt \cup dropAt \cup ToDrop(lo, hi, m)
<1>s. NPkts \in Nat \ {0} /\ \A t : t \in Seqs <=> t \in Nat /\ t < NPkts
  BY Sizes
<1>b. start \in 0 .. NPkts /\ non \in start .. NPkts /\ held \subseteq Seqs
      /\ readAt \subseteq Seqs /\ dropAt \subseteq Seqs
  BY DEF BufInv
<1>k. PICK b, n, h, r, d : start' = b /\ non' = n /\ held' = h /\ readAt' = r /\ dropAt' = d
  OBVIOUS
<1>1. PICK G, F : G = ToDrop(lo, hi, m) /\ F = readAt \cup dropAt \cup G
  OBVIOUS
<1>2. /\ h = held \ G /\ b = PastFillers(start, F)
      /\ r = {s \in readAt \ G : s >= b} /\ d = {s \in dropAt \cup G : s >= b}
  BY <1>1, <1>k DEF Drop
<1>3. n = IF G # {} /\ Min(G) <= non THEN Extended(b, h) ELSE non
  BY <1>1, <1>k DEF Drop
<1>4. G \subseteq Seqs
  <2>1. \A t \in lo .. hi : t \in Seqs
    BY <1>s
  <2> QED
    BY <1>b, <1>1, <2>1 DEF ToDrop
<1>5. F \subseteq Seqs
  BY <1>b, <1>1, <1>4
<1>6. /\ b \in start .. NPkts /\ b \notin F /\ \A t \in start .. (b - 1) : t \in F
  BY <1>b, <1>2, <1>5, PastFillersIs
<1>a. b \in Nat /\ start \in Nat /\ non \in Nat /\ start <= b /\ start <= non /\ b <= NPkts /\ non <= NPkts
  BY <1>s, <1>b, <1>6
<1>7. \A s \in h : s >= b /\ s \in Seqs /\ s \in held /\ s \notin F
  <2>1. SUFFICES ASSUME NEW s \in h PROVE s >= b /\ s \in Seqs /\ s \in held /\ s \notin F
    OBVIOUS
  <2>2. s \in held /\ s \in Seqs /\ s >= start /\ s \notin F
    BY <1>1, <1>2 DEF BufInv
  <2>3. s >= b
    BY <1>s, <1>a, <1>6, <2>2
  <2> QED
    BY <2>2, <2>3
<1>8. r \subseteq F /\ d \subseteq F
  BY <1>1, <1>2
<1>9. n \in b .. NPkts /\ (\A s \in b .. (n - 1) : s \in h) /\ (n # b => IsLast(n - 1))
  <2>1. CASE G # {} /\ Min(G) <= non
    <3>1. b \in 0 .. NPkts /\ n = Extended(b, h)
      BY <1>a, <1>s, <1>3, <2>1
    <3> QED
      BY <3>1, ExtendedIs
  <2>2. CASE ~(G # {} /\ Min(G) <= non)
    <3>1. n = non
      BY <1>3, <2>2
    <3>2. \A g \in G : g \in Nat /\ g > non
      <4>1. SUFFICES ASSUME NEW g \in G PROVE g \in Nat /\ g > non
        OBVIOUS
      <4>2. G \subseteq Nat /\ G # {}
        BY <1>4, <1>s
      <4>3. Min(G) \in G /\ Min(G) <= g
        BY <4>2, MinIs
      <4>4. PICK x : x = Min(G)
        OBVIOUS
      <4>5. x \in Nat /\ x <= g /\ ~(x <= non) /\ g \in Nat
        BY <2>2, <4>2, <4>3, <4>4
      <4> QED
        BY <1>a, <4>5
    <3>3. start \notin F
      BY <1>1, <1>a, <3>2 DEF BufInv
    <3>4. b = start
      <4>1. SUFFICES ASSUME b # start PROVE FALSE
        OBVIOUS
      <4>2. start \in start .. (b - 1)
        BY <1>a, <4>1
      <4> QED
        BY <1>6, <3>3, <4>2
    <3>5. \A s \in b .. (n - 1) : s \in h
      <4>1. SUFFICES ASSUME NEW s \in b .. (n - 1) PROVE s \in h
        OBVIOUS
      <4>2. s \in held
        BY <3>1, <3>4 DEF BufInv
      <4>3. s \notin G
        BY <1>a, <3>1, <3>2, <3>4
      <4> QED
        BY <1>2, <4>2, <4>3
    <3> QED
      BY <1>a, <1>s, <3>1, <3>4, <3>5 DEF BufInv
  <2> QED
    BY <2>1, <2>2
<1>10. BufInv'
  <2>1. b \in 0 .. NPkts /\ h \subseteq Seqs /\ r \subseteq Seqs /\ d \subseteq Seqs
    BY <1>a, <1>s, <1>5, <1>7, <1>8
  <2>2. b \notin r \cup d /\ \A s \in h : s >= b /\ s \notin r \cup d
    BY <1>6, <1>7, <1>8
  <2> QED
    BY <1>k, <1>9, <2>1, <2>2 DEF BufInv, IsLast
<1>11. \A t \in Int : Received(t) => t < b \/ t \in h \cup r \cup d
  <2>1. SUFFICES ASSUME NEW t \in Int, Received(t) PROVE t < b \/ t \in h \cup r \cup d
    OBVIOUS
  <2>2. CASE t < start
    BY <1>a, <2>2
  <2>3. CASE t \in held \cup readAt \cup dropAt
    BY <1>a, <1>2, <2>3
  <2> QED
    BY <2>1, <2>2, <2>3 DEF Received
<1>12. b # start => b - 1 \in F
  <2>1. SUFFICES ASSUME b # start PROVE b - 1 \in F
    OBVIOUS
  <2>2. b - 1 \in start .. (b - 1)
    BY <1>a, <2>1
  <2> QED
    BY <1>6, <2>2
<1>13. h \subseteq held /\ start <= b
  BY <1>2, <1>a
<1> QED
  BY <1>k, <1>1, <1>8, <1>10, <1>11, <1>12, <1>13 DEF Received

(* Every step leaves the buffer alone, stores, reads or drops. *)
LEMMA BufSteps ==
  ASSUME SeqInv, Next
  PROVE  \/ UNCHANGED bufVars
         \/ \E p \in net : RecvNew(p) /\ p.seq \in Seqs /\ Store(p.seq)
         \/ \E m \in Msgs : ReceiveMessage(m) /\ Read(m)
         \/ \E p \in net : /\ RecvDropReq(p) /\ p.lo \in Nat /\ p.hi \in Seqs
                           /\ Drop(p.lo, p.hi, p.msg)
<1>1. CASE \E m \in Msgs : Sendmsg2(m) \/ Expire(m)
  BY <1>1 DEF Sendmsg2, Expire
<1>2. CASE SndWorker
  BY <1>2 DEF SndWorker, Pop, ExtractRexmit, ExtractDrop, PackUniqueData
<1>3. ASSUME NEW s \in Seqs, RecvData(s)
      PROVE  \/ UNCHANGED bufVars
             \/ \E p \in net : RecvNew(p) /\ p.seq \in Seqs /\ Store(p.seq)
  <2>1. PICK p \in net : p = Data(s) /\ (RecvBelated(p) \/ RecvRedundant(p) \/ RecvNew(p))
    BY <1>3 DEF RecvData
  <2>2. p.seq = s
    BY <2>1 DEF Data
  <2>3. CASE RecvNew(p)
    BY <2>2, <2>3 DEF RecvNew
  <2> QED
    BY <2>1, <2>3 DEF RecvBelated, RecvRedundant
<1>4. CASE RecvAcks \/ RecvLites \/ RecvNaks
  BY <1>4 DEF RecvAcks, RecvLites, RecvNaks, RecvAck, RecvLiteAck, RecvNak
<1>5. ASSUME NEW p \in net, RecvDropReq(p)
      PROVE  p.lo \in Nat /\ p.hi \in Seqs /\ Drop(p.lo, p.hi, p.msg)
  <2>1. PktOK(p, next, rcvLastAck, rcvCurr) /\ next \in Nat /\ next <= NPkts
    BY Sizes DEF SeqInv, NetOK, TypeOK
  <2>2. p.lo \in Nat /\ p.hi \in Nat /\ p.hi < next
    BY <1>5, <2>1 DEF PktOK, RecvDropReq
  <2> QED
    BY <1>5, <2>1, <2>2, Sizes DEF RecvDropReq
<1>6. ASSUME NEW p \in net, RecvAckAck(p) PROVE UNCHANGED bufVars
  BY <1>6 DEF RecvAckAck
<1>7. CASE CheckRexmitTimer \/ AckTimer \/ SendLiteAck
  BY <1>7 DEF CheckRexmitTimer, AckTimer, AckAdvances, AckRepeats, AckWakes, AckSends, SendLiteAck
<1>8. ASSUME NEW m \in Msgs, ReceiveMessage(m) PROVE Read(m)
  BY <1>8 DEF ReceiveMessage
<1>9. CASE AppWakes \/ ReceiveChecks \/ ReceiveClears \/ ReceiveNothing \/ ReceiveAgain
  BY <1>9 DEF AppWakes, ReceiveChecks, ReceiveClears, ReceiveNothing, ReceiveAgain
<1>10. CASE \E p \in net : Lose(p)
  BY <1>10 DEF Lose
<1> QED
  BY <1>1, <1>2, <1>3, <1>4, <1>5, <1>6, <1>7, <1>8, <1>9, <1>10 DEF Next, Losses, RecvControl, AppReceives

(* The buffer never forgets that it had a packet. *)
LEMMA BufMoves ==
  ASSUME SeqInv, BufInv, [Next]_vars
  PROVE  BufInv' /\ start <= start' /\ \A t \in Int : Received(t) => Received(t)'
<1>1. CASE UNCHANGED bufVars
  <2>1. start \in Int
    BY Sizes DEF BufInv
  <2> QED
    BY <1>1, <2>1 DEF bufVars, BufInv, Received, IsLast
<1>2. ASSUME NEW p \in net, RecvNew(p), p.seq \in Seqs, Store(p.seq)
      PROVE  BufInv' /\ start <= start' /\ \A t \in Int : Received(t) => Received(t)'
  <2>1. start \in Int
    BY Sizes DEF BufInv
  <2> QED
    BY <1>2, <2>1, BufStore
<1>3. ASSUME NEW m \in Msgs, Read(m)
      PROVE  BufInv' /\ start <= start' /\ \A t \in Int : Received(t) => Received(t)'
  BY <1>3, BufRead
<1>4. ASSUME NEW p \in net, p.lo \in Nat, p.hi \in Seqs, Drop(p.lo, p.hi, p.msg)
      PROVE  BufInv' /\ start <= start' /\ \A t \in Int : Received(t) => Received(t)'
  BY <1>4, BufDrop
<1>5. CASE UNCHANGED vars
  BY <1>1, <1>5 DEF vars
<1> QED
  BY <1>1, <1>2, <1>3, <1>4, <1>5, BufSteps

CoreInv == SeqInv /\ BufInv

LEMMA CoreInvNext == CoreInv /\ [Next]_vars => CoreInv'
<1> SUFFICES ASSUME CoreInv, [Next]_vars PROVE CoreInv'
  OBVIOUS
<1>0. SeqInv /\ BufInv /\ start \in Nat
  BY Sizes DEF CoreInv, BufInv
<1>1. SeqInv'
  <2>1. CASE \E m \in Msgs : Sendmsg2(m) \/ Expire(m)
    BY <1>0, <2>1, SeqInvSender
  <2>2. CASE SndWorker \/ CheckRexmitTimer
    BY <1>0, <2>2, SeqInvSender
  <2>3. CASE RecvAcks \/ RecvLites \/ RecvNaks
    BY <1>0, <2>3, SeqInvControl DEF RecvAcks, RecvLites, RecvNaks
  <2>4. CASE (\E s \in Seqs : RecvData(s)) \/ RecvControl
    BY <1>0, <2>4, SeqInvArrivals DEF RecvData, RecvControl
  <2>5. CASE AckTimer \/ SendLiteAck \/ AppReceives \/ \E p \in net : Lose(p)
    BY <1>0, <2>5, SeqInvTimers
  <2>6. CASE UNCHANGED vars
    <3>1. SenderKept /\ UNCHANGED <<net, rcvCurr, rcvLoss, rcvLargest, rcvLastAck, rcvLastAckAck>>
      BY <2>6 DEF vars, SenderKept, bufVars, sndVars, netVars, rcvVars
    <3> QED
      BY <1>0, <3>1, RcvKept
  <2> QED
    BY <2>1, <2>2, <2>3, <2>4, <2>5, <2>6 DEF Next, Losses
<1> QED
  BY <1>0, <1>1, BufMoves DEF CoreInv

(* CoreInv holds in every reachable state. *)
THEOREM CoreInvHolds == Spec => []CoreInv
<1>1. Init => CoreInv
  BY SeqInvInit, BufInvInit DEF CoreInv
<1> QED
  BY <1>1, CoreInvNext, PTL DEF Spec

(* The sender's and the receiver's numbers stay in order, and the sender   *)
(* retransmits only what it still has, whatever the network does.          *)
THEOREM TypeCorrect == Spec => []TypeOK
<1>1. CoreInv => TypeOK
  BY DEF CoreInv, SeqInv
<1> QED
  BY <1>1, CoreInvHolds, PTL

(* Neither end ever takes the other for an attacker: no ACK and no loss    *)
(* report goes beyond what was sent.                                       *)
THEOREM PeerTrusted == Spec => []NeverBroken
<1>1. CoreInv => NeverBroken
  BY DEF CoreInv, SeqInv
<1> QED
  BY <1>1, CoreInvHolds, PTL
-----------------------------------------------------------------------------
(* The sender's schedule.                                                  *)

LEMMA SchedInvNext == CoreInv /\ SchedInv /\ [Next]_vars => SchedInv'
<1> SUFFICES ASSUME CoreInv, SchedInv, [Next]_vars PROVE SchedInv'
  OBVIOUS
<1>t. TypeOK /\ NeverBroken /\ NetOK
  BY DEF CoreInv, SeqInv
<1>s. next \in Nat /\ lastAck \in Nat /\ flow \in Int /\ added \in Nat /\ next <= added
  BY <1>t, Sizes DEF TypeOK
<1> USE DEF SchedInv, Scheduled, WindowOpen, FlightSpan
<1>1. ASSUME NEW m \in Msgs, Sendmsg2(m) \/ Expire(m) PROVE SchedInv'
  BY <1>1 DEF Sendmsg2, Expire
<1>2. CASE Pop
  BY <1>2, <1>t DEF Pop, NeverBroken
<1>3. CASE ExtractRexmit
  BY <1>3 DEF ExtractRexmit
<1>4. CASE ExtractDrop
  BY <1>4 DEF ExtractDrop
<1>5. CASE PackUniqueData
  <2>1. sndPc = "unique" /\ UNCHANGED <<added, lastAck, flow, sndLoss>>
    BY <1>5 DEF PackUniqueData
  <2>2. CASE WindowOpen
    <3>1. (next' = added /\ sched' = sched) \/ sched' = TRUE
      BY <1>5, <2>2 DEF PackUniqueData, Sends
    <3>2. CASE sched' = TRUE
      BY <3>2, <1>5 DEF PackUniqueData
    <3>3. CASE next' = added /\ sched' = sched
      BY <1>5, <1>s, <2>1, <3>3 DEF PackUniqueData
    <3> QED
      BY <3>1, <3>2, <3>3
  <2>3. CASE ~WindowOpen
    <3>1. next' = next /\ sched' = sched
      BY <1>5, <2>3 DEF PackUniqueData
    <3> QED
      BY <1>5, <1>s, <2>1, <2>3, <3>1 DEF PackUniqueData
  <2> QED
    BY <2>2, <2>3
<1>6. ASSUME NEW p \in net, RecvAck(p) PROVE SchedInv'
  <2>1. /\ sndLoss' \subseteq sndLoss /\ UNCHANGED <<next, added, sndPc>> /\ ~broken
        /\ IF p.ack >= lastAck /\ p.ack <= next THEN lastAck' = p.ack ELSE lastAck' = lastAck
    BY <1>6 DEF RecvAck, LossAfterAck
  <2>2. sched \/ AckSchedules(p.ack) => sched'
    BY <1>6, Zenon DEF RecvAck
  <2>3. p.ack \in Int
    <3>1. p.type = "ACK" /\ PktOK(p, next, rcvLastAck, rcvCurr)
      BY <1>6, <1>t DEF RecvAck, NetOK
    <3> QED
      BY <3>1 DEF PktOK
  <2>4. CASE p.ack > lastAck
    BY <2>2, <2>4 DEF AckSchedules
  <2>5. CASE ~(p.ack > lastAck)
    <3>1. lastAck' = lastAck
      BY <1>s, <2>1, <2>3, <2>5
    <3>2. flow' > next - lastAck => sched' \/ WindowOpen
      BY <2>2, <3>1 DEF AckSchedules
    <3> QED
      BY <2>1, <2>2, <3>1, <3>2
  <2> QED
    BY <2>4, <2>5
<1>7. ASSUME NEW p \in net, RecvLiteAck(p) PROVE SchedInv'
  <2>1. /\ sndLoss' \subseteq sndLoss /\ UNCHANGED <<next, added, sndPc>> /\ ~broken
        /\ IF p.ack >= lastAck THEN lastAck' = p.ack /\ flow' = flow - (p.ack - lastAck)
                               ELSE lastAck' = lastAck /\ flow' = flow
    BY <1>7 DEF RecvLiteAck, LossAfterAck
  <2>2. sched \/ p.ack > lastAck => sched'
    BY <1>7, Zenon DEF RecvLiteAck
  <2>3. p.ack \in Int
    <3>1. p.type = "LITE" /\ PktOK(p, next, rcvLastAck, rcvCurr)
      BY <1>7, <1>t DEF RecvLiteAck, NetOK
    <3> QED
      BY <3>1 DEF PktOK
  <2>4. CASE p.ack > lastAck
    BY <2>2, <2>4
  <2>5. CASE ~(p.ack > lastAck)
    <3>1. lastAck' = lastAck /\ flow' = flow
      BY <1>s, <2>1, <2>3, <2>5
    <3> QED
      BY <2>1, <2>2, <3>1
  <2> QED
    BY <2>4, <2>5
<1>8. ASSUME NEW p \in net, RecvNak(p) PROVE SchedInv'
  BY <1>8 DEF RecvNak
<1>9. CASE CheckRexmitTimer
  BY <1>9 DEF CheckRexmitTimer
<1>10. CASE UNCHANGED <<added, next, lastAck, flow, sndLoss, sched, sndPc, broken>>
  BY <1>10
<1>11. CASE (\E s \in Seqs : RecvData(s)) \/ RecvControl \/ AckTimer \/ SendLiteAck \/ AppReceives
             \/ \E p \in net : Lose(p)
  <2>1. UNCHANGED sndVars
    BY <1>11 DEF RecvData, RecvBelated, RecvRedundant, RecvNew, RecvControl, RecvDropReq, RecvAckAck,
      AckTimer, AckAdvances, AckRepeats, AckWakes, AckSends, SendLiteAck, AppReceives, AppWakes,
      ReceiveMessage, ReceiveChecks, ReceiveClears, ReceiveNothing, ReceiveAgain, Lose
  <2> QED
    BY <1>10, <2>1 DEF sndVars
<1>12. CASE UNCHANGED vars
  BY <1>10, <1>12 DEF vars, sndVars
<1> QED
  BY <1>1, <1>2, <1>3, <1>4, <1>5, <1>6, <1>7, <1>8, <1>9, <1>11, <1>12
  DEF Next, Losses, SndWorker, RecvAcks, RecvLites, RecvNaks

(* CSndUList never forgets a socket that has something to do. *)
THEOREM NeverUnscheduled == Spec => []Scheduled
<1>1. Init => SchedInv
  BY DEF Init, SchedInv, Scheduled
<1>2. SchedInv => Scheduled
  BY DEF SchedInv
<1> QED
  BY <1>1, <1>2, CoreInvHolds, SchedInvNext, PTL DEF Spec
-----------------------------------------------------------------------------
(* What the sender forgets.                                                *)

(* A worker that spins holds m_RecvAckLock and spins for ever. *)
LEMMA SpinStays ==
  ASSUME Spinning, [Next]_vars
  PROVE  Spinning' /\ lastAck' = lastAck
<1>s. sndPc = "extract" /\ MsgOf[rexmit] \in expired
  BY DEF Spinning
<1> USE DEF Spinning, RecvAckLockFree
<1>1. ASSUME NEW m \in Msgs, Sendmsg2(m) \/ Expire(m) PROVE Spinning' /\ lastAck' = lastAck
  BY <1>s, <1>1 DEF Sendmsg2, Expire
<1>2. CASE SndWorker
  BY <1>s, <1>2 DEF SndWorker, Pop, ExtractRexmit, ExtractDrop, PackUniqueData
<1>3. CASE RecvAcks \/ RecvLites \/ RecvNaks \/ CheckRexmitTimer
  BY <1>s, <1>3 DEF RecvAcks, RecvLites, RecvNaks, RecvAck, RecvLiteAck, RecvNak, CheckRexmitTimer
<1>4. CASE (\E s \in Seqs : RecvData(s)) \/ RecvControl \/ AckTimer \/ SendLiteAck \/ AppReceives
             \/ \E p \in net : Lose(p)
  <2>1. UNCHANGED sndVars
    BY <1>4 DEF RecvData, RecvBelated, RecvRedundant, RecvNew, RecvControl, RecvDropReq, RecvAckAck,
      AckTimer, AckAdvances, AckRepeats, AckWakes, AckSends, SendLiteAck, AppReceives, AppWakes,
      ReceiveMessage, ReceiveChecks, ReceiveClears, ReceiveNothing, ReceiveAgain, Lose
  <2> QED
    BY <1>s, <2>1 DEF sndVars
<1>5. CASE UNCHANGED vars
  BY <1>s, <1>5 DEF vars, sndVars
<1> QED
  BY <1>1, <1>2, <1>3, <1>4, <1>5 DEF Next, Losses

LEMMA RcvNetStep ==
  ASSUME CoreInv, RcvNet, [Next]_vars, NEW R, net' \subseteq net \cup R, lastAck' \in Int, lastAck <= lastAck',
         \A q \in R : /\ q.type = "DROPREQ" => q.hi < lastAck'
                      /\ q.type = "LITE" => \A s \in 0 .. (q.ack - 1) : Received(s)
  PROVE  RcvNet'
<1>1. \A t \in Int : Received(t) => Received(t)'
  BY BufMoves DEF CoreInv
<1>l. PICK l : lastAck' = l
  OBVIOUS
<1>2. SUFFICES ASSUME NEW p \in net \cup R
               PROVE  /\ p.type = "DROPREQ" => p.hi < l
                      /\ p.type = "LITE" => \A s \in 0 .. (p.ack - 1) : Received(s)'
  BY <1>l DEF RcvNet
<1>3. p.type = "DROPREQ" => p.hi < l
  <2>1. CASE p \in R
    BY <1>l, <2>1
  <2>2. CASE p \in net
    <3>1. PktOK(p, next, rcvLastAck, rcvCurr)
      BY <2>2 DEF CoreInv, SeqInv, NetOK
    <3>2. lastAck \in Int
      BY Sizes DEF CoreInv, SeqInv, TypeOK
    <3>3. p.type = "DROPREQ" => p.hi \in Int /\ p.hi < lastAck
      BY <2>2, <3>1 DEF PktOK, RcvNet
    <3> QED
      BY <1>l, <3>2, <3>3
  <2> QED
    BY <2>1, <2>2
<1>4. p.type = "LITE" => \A s \in 0 .. (p.ack - 1) : Received(s)
  BY DEF RcvNet
<1>5. p.type = "LITE" => \A s \in 0 .. (p.ack - 1) : Received(s)'
  <2>1. SUFFICES ASSUME p.type = "LITE", NEW s \in 0 .. (p.ack - 1) PROVE Received(s)'
    OBVIOUS
  <2>2. s \in Int /\ Received(s)
    BY <1>4, <2>1
  <2> QED
    BY <1>1, <2>2
<1> QED
  BY <1>3, <1>5

LEMMA RcvBufKept ==
  ASSUME RcvBuf, UNCHANGED <<start, held, readAt, dropAt, rcvCurr, rcvLoss, rcvLargest, rcvLastAck>>
  PROVE  RcvBuf'
BY DEF RcvBuf, Received

(* Data arrives while the worker does not spin. *)
LEMMA RcvBufData ==
  ASSUME CoreInv, RcvBuf, [Next]_vars, NEW p \in net, RecvRedundant(p) \/ RecvNew(p)
  PROVE  RcvBuf'
<1>t. /\ rcvCurr \in Int /\ -1 <= rcvCurr /\ rcvLastAck \in Int /\ rcvLastAck <= rcvCurr + 1 /\ start \in Nat
      /\ held \cup readAt \cup dropAt \subseteq Int /\ rcvLargest = -1
  BY Sizes DEF CoreInv, SeqInv, TypeOK, BufInv, RcvBuf
<1>1. /\ p.type = "DATA" /\ rcvCurr' = Max({rcvCurr, p.seq}) /\ rcvLastAck' = rcvLastAck
      /\ UNCHANGED <<start, readAt, dropAt>>
  BY DEF RecvRedundant, RecvNew, Store, bufVars
<1>2. p.seq \in Nat
  BY <1>1 DEF CoreInv, SeqInv, NetOK, PktOK
<1>3. PICK c : rcvCurr' = c
  OBVIOUS
<1>4. c = IF rcvCurr >= p.seq THEN rcvCurr ELSE p.seq
  <2>1. rcvCurr \in Int /\ p.seq \in Int
    BY <1>t, <1>2
  <2> QED
    BY <1>1, <1>3, <2>1, MaxOfTwo
<1>5. held' \subseteq held \cup {p.seq} /\ p.seq \in held' \cup readAt' \cup dropAt'
  BY DEF RecvRedundant, RecvNew, Store, bufVars
<1>6. \A t \in Int : Received(t) => Received(t)'
  BY BufMoves DEF CoreInv
<1>7. start <= c + 1 /\ \A s \in held' \cup readAt \cup dropAt : s <= c
  BY <1>t, <1>2, <1>4, <1>5 DEF RcvBuf
<1>8. rcvLargest' = -1 /\ \A s \in 0 .. c : s \in rcvLoss' \/ Received(s)'
  <2>1. CASE p.seq > rcvCurr
    <3>1. RecvNew(p)
      <4>1. p.seq \notin held \cup readAt \cup dropAt
        BY <1>2, <1>t, <2>1 DEF RcvBuf
      <4> QED
        BY <4>1 DEF RecvRedundant
    <3>2. LossInsert(Gap(p.seq))
      BY <2>1, <3>1 DEF RecvNew
    <3>3. \A s \in Gap(p.seq) : s > rcvLargest
      BY <1>t, <1>2 DEF Gap
    <3>4. rcvLoss' = rcvLoss \cup Gap(p.seq) /\ rcvLargest' = -1
      BY <1>2, <1>3, <1>4, <1>t, <2>1, <3>2, <3>3 DEF LossInsert
    <3>5. SUFFICES ASSUME NEW s \in 0 .. c PROVE s \in rcvLoss' \/ Received(s)'
      BY <3>4
    <3>6. CASE s <= rcvCurr
      BY <1>6, <1>t, <1>2, <1>4, <3>4, <3>6 DEF RcvBuf
    <3>7. CASE s = p.seq
      BY <1>1, <1>5, <3>7 DEF Received
    <3>8. CASE s > rcvCurr /\ s # p.seq
      BY <1>t, <1>2, <1>4, <2>1, <3>4, <3>8 DEF Gap
    <3> QED
      BY <1>t, <1>2, <1>4, <3>6, <3>7, <3>8
  <2>2. CASE ~(p.seq > rcvCurr)
    <3>1. LossRemove(p.seq, p.seq) /\ c = rcvCurr
      BY <1>t, <1>2, <1>4, <2>2 DEF RecvRedundant, RecvNew
    <3>2. Max({rcvLargest, p.seq}) = p.seq
      <4>1. rcvLargest \in Int /\ p.seq \in Int /\ ~(rcvLargest >= p.seq)
        BY <1>t, <1>2
      <4> QED
        BY <4>1, MaxOfTwo
    <3>3. rcvLoss' = rcvLoss \ (p.seq .. p.seq) /\ rcvLargest' = -1
      BY <1>t, <1>2, <1>3, <2>2, <3>1, <3>2 DEF LossRemove
    <3>4. SUFFICES ASSUME NEW s \in 0 .. c PROVE s \in rcvLoss' \/ Received(s)'
      BY <3>3
    <3>5. CASE s = p.seq
      BY <1>1, <1>5, <3>5 DEF Received
    <3>6. CASE s # p.seq
      BY <1>6, <1>t, <1>2, <3>1, <3>3, <3>6 DEF RcvBuf
    <3> QED
      BY <3>5, <3>6
  <2> QED
    BY <2>1, <2>2
<1>9. \A s \in 0 .. (rcvLastAck - 1) : Received(s)'
  BY <1>6 DEF RcvBuf
<1>10. \A s \in 0 .. c : Received(s)' \/ s \in rcvLoss'
  BY <1>8
<1> QED
  BY <1>1, <1>3, <1>7, <1>8, <1>9, <1>10 DEF RcvBuf

(* A drop request that does not run ahead of the ACKs. *)
LEMMA RcvBufDrop ==
  ASSUME CoreInv, AckSound, RcvBuf, RcvNet, [Next]_vars, NEW p \in net, RecvDropReq(p)
  PROVE  RcvBuf'
<1>t. /\ rcvCurr \in Int /\ -1 <= rcvCurr /\ rcvLastAck \in Int /\ start \in Nat /\ lastAck \in Nat
      /\ next \in Nat /\ next <= NPkts
      /\ held \cup readAt \cup dropAt \subseteq Int /\ rcvLargest = -1
  BY Sizes DEF CoreInv, SeqInv, TypeOK, BufInv, RcvBuf
<1>1. p.type = "DROPREQ" /\ rcvLastAck' = rcvLastAck /\ Drop(p.lo, p.hi, p.msg) /\ LossRemove(p.lo, p.hi)
      /\ rcvCurr' = IF p.lo <= rcvCurr + 1 THEN Max({rcvCurr, p.hi}) ELSE rcvCurr
  BY DEF RecvDropReq
<1>2. p.lo \in Nat /\ p.hi \in Nat /\ p.hi < next /\ p.lo <= p.hi
  BY <1>1 DEF CoreInv, SeqInv, NetOK, PktOK
<1>3. p.hi < lastAck
  BY <1>1 DEF RcvNet
<1>4. \A s \in p.lo .. p.hi : Received(s)
  <2>1. SUFFICES ASSUME NEW s \in p.lo .. p.hi PROVE Received(s)
    OBVIOUS
  <2>2. s \in 0 .. (lastAck - 1)
    BY <1>t, <1>2, <1>3
  <2> QED
    BY <2>2 DEF AckSound, Received
<1>5. p.hi <= rcvCurr
  <2>1. Received(p.hi)
    BY <1>2, <1>4
  <2> QED
    BY <1>t, <1>2, <2>1 DEF Received, RcvBuf
<1>6. rcvCurr' = rcvCurr
  <2>1. Max({rcvCurr, p.hi}) = rcvCurr
    <3>1. rcvCurr \in Int /\ p.hi \in Int /\ rcvCurr >= p.hi
      BY <1>t, <1>2, <1>5
    <3> QED
      BY <3>1, MaxOfTwo
  <2> QED
    BY <1>1, <2>1
<1>7. PICK G : G = ToDrop(p.lo, p.hi, p.msg)
  OBVIOUS
<1>8. \A s \in G : s \in Int /\ s <= rcvCurr
  <2>1. \A s \in p.lo .. p.hi : s \in Int /\ s <= rcvCurr
    BY <1>t, <1>2, <1>5
  <2>2. \A s \in held : s \in Int /\ s <= rcvCurr
    BY <1>t DEF RcvBuf
  <2>3. \A s \in G : s \in p.lo .. p.hi \/ s \in held
    BY <1>7 DEF ToDrop
  <2> QED
    BY <2>1, <2>2, <2>3
<1>9. \A s \in readAt \cup dropAt \cup G : s \in Int /\ s <= rcvCurr
  BY <1>t, <1>8 DEF RcvBuf
<1>10. PICK b : start' = b
  OBVIOUS
<1>11. /\ BufInv' /\ held' \subseteq held
       /\ b # start => b - 1 \in readAt \cup dropAt \cup G
       /\ readAt' \cup dropAt' \subseteq readAt \cup dropAt \cup G
       /\ \A t \in Int : Received(t) => Received(t)'
  <2>1. p.hi \in Seqs
    BY <1>t, <1>2, Sizes
  <2> QED
    BY <1>1, <1>2, <1>7, <1>10, <2>1, BufDrop DEF CoreInv
<1>12. b <= rcvCurr + 1
  <2>1. b \in Int
    BY <1>10, <1>11, Sizes DEF BufInv
  <2>2. CASE b = start
    BY <2>2 DEF RcvBuf
  <2>3. CASE b # start
    BY <1>t, <1>9, <1>11, <2>1, <2>3
  <2> QED
    BY <2>2, <2>3
<1>13. \A s \in held' \cup readAt' \cup dropAt' : s <= rcvCurr
  BY <1>9, <1>11 DEF RcvBuf
<1>14. rcvLoss' = rcvLoss \ (p.lo .. p.hi) /\ rcvLargest' = -1
  <2>1. Max({rcvLargest, p.hi}) = p.hi
    <3>1. rcvLargest \in Int /\ p.hi \in Int /\ ~(rcvLargest >= p.hi)
      BY <1>t, <1>2
    <3> QED
      BY <3>1, MaxOfTwo
  <2> QED
    BY <1>1, <1>t, <1>2, <1>5, <1>6, <2>1 DEF LossRemove
<1>15. \A s \in 0 .. rcvCurr : Received(s)' \/ s \in rcvLoss'
  <2>1. SUFFICES ASSUME NEW s \in 0 .. rcvCurr PROVE Received(s)' \/ s \in rcvLoss'
    OBVIOUS
  <2>2. Received(s) \/ s \in rcvLoss
    BY DEF RcvBuf
  <2> QED
    BY <1>4, <1>11, <1>14, <2>2
<1>16. \A s \in 0 .. (rcvLastAck - 1) : Received(s)'
  BY <1>11 DEF RcvBuf
<1> QED
  BY <1>1, <1>6, <1>10, <1>12, <1>13, <1>14, <1>15, <1>16 DEF RcvBuf

LEMMA RcvBufRead ==
  ASSUME CoreInv, RcvBuf, NEW m \in Msgs, ReceiveMessage(m)
  PROVE  RcvBuf'
<1>t. /\ rcvCurr \in Int /\ start \in Nat /\ held \cup readAt \cup dropAt \subseteq Int
  BY Sizes DEF CoreInv, SeqInv, TypeOK, BufInv
<1>1. Read(m) /\ UNCHANGED <<rcvCurr, rcvLoss, rcvLargest, rcvLastAck>>
  BY DEF ReceiveMessage, rcvVars
<1>2. PICK b : start' = b
  OBVIOUS
<1>3. /\ BufInv' /\ held' \subseteq held
      /\ b # start => b - 1 \in held \cup readAt \cup dropAt
      /\ readAt' \cup dropAt' \subseteq held \cup readAt \cup dropAt
      /\ \A t \in Int : Received(t) => Received(t)'
  BY <1>1, <1>2, BufRead DEF CoreInv
<1>4. b <= rcvCurr + 1
  <2>1. b \in Int
    BY <1>2, <1>3, Sizes DEF BufInv
  <2>2. CASE b = start
    BY <2>2 DEF RcvBuf
  <2>3. CASE b # start
    BY <1>t, <1>3, <2>1, <2>3 DEF RcvBuf
  <2> QED
    BY <2>2, <2>3
<1>5. \A s \in held' \cup readAt' \cup dropAt' : s <= rcvCurr
  BY <1>3 DEF RcvBuf
<1>6. \A s \in 0 .. rcvCurr : Received(s)' \/ s \in rcvLoss
  BY <1>3 DEF RcvBuf
<1>7. \A s \in 0 .. (rcvLastAck - 1) : Received(s)'
  BY <1>3 DEF RcvBuf
<1> QED
  BY <1>1, <1>2, <1>4, <1>5, <1>6, <1>7 DEF RcvBuf

(* The first conjunct in every step: an ACK the sender takes is true. *)
LEMMA AckSoundNext ==
  ASSUME CoreInv, AckInv, [Next]_vars
  PROVE  AckSound' /\ lastAck' \in Int /\ lastAck <= lastAck'
<1>t. CoreInv' /\ lastAck \in Nat /\ rcvLastAck \in Nat /\ rcvCurr \in Int /\ NetOK
  BY CoreInvNext, Sizes DEF CoreInv, SeqInv, TypeOK
<1>k. PICK l : lastAck' = l
  OBVIOUS
<1>0. l \in Int
  BY <1>t, <1>k, Sizes DEF CoreInv, SeqInv, TypeOK
<1>1. \A t \in Int : Received(t) => Received(t)'
  BY BufMoves DEF CoreInv
<1>a. \A s \in 0 .. (lastAck - 1) : Received(s)
  BY DEF AckInv, AckSound, Received
<1>2. lastAck <= l /\ \A s \in 0 .. (l - 1) : Received(s)
  <2>1. CASE lastAck' = lastAck
    BY <1>a, <1>k, <1>t, <2>1
  <2>2. ASSUME NEW p \in net, RecvAck(p) PROVE lastAck <= l /\ \A s \in 0 .. (l - 1) : Received(s)
    <3>1. ~Spinning /\ p.type = "ACK"
      BY <2>2 DEF RecvAck, RecvAckLockFree, Spinning
    <3>2. p.ack \in 0 .. rcvLastAck
      BY <1>t, <3>1 DEF NetOK, PktOK
    <3>3. lastAck' = lastAck \/ (lastAck' = p.ack /\ p.ack >= lastAck)
      BY <2>2 DEF RecvAck
    <3>4. CASE lastAck' = p.ack /\ p.ack >= lastAck
      <4>1. \A s \in 0 .. (rcvLastAck - 1) : Received(s)
        BY <3>1 DEF AckInv, RcvBuf
      <4>2. \A s \in 0 .. (l - 1) : s \in 0 .. (rcvLastAck - 1)
        BY <1>k, <1>t, <3>2, <3>4
      <4> QED
        BY <1>k, <1>t, <3>2, <3>4, <4>1, <4>2
    <3> QED
      BY <2>1, <3>3, <3>4
  <2>3. ASSUME NEW p \in net, RecvLiteAck(p) PROVE lastAck <= l /\ \A s \in 0 .. (l - 1) : Received(s)
    <3>1. ~Spinning /\ p.type = "LITE"
      BY <2>3 DEF RecvLiteAck, RecvAckLockFree, Spinning
    <3>2. p.ack \in Int
      BY <1>t, <3>1 DEF NetOK, PktOK
    <3>3. lastAck' = lastAck \/ (lastAck' = p.ack /\ p.ack >= lastAck)
      BY <2>3 DEF RecvLiteAck
    <3>4. CASE lastAck' = p.ack /\ p.ack >= lastAck
      <4>1. \A s \in 0 .. (p.ack - 1) : Received(s)
        BY <3>1 DEF AckInv, RcvNet
      <4> QED
        BY <1>k, <1>t, <3>2, <3>4, <4>1
    <3> QED
      BY <2>1, <3>3, <3>4
  <2>4. CASE UNCHANGED vars
    BY <2>1, <2>4 DEF vars, sndVars
  <2>5. CASE (\E m \in Msgs : Sendmsg2(m) \/ Expire(m)) \/ SndWorker \/ RecvNaks \/ CheckRexmitTimer
    BY <2>1, <2>5 DEF Sendmsg2, Expire, SndWorker, Pop, ExtractRexmit, ExtractDrop, PackUniqueData,
      RecvNaks, RecvNak, CheckRexmitTimer
  <2>6. CASE (\E s \in Seqs : RecvData(s)) \/ RecvControl \/ AckTimer \/ SendLiteAck \/ AppReceives
              \/ \E p \in net : Lose(p)
    <3>1. UNCHANGED sndVars
      BY <2>6 DEF RecvData, RecvBelated, RecvRedundant, RecvNew, RecvControl, RecvDropReq, RecvAckAck,
        AckTimer, AckAdvances, AckRepeats, AckWakes, AckSends, SendLiteAck, AppReceives, AppWakes,
        ReceiveMessage, ReceiveChecks, ReceiveClears, ReceiveNothing, ReceiveAgain, Lose
    <3> QED
      BY <2>1, <3>1 DEF sndVars
  <2> QED
    BY <2>2, <2>3, <2>4, <2>5, <2>6 DEF Next, Losses, RecvAcks, RecvLites
<1>3. \A s \in 0 .. (l - 1) : Received(s)'
  BY <1>1, <1>2
<1> QED
  BY <1>0, <1>2, <1>3, <1>k DEF AckSound, Received

(* The rest, until the worker spins. *)
LEMMA AckInvNext == CoreInv /\ AckInv /\ [Next]_vars => AckInv'
<1> SUFFICES ASSUME CoreInv, AckInv, [Next]_vars PROVE AckInv'
  OBVIOUS
<1>1. AckSound' /\ lastAck' \in Int /\ lastAck <= lastAck'
  BY AckSoundNext
<1>2. CASE Spinning
  BY <1>1, <1>2, SpinStays DEF AckInv
<1>3. CASE ~Spinning
  <2>t. TypeOK /\ rcvCurr \in Int /\ lastAck \in Nat
    BY Sizes DEF CoreInv, SeqInv, TypeOK
  <2>0. AckSound /\ RcvNet /\ RcvBuf
    BY <1>3 DEF AckInv
  <2> SUFFICES RcvNet' /\ RcvBuf'
    BY <1>1 DEF AckInv
  <2>e. PICK E : E = {}
    OBVIOUS
  <2>n. ASSUME net' \subseteq net PROVE RcvNet'
    <3>1. net' \subseteq net \cup E
      BY <2>n
    <3>2. \A q \in E : /\ q.type = "DROPREQ" => q.hi < lastAck'
                       /\ q.type = "LITE" => \A s \in 0 .. (q.ack - 1) : Received(s)
      BY <2>e
    <3> QED
      BY <1>1, <2>0, <3>1, <3>2, RcvNetStep
  <2>f. \A s \in 0 .. (FirstNoncont - 1) : Received(s)
    <3>1. FirstNoncont \in 0 .. (rcvCurr + 1)
          /\ \A s \in 0 .. (FirstNoncont - 1) : s <= rcvCurr /\ s \notin rcvLoss
      BY <2>t, FirstNoncontIs
    <3>2. SUFFICES ASSUME NEW s \in 0 .. (FirstNoncont - 1) PROVE Received(s)
      OBVIOUS
    <3>3. s \in 0 .. rcvCurr /\ s \notin rcvLoss
      BY <2>t, <3>1
    <3> QED
      BY <2>0, <3>3 DEF RcvBuf
  <2>1. ASSUME NEW m \in Msgs, Sendmsg2(m) \/ Expire(m) PROVE RcvNet' /\ RcvBuf'
    BY <2>0, <2>1, <2>n, RcvBufKept DEF Sendmsg2, Expire, netVars, rcvVars, bufVars
  <2>2. CASE Pop \/ CheckRexmitTimer \/ AckRepeats \/ AckWakes
    BY <2>0, <2>2, <2>n, RcvBufKept
    DEF Pop, CheckRexmitTimer, AckRepeats, AckWakes, TimerFires, netVars, rcvVars, bufVars
  <2>3. CASE ExtractRexmit \/ PackUniqueData \/ AckSends
    <3>1. \/ net' = net \cup {Data(rexmit)} \/ net' = net \cup {Data(NextUnexpired)}
          \/ net' = net \cup {Ack(rcvLastAck, AvailSize)} \/ net' = net
      BY <2>3 DEF ExtractRexmit, PackUniqueData, AckSends, Sends, netVars
    <3>2. PICK R : R = {Data(rexmit), Data(NextUnexpired), Ack(rcvLastAck, AvailSize)}
      OBVIOUS
    <3>3. net' \subseteq net \cup R
      BY <3>1, <3>2
    <3>4. \A q \in R : /\ q.type = "DROPREQ" => q.hi < lastAck'
                       /\ q.type = "LITE" => \A s \in 0 .. (q.ack - 1) : Received(s)
      BY <3>2 DEF Data, Ack
    <3>5. RcvNet'
      BY <1>1, <2>0, <3>3, <3>4, RcvNetStep
    <3>6. RcvBuf'
      BY <2>0, <2>3, RcvBufKept DEF ExtractRexmit, PackUniqueData, AckSends, rcvVars, bufVars
    <3> QED
      BY <3>5, <3>6
  <2>4. CASE ExtractDrop
    BY <1>3, <2>4 DEF ExtractDrop, Spinning
  <2>5. ASSUME NEW p \in net, RecvAck(p) PROVE RcvNet' /\ RcvBuf'
    <3>1. PICK R : R = {AckAck(p.ack)}
      OBVIOUS
    <3>2. net' \subseteq net \cup R
      BY <2>5, <3>1, TakesNet DEF RecvAck
    <3>3. \A q \in R : /\ q.type = "DROPREQ" => q.hi < lastAck'
                       /\ q.type = "LITE" => \A s \in 0 .. (q.ack - 1) : Received(s)
      BY <3>1 DEF AckAck
    <3>4. RcvNet'
      BY <1>1, <2>0, <3>2, <3>3, RcvNetStep
    <3>5. RcvBuf'
      BY <2>0, <2>5, RcvBufKept DEF RecvAck, rcvVars, bufVars
    <3> QED
      BY <3>4, <3>5
  <2>6. ASSUME NEW p \in net, RecvLiteAck(p) PROVE RcvNet' /\ RcvBuf'
    <3>1. net' \subseteq net
      BY <2>6, TakesNet DEF RecvLiteAck
    <3> QED
      BY <2>0, <2>6, <2>n, <3>1, RcvBufKept DEF RecvLiteAck, rcvVars, bufVars
  <2>7. ASSUME NEW p \in net, RecvNak(p) PROVE RcvNet' /\ RcvBuf'
    <3>1. PICK R, h : R = {DropReq(p.lo, h, 0)} /\ h = Min({p.hi, lastAck - 1})
      OBVIOUS
    <3>2. net' \subseteq net \cup R
      BY <2>7, <3>1, TakesNet DEF RecvNak
    <3>3. h < lastAck /\ lastAck' = lastAck
      <4>1. p.type = "NAK" /\ lastAck' = lastAck
        BY <2>7 DEF RecvNak
      <4>2. p.hi \in Int /\ lastAck - 1 \in Int
        BY <2>t, <4>1 DEF CoreInv, SeqInv, NetOK, PktOK
      <4>3. h = IF p.hi <= lastAck - 1 THEN p.hi ELSE lastAck - 1
        BY <3>1, <4>2, MinOfTwo
      <4> QED
        BY <2>t, <4>1, <4>2, <4>3
    <3>4. \A q \in R : /\ q.type = "DROPREQ" => q.hi < lastAck'
                       /\ q.type = "LITE" => \A s \in 0 .. (q.ack - 1) : Received(s)
      BY <3>1, <3>3 DEF DropReq
    <3>5. RcvNet'
      BY <1>1, <2>0, <3>2, <3>4, RcvNetStep
    <3>6. RcvBuf'
      BY <2>0, <2>7, RcvBufKept DEF RecvNak, rcvVars, bufVars
    <3> QED
      BY <3>5, <3>6
  <2>8. ASSUME NEW p \in net, RecvBelated(p) \/ RecvAckAck(p) \/ Lose(p) PROVE RcvNet' /\ RcvBuf'
    <3>1. net' \subseteq net
      BY <2>8, TakesNet DEF RecvBelated, RecvAckAck, Lose
    <3> QED
      BY <2>0, <2>8, <2>n, <3>1, RcvBufKept DEF RecvBelated, RecvAckAck, Lose, rcvVars, bufVars
  <2>9. ASSUME NEW p \in net, RecvRedundant(p) \/ RecvNew(p) PROVE RcvNet' /\ RcvBuf'
    <3>1. PICK R : R = {Nak(rcvCurr + 1, p.seq - 1)}
      OBVIOUS
    <3>2. net' \subseteq net \cup R
      BY <2>9, <3>1, TakesNet DEF RecvRedundant, RecvNew, LossReport
    <3>3. \A q \in R : /\ q.type = "DROPREQ" => q.hi < lastAck'
                       /\ q.type = "LITE" => \A s \in 0 .. (q.ack - 1) : Received(s)
      BY <3>1 DEF Nak
    <3>4. RcvNet'
      BY <1>1, <2>0, <3>2, <3>3, RcvNetStep
    <3> QED
      BY <2>0, <2>9, <3>4, RcvBufData
  <2>10. ASSUME NEW p \in net, RecvDropReq(p) PROVE RcvNet' /\ RcvBuf'
    <3>1. net' \subseteq net
      BY <2>10, TakesNet DEF RecvDropReq
    <3> QED
      BY <2>0, <2>10, <2>n, <3>1, RcvBufDrop
  <2>11. ASSUME NEW m \in Msgs, ReceiveMessage(m) PROVE RcvNet' /\ RcvBuf'
    <3>1. net' \subseteq net
      BY <2>11 DEF ReceiveMessage, netVars
    <3> QED
      BY <2>0, <2>11, <2>n, <3>1, RcvBufRead
  <2>12. CASE AppWakes \/ ReceiveChecks \/ ReceiveClears \/ ReceiveNothing \/ ReceiveAgain
    BY <2>0, <2>12, <2>n, RcvBufKept
    DEF AppWakes, ReceiveChecks, ReceiveClears, ReceiveNothing, ReceiveAgain, netVars, rcvVars, bufVars
  <2>13. CASE AckAdvances
    <3>1. rcvLastAck' = FirstNoncont
          /\ UNCHANGED <<start, held, readAt, dropAt, rcvCurr, rcvLoss, rcvLargest, net>>
      BY <2>13 DEF AckAdvances, bufVars, netVars
    <3>2. RcvNet'
      BY <2>n, <3>1
    <3>3. RcvBuf'
      BY <2>0, <2>f, <3>1 DEF RcvBuf, Received
    <3> QED
      BY <3>2, <3>3
  <2>14. CASE SendLiteAck
    <3>1. PICK R, f : R = {LiteAck(f)} /\ f = FirstNoncont
      OBVIOUS
    <3>2. net' \subseteq net \cup R
      BY <2>14, <3>1 DEF SendLiteAck, Sends
    <3>3. \A q \in R : /\ q.type = "DROPREQ" => q.hi < lastAck'
                       /\ q.type = "LITE" => \A s \in 0 .. (q.ack - 1) : Received(s)
      BY <2>f, <3>1 DEF LiteAck
    <3>4. RcvNet'
      BY <1>1, <2>0, <3>2, <3>3, RcvNetStep
    <3>5. RcvBuf'
      BY <2>0, <2>14, RcvBufKept DEF SendLiteAck, rcvVars, bufVars
    <3> QED
      BY <3>4, <3>5
  <2>15. CASE UNCHANGED vars
    BY <2>0, <2>15, <2>n, RcvBufKept DEF vars, netVars, rcvVars, bufVars
  <2> QED
    BY <2>1, <2>2, <2>3, <2>4, <2>5, <2>6, <2>7, <2>8, <2>9, <2>10, <2>11, <2>12, <2>13, <2>14, <2>15
    DEF Next, Losses, SndWorker, RecvData, RecvAcks, RecvLites, RecvNaks, RecvControl, AckTimer, AppReceives
<1> QED
  BY <1>2, <1>3

LEMMA AckInvHolds == Spec => []AckInv
<1>1. Init => AckInv
  BY Sizes DEF Init, BufInit, AckInv, AckSound, RcvNet, RcvBuf, Received
<1> QED
  BY <1>1, CoreInvHolds, AckInvNext, PTL DEF Spec

(* The sender forgets a packet only when the receiver has it, has passed   *)
(* it on or was told to drop it.                                           *)
THEOREM AcksAreSound == Spec => []AckSound
<1>1. AckInv => AckSound
  BY DEF AckInv
<1> QED
  BY <1>1, AckInvHolds, PTL
-----------------------------------------------------------------------------
(* The window.                                                             *)

LEMMA NextUnexpiredIs ==
  ASSUME TypeOK, expired = {}
  PROVE  NextUnexpired = next
<1> DEFINE T == {s \in next .. added : s = added \/ MsgOf[s] \notin expired}
<1>1. next \in Nat /\ added \in Nat /\ next <= added
  BY Sizes DEF TypeOK
<1>2. T \subseteq Nat /\ next \in T
  BY <1>1
<1>3. Min(T) \in T /\ Min(T) <= next
  BY <1>2, MinIs
<1>4. Min(T) \in next .. added /\ Min(T) = NextUnexpired
  BY <1>3 DEF NextUnexpired
<1> HIDE DEF T
<1> QED
  BY <1>1, <1>3, <1>4

LEMMA WindowStep ==
  ASSUME CoreInv, WindowInv, [Next]_vars, dgram = {},
         NEW l, lastAck' = l, NEW f, flow' = f, NEW n, next' = n,
         l \in Int, f \in Int, n \in Int,
         l + f <= start + Capacity, n <= start + Capacity,
         NEW R, net' \subseteq net \cup R,
         \A q \in R : q.type = "ACK" => q.ack \in Int /\ q.left \in Int /\ q.ack + q.left <= start + Capacity
  PROVE  WindowInv'
<1>k. PICK b : start' = b
  OBVIOUS
<1>1. BufInv' /\ start <= start'
  BY BufMoves DEF CoreInv
<1>2. start \in Nat /\ b \in Nat /\ start <= b /\ Capacity \in Nat
  BY <1>1, <1>k, Sizes DEF CoreInv, BufInv
<1>3. \A p \in net : p.type = "ACK" => p.ack \in Int /\ p.left \in Int /\ p.ack + p.left <= start + Capacity
  <2>1. SUFFICES ASSUME NEW p \in net, p.type = "ACK"
                 PROVE  p.ack \in Int /\ p.left \in Int /\ p.ack + p.left <= start + Capacity
    OBVIOUS
  <2>2. PktOK(p, next, rcvLastAck, rcvCurr)
    BY DEF CoreInv, SeqInv, NetOK
  <2> QED
    BY <2>1, <2>2 DEF WindowInv, PktOK
<1>4. \A p \in net' : p.type = "ACK" => p.ack + p.left <= b + Capacity
  <2>1. SUFFICES ASSUME NEW p \in net \cup R, p.type = "ACK" PROVE p.ack + p.left <= b + Capacity
    OBVIOUS
  <2>2. p.ack \in Int /\ p.left \in Int /\ p.ack + p.left <= start + Capacity
    BY <1>3, <2>1
  <2> QED
    BY <1>2, <2>2
<1>5. l + f <= b + Capacity /\ n <= b + Capacity
  BY <1>2
<1> QED
  BY <1>k, <1>4, <1>5 DEF WindowInv

LEMMA DgramKept ==
  ASSUME SeqInv, [Next]_vars
  PROVE  dgram' = dgram
<1>1. CASE UNCHANGED bufVars \/ UNCHANGED vars
  BY <1>1 DEF vars, bufVars
<1>2. ASSUME NEW p \in net, Store(p.seq) PROVE dgram' = dgram
  BY <1>2 DEF Store
<1>3. ASSUME NEW m \in Msgs, Read(m) PROVE dgram' = dgram
  BY <1>3 DEF Read, ReadInOrder, ReadOutOfOrder
<1>4. ASSUME NEW p \in net, Drop(p.lo, p.hi, p.msg) PROVE dgram' = dgram
  BY <1>4 DEF Drop
<1> QED
  BY <1>1, <1>2, <1>3, <1>4, BufSteps

LEMMA WindowInvNext == CoreInv /\ WindowInv /\ [Next]_vars => WindowInv'
<1> SUFFICES ASSUME CoreInv, WindowInv, [Next]_vars, dgram' = {} PROVE WindowInv'
  BY DEF WindowInv
<1>d. dgram = {}
  BY DgramKept DEF CoreInv
<1>t. TypeOK /\ NetOK /\ lastAck \in Nat /\ next \in Nat /\ added \in Nat /\ flow \in Int /\ start \in Nat
      /\ Capacity \in Nat /\ rcvLastAck \in Nat
  BY Sizes DEF CoreInv, SeqInv, TypeOK, BufInv
<1>e. expired = {}
  BY <1>d, <1>t DEF TypeOK
<1>w. lastAck + flow <= start + Capacity /\ next <= start + Capacity
  BY <1>d DEF WindowInv
<1>k. PICK l, f, n : lastAck' = l /\ flow' = f /\ next' = n
  OBVIOUS
<1>a. ASSUME UNCHANGED <<lastAck, flow, next>>, NEW R, net' \subseteq net \cup R,
             \A q \in R : q.type # "ACK"
      PROVE  WindowInv'
  <2>1. l = lastAck /\ f = flow /\ n = next
    BY <1>a, <1>k
  <2>2. \A q \in R : q.type = "ACK" => q.ack \in Int /\ q.left \in Int /\ q.ack + q.left <= start + Capacity
    BY <1>a
  <2>3. /\ l \in Int /\ f \in Int /\ n \in Int /\ l + f <= start + Capacity /\ n <= start + Capacity
    BY <1>t, <1>w, <2>1
  <2> QED
    BY <1>a, <1>d, <1>k, <2>2, <2>3, WindowStep
<1>n. ASSUME UNCHANGED <<lastAck, flow, next>>, net' \subseteq net
      PROVE  WindowInv'
  <2>1. PICK R : R = {}
    OBVIOUS
  <2>2. net' \subseteq net \cup R /\ \A q \in R : q.type # "ACK"
    BY <1>n, <2>1
  <2> QED
    BY <1>a, <1>n, <2>2
<1>1. ASSUME NEW m \in Msgs, Sendmsg2(m) \/ Expire(m) PROVE WindowInv'
  BY <1>1, <1>n DEF Sendmsg2, Expire, netVars
<1>2. CASE Pop \/ CheckRexmitTimer \/ AckAdvances \/ AckRepeats \/ AckWakes
  BY <1>2, <1>n DEF Pop, CheckRexmitTimer, AckAdvances, AckRepeats, AckWakes, TimerFires, netVars, sndVars
<1>3. CASE ExtractRexmit
  <2>1. PICK R : R = {Data(rexmit)}
    OBVIOUS
  <2> QED
    BY <1>3, <1>a, <2>1 DEF ExtractRexmit, Sends, Data
<1>4. CASE ExtractDrop
  BY <1>4, <1>e DEF ExtractDrop
<1>5. CASE PackUniqueData
  <2>1. NextUnexpired = next
    BY <1>e, <1>t, NextUnexpiredIs
  <2>2. UNCHANGED <<lastAck, flow>>
    BY <1>5 DEF PackUniqueData
  <2>3. \/ next' = next /\ net' = net
        \/ WindowOpen /\ next' = next + 1 /\ net' = net \cup {Data(next)}
    BY <1>5, <2>1 DEF PackUniqueData, Sends, netVars
  <2>4. CASE next' = next /\ net' = net
    BY <1>n, <2>2, <2>4
  <2>5. CASE WindowOpen /\ next' = next + 1 /\ net' = net \cup {Data(next)}
    <3>1. PICK R : R = {Data(next)}
      OBVIOUS
    <3>2. \A q \in R : q.type = "ACK" => q.ack \in Int /\ q.left \in Int /\ q.ack + q.left <= start + Capacity
      BY <3>1 DEF Data
    <3>3. net' \subseteq net \cup R
      BY <2>5, <3>1
    <3>4. l = lastAck /\ f = flow /\ n = next + 1
      BY <1>k, <2>2, <2>5
    <3>5. flow > next - lastAck
      BY <2>5 DEF WindowOpen, FlightSpan
    <3>6. /\ l \in Int /\ f \in Int /\ n \in Int /\ l + f <= start + Capacity /\ n <= start + Capacity
      BY <1>t, <1>w, <3>4, <3>5
    <3> QED
      BY <1>d, <1>k, <3>2, <3>3, <3>6, WindowStep
  <2> QED
    BY <2>3, <2>4, <2>5
<1>6. ASSUME NEW p \in net, RecvAck(p) PROVE WindowInv'
  <2>1. PICK R : R = {AckAck(p.ack)}
    OBVIOUS
  <2>2. net' \subseteq net \cup R
    BY <1>6, <2>1, TakesNet DEF RecvAck
  <2>3. \A q \in R : q.type # "ACK"
    BY <2>1 DEF AckAck
  <2>4. next' = next /\ (UNCHANGED <<lastAck, flow>> \/ (lastAck' = p.ack /\ flow' = p.left)) /\ p.type = "ACK"
    BY <1>6 DEF RecvAck
  <2>5. CASE UNCHANGED <<lastAck, flow>>
    BY <1>a, <2>2, <2>3, <2>4, <2>5
  <2>6. CASE lastAck' = p.ack /\ flow' = p.left
    <3>1. p.ack \in Int /\ p.left \in Int /\ p.ack + p.left <= start + Capacity
      BY <1>d, <1>t, <2>4 DEF WindowInv, NetOK, PktOK
    <3>2. l = p.ack /\ f = p.left /\ n = next
      BY <1>k, <2>4, <2>6
    <3>3. \A q \in R : q.type = "ACK" => q.ack \in Int /\ q.left \in Int /\ q.ack + q.left <= start + Capacity
      BY <2>3
    <3>4. /\ l \in Int /\ f \in Int /\ n \in Int /\ l + f <= start + Capacity /\ n <= start + Capacity
      BY <1>t, <1>w, <3>1, <3>2
    <3> QED
      BY <1>d, <1>k, <2>2, <3>3, <3>4, WindowStep
  <2> QED
    BY <2>4, <2>5, <2>6
<1>7. ASSUME NEW p \in net, RecvLiteAck(p) PROVE WindowInv'
  <2>1. net' \subseteq net /\ p.type = "LITE" /\ next' = next
        /\ (UNCHANGED <<lastAck, flow>> \/ (lastAck' = p.ack /\ flow' = flow - (p.ack - lastAck)))
    BY <1>7, TakesNet DEF RecvLiteAck
  <2>2. CASE UNCHANGED <<lastAck, flow>>
    BY <1>n, <2>1, <2>2
  <2>3. CASE lastAck' = p.ack /\ flow' = flow - (p.ack - lastAck)
    <3>1. PICK R : R = {}
      OBVIOUS
    <3>2. net' \subseteq net \cup R
          /\ \A q \in R : q.type = "ACK" => q.ack \in Int /\ q.left \in Int /\ q.ack + q.left <= start + Capacity
      BY <2>1, <3>1
    <3>3. p.ack \in Int
      BY <1>t, <2>1 DEF NetOK, PktOK
    <3>4. l = p.ack /\ f = flow - (p.ack - lastAck) /\ n = next
      BY <1>k, <2>1, <2>3
    <3>5. /\ l \in Int /\ f \in Int /\ n \in Int /\ l + f <= start + Capacity /\ n <= start + Capacity
      BY <1>t, <1>w, <3>3, <3>4
    <3> QED
      BY <1>d, <1>k, <3>2, <3>5, WindowStep
  <2> QED
    BY <2>1, <2>2, <2>3
<1>8. ASSUME NEW p \in net, RecvNak(p) PROVE WindowInv'
  <2>1. PICK R : R = {DropReq(p.lo, Min({p.hi, lastAck - 1}), 0)}
    OBVIOUS
  <2>2. net' \subseteq net \cup R /\ UNCHANGED <<lastAck, flow, next>>
    BY <1>8, <2>1, TakesNet DEF RecvNak
  <2>3. \A q \in R : q.type # "ACK"
    BY <2>1 DEF DropReq
  <2> QED
    BY <1>a, <2>2, <2>3
<1>9. ASSUME NEW p \in net,
             RecvBelated(p) \/ RecvRedundant(p) \/ RecvAckAck(p) \/ RecvDropReq(p) \/ Lose(p)
      PROVE  WindowInv'
  <2>1. net' \subseteq net
    BY <1>9, TakesNet DEF RecvBelated, RecvRedundant, RecvAckAck, RecvDropReq, Lose
  <2> QED
    BY <1>9, <1>n, <2>1 DEF RecvBelated, RecvRedundant, RecvAckAck, RecvDropReq, Lose, sndVars
<1>10. ASSUME NEW p \in net, RecvNew(p) PROVE WindowInv'
  <2>1. PICK R : R = {Nak(rcvCurr + 1, p.seq - 1)}
    OBVIOUS
  <2>2. net' \subseteq net \cup R /\ UNCHANGED <<lastAck, flow, next>>
    BY <1>10, <2>1, TakesNet DEF RecvNew, LossReport, sndVars
  <2>3. \A q \in R : q.type # "ACK"
    BY <2>1 DEF Nak
  <2> QED
    BY <1>a, <2>2, <2>3
<1>11. CASE SendLiteAck
  <2>1. PICK R : R = {LiteAck(FirstNoncont)}
    OBVIOUS
  <2>2. net' \subseteq net \cup R /\ UNCHANGED <<lastAck, flow, next>>
    BY <1>11, <2>1 DEF SendLiteAck, Sends, sndVars
  <2>3. \A q \in R : q.type # "ACK"
    BY <2>1 DEF LiteAck
  <2> QED
    BY <1>a, <2>2, <2>3
<1>12. CASE AckSends
  <2>1. PICK R, v : R = {Ack(rcvLastAck, v)} /\ v = AvailSize
    OBVIOUS
  <2>2. net' \subseteq net \cup R /\ UNCHANGED <<lastAck, flow, next>>
    BY <1>12, <2>1 DEF AckSends, Sends, sndVars, netVars
  <2>3. v \in Int /\ rcvLastAck + v <= start + Capacity
    BY <1>t, <2>1 DEF AvailSize
  <2>4. \A q \in R : q.type = "ACK" => q.ack \in Int /\ q.left \in Int /\ q.ack + q.left <= start + Capacity
    BY <1>t, <2>1, <2>3 DEF Ack
  <2>5. l = lastAck /\ f = flow /\ n = next
    BY <1>k, <2>2
  <2>6. /\ l \in Int /\ f \in Int /\ n \in Int /\ l + f <= start + Capacity /\ n <= start + Capacity
    BY <1>t, <1>w, <2>5
  <2> QED
    BY <1>d, <1>k, <2>2, <2>4, <2>6, WindowStep
<1>13. CASE AppReceives
  BY <1>13, <1>n DEF AppReceives, AppWakes, ReceiveMessage, ReceiveChecks, ReceiveClears,
    ReceiveNothing, ReceiveAgain, netVars, sndVars
<1>14. CASE UNCHANGED vars
  BY <1>14, <1>n DEF vars, netVars, sndVars
<1> QED
  BY <1>1, <1>2, <1>3, <1>4, <1>5, <1>6, <1>7, <1>8, <1>9, <1>10, <1>11, <1>12, <1>13, <1>14
  DEF Next, Losses, SndWorker, RecvData, RecvAcks, RecvLites, RecvNaks, RecvControl, AckTimer

(* With reliable messages only the sender never sends what the receiver    *)
(* has no room for, however late or often a window arrives.                *)
THEOREM NeverOverrun == Spec => []NoOverrun
<1>1. Init => WindowInv
  BY Sizes DEF Init, BufInit, WindowInv
<1>2. CoreInv /\ WindowInv => NoOverrun
  <2>1. SUFFICES ASSUME CoreInv, WindowInv, dgram = {}, NEW p \in net, p.type = "DATA"
                 PROVE  p.seq < start + Capacity
    BY DEF NoOverrun
  <2>2. p.seq \in 0 .. (next - 1) /\ next \in Nat /\ start \in Nat /\ Capacity \in Nat
    BY <2>1, Sizes DEF CoreInv, SeqInv, NetOK, PktOK, TypeOK, BufInv
  <2>3. next <= start + Capacity
    BY <2>1 DEF WindowInv
  <2> QED
    BY <2>2, <2>3
<1> QED
  BY <1>1, <1>2, CoreInvHolds, WindowInvNext, PTL DEF Spec
-----------------------------------------------------------------------------
(* Wakeups, for messages of one packet.                                    *)

LEMMA OnePacketIs ==
  ASSUME OnePacket, NEW s \in Seqs
  PROVE  MsgOf[s] = s + 1 /\ Solo(s) /\ Pkts(MsgOf[s]) = {s} /\ Max(Pkts(MsgOf[s])) = s
<1>s. NPkts \in Nat \ {0} /\ \A t : t \in Seqs <=> t \in Nat /\ t < NPkts
  BY Sizes
<1>1. \A t \in Seqs : t \in Nat /\ MsgOf[t] = t + 1
  BY <1>s DEF OnePacket
<1>2. Pkts(MsgOf[s]) = {s}
  BY <1>1 DEF Pkts
<1>3. s # 0 => s - 1 \in Seqs
  BY <1>s
<1>4. s # NPkts - 1 => s + 1 \in Seqs
  BY <1>s
<1>5. Solo(s)
  BY <1>1, <1>3, <1>4 DEF Solo, IsFirst, IsLast
<1>6. MsgOf[s] \in Msgs
  BY DEF Msgs
<1> QED
  BY <1>1, <1>2, <1>5, <1>6, MsgEnds

(* updateNonreadPos stops at a packet that is missing. *)
LEMMA ExtendedStops ==
  ASSUME OnePacket, NEW n \in 0 .. NPkts, NEW S, S \subseteq Seqs
  PROVE  Extended(n, S) \notin S
<1>s. NPkts \in Nat \ {0} /\ \A t : t \in Seqs <=> t \in Nat /\ t < NPkts
  BY Sizes
<1>1. PICK e : e = Extended(n, S)
  OBVIOUS
<1>2. /\ e \in n .. NPkts /\ n .. (e - 1) \subseteq S
      /\ \A x \in n .. NPkts :
           n .. (x - 1) \subseteq S /\ IsFirst(n) /\ IsLast(x - 1) => x <= e
  BY <1>1, ExtendedIs
<1>3. SUFFICES ASSUME e \in S PROVE FALSE
  BY <1>1
<1>4. e \in Seqs /\ n \in Seqs /\ e \in Nat /\ n \in Nat /\ n <= e
  BY <1>s, <1>2, <1>3
<1>5. IsFirst(n) /\ IsLast(e)
  BY <1>4, OnePacketIs DEF Solo
<1>6. PICK x : x = e + 1
  OBVIOUS
<1>7. x \in n .. NPkts /\ x - 1 = e /\ ~(x <= e)
  BY <1>s, <1>4, <1>6
<1>8. n .. e \subseteq S
  BY <1>2, <1>3, <1>4
<1> QED
  BY <1>2, <1>5, <1>7, <1>8

(* Without datagrams a drop request only ever names what was acknowledged, *)
(* so that the receiver has it and keeps it.                               *)
LEMMA DropKeeps ==
  ASSUME OnePacket, CoreInv, AckInv, dgram = {}, readAt = {}, dropAt = {},
         NEW p \in net, RecvDropReq(p)
  PROVE  UNCHANGED <<start, held, readAt, dropAt, non>>
<1>s. NPkts \in Nat \ {0} /\ \A t : t \in Seqs <=> t \in Nat /\ t < NPkts
  BY Sizes
<1>1. /\ start \in Nat /\ start <= NPkts /\ held \subseteq Seqs /\ lastAck \in Nat
      /\ \A s \in held : s >= start
  BY <1>s DEF CoreInv, BufInv, SeqInv, TypeOK
<1>2. ~Spinning
  BY DEF Spinning, CoreInv, SeqInv, TypeOK
<1>3. p.lo \in Nat /\ p.hi \in Nat /\ p.hi < lastAck /\ Drop(p.lo, p.hi, p.msg)
  BY <1>2 DEF AckInv, RcvNet, RecvDropReq, CoreInv, SeqInv, NetOK, PktOK
<1>4. PICK G : G = ToDrop(p.lo, p.hi, p.msg)
  OBVIOUS
<1>5. G = {}
  <2>1. \A s \in held : Kept(s)
    BY <1>1, OnePacketIs DEF Kept
  <2>2. \A s \in p.lo .. p.hi : Fits(s) => s \in held
    <3>1. SUFFICES ASSUME NEW s \in p.lo .. p.hi, Fits(s) PROVE s \in held
      OBVIOUS
    <3>2. s \in 0 .. (lastAck - 1) /\ start <= s
      BY <1>1, <1>3, <3>1 DEF Fits
    <3> QED
      BY <1>1, <3>2 DEF AckInv, AckSound
  <2> QED
    BY <1>4, <2>1, <2>2 DEF ToDrop
<1>6. PICK b : b = PastFillers(start, {})
  OBVIOUS
<1>7. b = start
  <2>1. b \in start .. NPkts /\ \A t \in start .. (b - 1) : t \in {}
    BY <1>s, <1>1, <1>6, PastFillersIs
  <2>2. SUFFICES ASSUME b # start PROVE FALSE
    OBVIOUS
  <2>3. start \in start .. (b - 1)
    BY <1>s, <1>1, <2>1, <2>2
  <2> QED
    BY <2>1, <2>3
<1>8. /\ held' = held \ G /\ start' = b
      /\ readAt' = {s \in readAt \ G : s >= b} /\ dropAt' = {s \in dropAt \cup G : s >= b}
      /\ non' = non
  <2>1. readAt \cup dropAt \cup G = {}
    BY <1>5
  <2> QED
    BY <1>3, <1>4, <1>5, <1>6, <2>1 DEF Drop
<1> QED
  BY <1>5, <1>7, <1>8

(* What was acknowledged and not read yet can be read. *)
LEMMA AckedIsReady ==
  ASSUME CoreInv, AckInv, WakeInv, dgram = {}, start < rcvLastAck
  PROVE  Ready
<1>1. ~Spinning
  BY DEF Spinning, CoreInv, SeqInv, TypeOK
<1>2. start \in 0 .. (rcvLastAck - 1) /\ start \in Int
  BY Sizes DEF CoreInv, BufInv, SeqInv, TypeOK
<1>3. start \in held
  BY <1>1, <1>2 DEF AckInv, RcvBuf, Received, WakeInv
<1> QED
  BY <1>3 DEF WakeInv, Ready, InOrderReady

(* The buffer's part of WakeInv. *)
LEMMA WakeBuf ==
  ASSUME OnePacket, CoreInv, AckInv, WakeInv, dgram = {}, [Next]_vars
  PROVE  readAt' = {} /\ dropAt' = {} /\ non' \notin held'
<1>s. NPkts \in Nat \ {0} /\ \A t : t \in Seqs <=> t \in Nat /\ t < NPkts
  BY Sizes
<1>1. /\ start \in 0 .. NPkts /\ non \in 0 .. NPkts /\ start <= non /\ held \subseteq Seqs
      /\ start \in Nat /\ non \in Nat
  BY <1>s DEF CoreInv, BufInv
<1>2. readAt = {} /\ dropAt = {} /\ non \notin held
  BY DEF WakeInv
<1>3. CASE UNCHANGED bufVars \/ UNCHANGED vars
  BY <1>2, <1>3 DEF vars, bufVars
<1>4. ASSUME NEW p \in net, p.seq \in Seqs, Store(p.seq)
      PROVE  readAt' = {} /\ dropAt' = {} /\ non' \notin held'
  <2>1. PICK H : H = held'
    OBVIOUS
  <2>2. H = held \cup {p.seq} /\ non' = Extended(non, H) /\ UNCHANGED <<readAt, dropAt>>
    BY <1>4, <2>1 DEF Store
  <2>3. Extended(non, H) \notin H
    BY <1>1, <1>4, <2>2, ExtendedStops
  <2> QED
    BY <1>2, <2>1, <2>2, <2>3
<1>5. ASSUME NEW m \in Msgs, Read(m)
      PROVE  readAt' = {} /\ dropAt' = {} /\ non' \notin held'
  <2>1. ReadInOrder(m)
    BY <1>5 DEF Read, ReadOutOfOrder
  <2>2. start \in Seqs /\ Max(Pkts(m)) = start /\ start < non
    <3>1. non # start /\ m = MsgOf[start]
      BY <2>1 DEF ReadInOrder, InOrderReady
    <3>2. start \in Seqs /\ start < non
      BY <1>1, <1>s, <3>1
    <3> QED
      BY <3>1, <3>2, OnePacketIs
  <2>3. PICK b, n : b = start' /\ n = non'
    OBVIOUS
  <2>4. /\ b = PastFillers(start + 1, {}) /\ n = IF non < b THEN b ELSE non
    BY <1>2, <2>1, <2>2, <2>3 DEF ReadInOrder, Released
  <2>5. b = start + 1
    <3>1. start + 1 \in 0 .. NPkts
      BY <1>s, <2>2
    <3>2. b \in (start + 1) .. NPkts /\ \A t \in (start + 1) .. (b - 1) : t \in {}
      BY <2>4, <3>1, PastFillersIs
    <3>3. SUFFICES ASSUME b # start + 1 PROVE FALSE
      OBVIOUS
    <3>4. start + 1 \in (start + 1) .. (b - 1)
      BY <1>s, <1>1, <3>2, <3>3
    <3> QED
      BY <3>2, <3>4
  <2>6. n = non
    BY <1>1, <2>2, <2>4, <2>5
  <2>7. held' \subseteq held /\ readAt' = {} /\ dropAt' = {}
    BY <1>2, <2>1 DEF ReadInOrder
  <2> QED
    BY <1>2, <2>3, <2>6, <2>7
<1>6. ASSUME NEW p \in net, RecvDropReq(p)
      PROVE  readAt' = {} /\ dropAt' = {} /\ non' \notin held'
  BY <1>2, <1>6, DropKeeps
<1> QED
  BY <1>3, <1>4, <1>5, <1>6, BufSteps DEF CoreInv

LEMMA WakeInvNext ==
  ASSUME OnePacket
  PROVE  CoreInv /\ AckInv /\ WakeInv /\ [Next]_vars => WakeInv'
<1> SUFFICES ASSUME CoreInv, AckInv, WakeInv, [Next]_vars, dgram' = {} PROVE WakeInv'
  BY DEF WakeInv
<1>d. dgram = {}
  BY DgramKept DEF CoreInv
<1>b. readAt' = {} /\ dropAt' = {} /\ non' \notin held'
  BY <1>d, WakeBuf
<1>t. start \in Nat /\ rcvLastAck \in Nat
  BY Sizes DEF CoreInv, BufInv, SeqInv, TypeOK
<1>n. SUFFICES /\ appPc' = "wait" /\ wkPc' # "wake" /\ start' < rcvLastAck' => epIn'
               /\ appPc' = "again" /\ wkPc' # "wake" => start' >= rcvLastAck'
  BY <1>b DEF WakeInv
<1>w. /\ appPc = "wait" /\ wkPc # "wake" /\ start < rcvLastAck => epIn
      /\ appPc = "again" /\ wkPc # "wake" => start >= rcvLastAck
  BY <1>d DEF WakeInv
<1> DEFINE Woken == /\ appPc' = "wait" /\ wkPc' # "wake" /\ start' < rcvLastAck' => epIn'
                    /\ appPc' = "again" /\ wkPc' # "wake" => start' >= rcvLastAck'
<1>0. CASE UNCHANGED <<start, rcvLastAck, epIn, appPc, wkPc>>
  BY <1>0, <1>w
<1>1. CASE \E m \in Msgs : Sendmsg2(m) \/ Expire(m)
  BY <1>0, <1>1 DEF Sendmsg2, Expire, bufVars, rcvVars, wkVars, appVars
<1>2. CASE SndWorker \/ CheckRexmitTimer
  BY <1>0, <1>2 DEF SndWorker, Pop, ExtractRexmit, ExtractDrop, PackUniqueData, CheckRexmitTimer,
    bufVars, rcvVars, wkVars, appVars
<1>3. CASE RecvAcks \/ RecvLites \/ RecvNaks
  BY <1>0, <1>3 DEF RecvAcks, RecvLites, RecvNaks, RecvAck, RecvLiteAck, RecvNak,
    bufVars, rcvVars, wkVars, appVars
<1>4. ASSUME NEW p \in net, RecvBelated(p) \/ RecvRedundant(p) \/ RecvNew(p) \/ RecvAckAck(p)
      PROVE  Woken
  BY <1>0, <1>4 DEF RecvBelated, RecvRedundant, RecvNew, RecvAckAck, Store,
    bufVars, rcvVars, wkVars, appVars
<1>5. ASSUME NEW p \in net, RecvDropReq(p) PROVE Woken
  <2>1. start' = start
    BY <1>d, <1>5, DropKeeps DEF WakeInv
  <2> QED
    BY <1>0, <1>5, <2>1 DEF RecvDropReq, rcvVars, wkVars, appVars
<1>6. CASE AckAdvances
  BY <1>6 DEF AckAdvances
<1>7. CASE AckRepeats
  BY <1>7, <1>w DEF AckRepeats, bufVars, rcvVars, appVars
<1>8. CASE AckWakes
  <2>1. /\ appPc' = appPc /\ appPc # "again" /\ start' = start /\ rcvLastAck' = rcvLastAck
        /\ epIn' = (epIn \/ Ready)
    BY <1>8 DEF AckWakes, RecvLockFree, bufVars, rcvVars
  <2>2. start < rcvLastAck => Ready
    BY <1>d, AckedIsReady
  <2> QED
    BY <2>1, <2>2, Zenon
<1>9. CASE AckSends
  BY <1>9, <1>w DEF AckSends, bufVars, appVars
<1>10. CASE SendLiteAck
  BY <1>0, <1>10 DEF SendLiteAck, bufVars, rcvVars, appVars
<1>11. CASE AppWakes \/ ReceiveChecks \/ ReceiveClears \/ \E m \in Msgs : ReceiveMessage(m)
  <2>1. appPc' \in {"recv", "clear", "check"}
    BY <1>11 DEF AppWakes, ReceiveChecks, ReceiveClears, ReceiveMessage
  <2> QED
    BY <2>1
<1>12. CASE ReceiveNothing
  <2>1. appPc' = "again" /\ start' = start /\ rcvLastAck' = rcvLastAck /\ ~Ready
    BY <1>12 DEF ReceiveNothing, bufVars, rcvVars
  <2>2. ~(start < rcvLastAck)
    BY <1>d, <2>1, AckedIsReady
  <2> QED
    BY <1>t, <2>1, <2>2
<1>13. CASE ReceiveAgain
  <2>1. appPc = "again" /\ appPc' = "wait" /\ start' = start /\ rcvLastAck' = rcvLastAck /\ wkPc' = wkPc
    BY <1>13 DEF ReceiveAgain, bufVars, rcvVars, wkVars
  <2> QED
    BY <1>t, <1>w, <2>1
<1>14. CASE \E p \in net : Lose(p)
  BY <1>0, <1>14 DEF Lose, bufVars, rcvVars, wkVars, appVars
<1>15. CASE UNCHANGED vars
  BY <1>0, <1>15 DEF vars, bufVars, rcvVars, wkVars, appVars
<1> QED
  BY <1>1, <1>2, <1>3, <1>4, <1>5, <1>6, <1>7, <1>8, <1>9, <1>10, <1>11, <1>12, <1>13, <1>14, <1>15
  DEF Next, Losses, RecvData, RecvControl, AckTimer, AppReceives

(* With reliable messages of one packet, what was acknowledged and can be  *)
(* read is signalled to an application that waits, however the application *)
(* and sendCtrlAck interleave (core.cpp:8477-8489).                        *)
THEOREM WakeupsArrive ==
  ASSUME OnePacket
  PROVE  Spec => []NoLostWakeup
<1>1. Init => WakeInv
  BY DEF Init, BufInit, WakeInv
<1>2. CoreInv /\ WakeInv => NoLostWakeup
  <2>1. SUFFICES ASSUME CoreInv, WakeInv, dgram = {}, appPc = "wait", wkPc # "wake",
                        InOrderReady, Max(Pkts(MsgOf[start])) < rcvLastAck
                 PROVE  epIn
    BY DEF NoLostWakeup
  <2>2. PICK e : e = Max(Pkts(MsgOf[start]))
    OBVIOUS
  <2>3. e \in Seqs /\ start <= e
    BY <2>1, <2>2, ReadyIsWhole DEF CoreInv, InOrderReady
  <2>4. start \in Nat /\ e \in Nat /\ rcvLastAck \in Nat
    BY <2>1, <2>3, Sizes DEF CoreInv, BufInv, SeqInv, TypeOK
  <2>5. start < rcvLastAck
    BY <2>1, <2>2, <2>3, <2>4
  <2> QED
    BY <2>1, <2>5 DEF WakeInv
<1>3. CoreInv /\ AckInv /\ WakeInv /\ [Next]_vars => WakeInv'
  BY WakeInvNext
<1> QED
  BY <1>1, <1>2, <1>3, CoreInvHolds, AckInvHolds, PTL DEF Spec
-----------------------------------------------------------------------------
(* The service, for messages of one packet.                                *)

(* The sender asks the peer to drop what was acknowledged, or datagrams. *)
LEMMA DropReqsSent ==
  ASSUME OnePacket, CoreInv, AckInv, [Next]_vars
  PROVE  \A q \in net' : q \in net \/ DropReqOK(q)
<1>t. TypeOK /\ NetOK /\ lastAck \in Nat /\ next \in Nat /\ next <= NPkts
  BY Sizes DEF CoreInv, SeqInv, TypeOK
<1>0. ASSUME NEW R, net' \subseteq net \cup R, \A q \in R : q.type # "DROPREQ"
      PROVE  \A q \in net' : q \in net \/ DropReqOK(q)
  BY <1>0 DEF DropReqOK
<1>u. CASE net' \subseteq net
  BY <1>u
<1>1. CASE (\E m \in Msgs : Sendmsg2(m) \/ Expire(m)) \/ Pop \/ CheckRexmitTimer
  BY <1>1, <1>u DEF Sendmsg2, Expire, Pop, CheckRexmitTimer, TimerFires, netVars
<1>2. CASE ExtractRexmit
  <2>1. PICK R : R = {Data(rexmit)}
    OBVIOUS
  <2> QED
    BY <1>0, <1>2, <2>1 DEF ExtractRexmit, Sends, Data
<1>3. CASE ExtractDrop
  <2>1. rexmit \in Seqs /\ MsgOf[rexmit] \in dgram
    BY <1>3, <1>t, Sizes DEF ExtractDrop, TypeOK
  <2>2. Max(Pkts(MsgOf[rexmit])) = rexmit /\ rexmit \in Nat
    BY <2>1, OnePacketIs, Sizes
  <2>3. PICK q : q = DropReq(rexmit, rexmit, MsgOf[rexmit])
    OBVIOUS
  <2>4. net' = net \cup {q}
    BY <1>3, <2>2, <2>3 DEF ExtractDrop, Sends
  <2>5. \A s \in rexmit .. rexmit : s = rexmit
    BY <2>2
  <2>6. q.lo = rexmit /\ q.hi = rexmit
    BY <2>3 DEF DropReq
  <2> QED
    BY <2>1, <2>4, <2>5, <2>6 DEF DropReqOK
<1>4. CASE PackUniqueData
  <2>1. PICK R : R = {Data(NextUnexpired)}
    OBVIOUS
  <2>2. net' \subseteq net \cup R
    BY <1>4, <2>1 DEF PackUniqueData, Sends, netVars
  <2> QED
    BY <1>0, <2>1, <2>2 DEF Data
<1>5. ASSUME NEW p \in net, RecvAck(p) PROVE \A q \in net' : q \in net \/ DropReqOK(q)
  <2>1. PICK R : R = {AckAck(p.ack)}
    OBVIOUS
  <2>2. net' \subseteq net \cup R
    BY <1>5, <2>1 DEF RecvAck, Takes
  <2> QED
    BY <1>0, <2>1, <2>2 DEF AckAck
<1>6. ASSUME NEW p \in net, RecvLiteAck(p) PROVE \A q \in net' : q \in net \/ DropReqOK(q)
  BY <1>6, <1>u DEF RecvLiteAck, Takes
<1>7. ASSUME NEW p \in net, RecvNak(p) PROVE \A q \in net' : q \in net \/ DropReqOK(q)
  <2>1. p.lo \in Nat /\ p.hi \in Nat
    BY <1>7, <1>t DEF NetOK, PktOK, RecvNak
  <2>2. CASE p.hi >= next \/ p.lo >= lastAck
    BY <1>7, <1>u, <2>2 DEF RecvNak, Takes
  <2>3. CASE ~(p.hi >= next) /\ ~(p.lo >= lastAck)
    <3>1. PICK q : q = DropReq(p.lo, Min({p.hi, lastAck - 1}), 0)
      OBVIOUS
    <3>2. net' \subseteq net \cup {q}
      BY <1>7, <2>3, <3>1 DEF RecvNak, Takes
    <3>3. PICK h : h = Min({p.hi, lastAck - 1})
      OBVIOUS
    <3>4. h \in Int /\ h <= lastAck - 1
      BY <1>t, <2>1, <3>3, MinOfTwo
    <3>5. \A s \in p.lo .. h : s \in 0 .. (lastAck - 1)
      BY <1>t, <2>1, <3>4
    <3>6. \A s \in p.lo .. h : Received(s)
      BY <3>5 DEF AckInv, AckSound, Received
    <3>7. q.lo = p.lo /\ q.hi = h
      BY <3>1, <3>3 DEF DropReq
    <3> QED
      BY <3>2, <3>6, <3>7 DEF DropReqOK
  <2> QED
    BY <2>2, <2>3
<1>8. ASSUME NEW p \in net, RecvNew(p) PROVE \A q \in net' : q \in net \/ DropReqOK(q)
  <2>1. PICK R : R = LossReport(p.seq)
    OBVIOUS
  <2>2. net' \subseteq net \cup R
    BY <1>8, <2>1 DEF RecvNew, Takes
  <2>3. \A q \in R : q.type # "DROPREQ"
    <3>1. CASE Gap(p.seq) = {}
      BY <2>1, <3>1 DEF LossReport
    <3>2. CASE Gap(p.seq) # {}
      <4>1. R = {Nak(rcvCurr + 1, p.seq - 1)}
        BY <2>1, <3>2 DEF LossReport
      <4> QED
        BY <4>1 DEF Nak
    <3> QED
      BY <3>1, <3>2
  <2> QED
    BY <1>0, <2>2, <2>3
<1>9. ASSUME NEW p \in net, RecvBelated(p) \/ RecvRedundant(p) \/ RecvDropReq(p) \/ RecvAckAck(p) \/ Lose(p)
      PROVE  \A q \in net' : q \in net \/ DropReqOK(q)
  BY <1>9, <1>u DEF RecvBelated, RecvRedundant, RecvDropReq, RecvAckAck, Lose, Takes
<1>10. CASE AckAdvances \/ AckRepeats \/ AckWakes
  BY <1>10, <1>u DEF AckAdvances, AckRepeats, AckWakes, TimerFires, netVars
<1>11. CASE AckSends
  <2>1. PICK R : R = {Ack(rcvLastAck, AvailSize)}
    OBVIOUS
  <2>2. net' \subseteq net \cup R
    BY <1>11, <2>1 DEF AckSends, Sends, netVars
  <2> QED
    BY <1>0, <2>1, <2>2 DEF Ack
<1>12. CASE SendLiteAck
  <2>1. PICK R : R = {LiteAck(FirstNoncont)}
    OBVIOUS
  <2>2. net' \subseteq net \cup R
    BY <1>12, <2>1 DEF SendLiteAck, Sends, netVars
  <2> QED
    BY <1>0, <2>1, <2>2 DEF LiteAck
<1>13. CASE AppReceives \/ UNCHANGED vars
  BY <1>13, <1>u DEF AppReceives, AppWakes, ReceiveMessage, ReceiveChecks, ReceiveClears,
    ReceiveNothing, ReceiveAgain, netVars, vars
<1> QED
  BY <1>1, <1>2, <1>3, <1>4, <1>5, <1>6, <1>7, <1>8, <1>9, <1>10, <1>11, <1>12, <1>13
  DEF Next, Losses, SndWorker, RecvData, RecvAcks, RecvLites, RecvNaks, RecvControl, AckTimer

(* A message of one packet that is read was stored, and is the next or a   *)
(* datagram; what is skipped behind it was read or dropped before.         *)
LEMMA ReadOne ==
  ASSUME OnePacket, BufInv, NEW m \in Msgs, Read(m)
  PROVE  /\ m - 1 \in held /\ m \in Nat /\ MsgOf[m - 1] = m
         /\ m - 1 = start \/ m \in dgram
         /\ start <= start' /\ start' \in Nat /\ held' \subseteq held
         /\ \A s \in start .. (start' - 1) : s = m - 1 \/ s \in readAt \cup dropAt
         /\ \A s \in readAt' \cup dropAt' : s \in readAt \cup dropAt \/ s = m - 1
         /\ \A s \in readAt \cup dropAt \cup {m - 1} : s < start' \/ s \in readAt' \cup dropAt'
<1>s. NPkts \in Nat \ {0} /\ \A t : t \in Seqs <=> t \in Nat /\ t < NPkts
  BY Sizes
<1>b. /\ start \in 0 .. NPkts /\ non \in start .. NPkts /\ start \in Nat /\ non \in Nat /\ start <= non
      /\ held \subseteq Seqs /\ readAt \subseteq Seqs /\ dropAt \subseteq Seqs
  BY <1>s DEF BufInv
<1>1. PICK s \in Seqs : m = MsgOf[s]
  BY DEF Msgs
<1>2. m = s + 1 /\ Pkts(m) = {s} /\ Max(Pkts(m)) = s /\ s \in Nat /\ m - 1 = s /\ m \in Nat
  <2>1. m = s + 1 /\ Pkts(m) = {s} /\ Max(Pkts(m)) = s
    BY <1>1, OnePacketIs
  <2>2. s \in Nat
    BY <1>s
  <2> QED
    BY <2>1, <2>2
<1>k. PICK b, r, d : start' = b /\ readAt' = r /\ dropAt' = d
  OBVIOUS
<1>f. PICK F : F = readAt \cup dropAt \cup {s}
  OBVIOUS
<1>3. CASE ReadInOrder(m)
  <2>1. non # start /\ m = MsgOf[start]
    BY <1>3 DEF ReadInOrder, InOrderReady
  <2>2. start \in Seqs /\ start \in start .. (non - 1)
    BY <1>s, <1>b, <2>1
  <2>3. start = s /\ start \in held
    BY <1>2, <1>s, <2>1, <2>2, OnePacketIs DEF BufInv
  <2>4. b = PastFillers(s + 1, readAt \cup dropAt)
    BY <1>2, <1>3, <1>k DEF ReadInOrder, Released
  <2>5. s + 1 \in 0 .. NPkts
    BY <1>s
  <2>6. /\ b \in (s + 1) .. NPkts /\ \A t \in (s + 1) .. (b - 1) : t \in readAt \cup dropAt
    BY <1>b, <2>4, <2>5, PastFillersIs
  <2>7. \A t \in start .. (b - 1) : t = s \/ t \in (s + 1) .. (b - 1)
    BY <1>2, <1>s, <2>3, <2>6
  <2>8. b \in Nat /\ start <= b /\ s < b
    BY <1>2, <1>s, <2>3, <2>6
  <2>9. r = {t \in readAt : t >= b} /\ d = {t \in dropAt : t >= b} /\ held' \subseteq held
    BY <1>3, <1>k DEF ReadInOrder
  <2>10. \A t \in readAt \cup dropAt \cup {s} : t < b \/ t \in r \cup d
    BY <1>b, <1>s, <2>8, <2>9
  <2> QED
    BY <1>1, <1>2, <1>k, <2>3, <2>6, <2>7, <2>8, <2>9, <2>10
<1>4. CASE ReadOutOfOrder(m)
  <2>1. m \in dgram /\ s \in held
    BY <1>2, <1>4 DEF ReadOutOfOrder, Complete
  <2>2. b = PastFillers(start, F)
    BY <1>2, <1>4, <1>f, <1>k DEF ReadOutOfOrder, Released
  <2>3. F \subseteq Seqs
    BY <1>b, <1>f
  <2>4. b \in start .. NPkts /\ \A t \in start .. (b - 1) : t \in F
    BY <1>b, <2>2, <2>3, PastFillersIs
  <2>5. b \in Nat /\ start <= b
    BY <1>b, <1>s, <2>4
  <2>6. r = {t \in readAt \cup {s} : t >= b} /\ d = {t \in dropAt : t >= b} /\ held' \subseteq held
    BY <1>2, <1>4, <1>k DEF ReadOutOfOrder
  <2>7. \A t \in readAt \cup dropAt \cup {s} : t < b \/ t \in r \cup d
    BY <1>b, <1>s, <2>5, <2>6
  <2> QED
    BY <1>1, <1>2, <1>f, <1>k, <2>1, <2>4, <2>5, <2>6, <2>7
<1> QED
  BY <1>3, <1>4 DEF Read

(* What a drop request takes out are datagrams. *)
LEMMA DropOne ==
  ASSUME OnePacket, BufInv, \A s \in readAt \cup dropAt : MsgOf[s] \in dgram,
         NEW p, p.type = "DROPREQ", p.lo \in Nat, p.hi \in Seqs, DropReqOK(p),
         Drop(p.lo, p.hi, p.msg)
  PROVE  /\ start <= start' /\ start' \in Nat /\ held' \subseteq held
         /\ \A s \in start .. (start' - 1) : MsgOf[s] \in dgram
         /\ \A s \in readAt' \cup dropAt' : MsgOf[s] \in dgram
         /\ \A s \in readAt \cup dropAt : s < start' \/ s \in readAt' \cup dropAt'
<1>s. NPkts \in Nat \ {0} /\ \A t : t \in Seqs <=> t \in Nat /\ t < NPkts
  BY Sizes
<1>b. /\ start \in 0 .. NPkts /\ start \in Nat
      /\ held \subseteq Seqs /\ readAt \subseteq Seqs /\ dropAt \subseteq Seqs
  BY <1>s DEF BufInv
<1>k. PICK b, r, d : start' = b /\ readAt' = r /\ dropAt' = d
  OBVIOUS
<1>1. PICK G, F : G = ToDrop(p.lo, p.hi, p.msg) /\ F = readAt \cup dropAt \cup G
  OBVIOUS
<1>2. G \subseteq Seqs /\ \A s \in G : MsgOf[s] \in dgram
  <2>1. \A s \in held : Kept(s)
    BY <1>b, OnePacketIs DEF Kept
  <2>2. SUFFICES ASSUME NEW s \in G PROVE s \in Seqs /\ MsgOf[s] \in dgram
    OBVIOUS
  <2>3. s \in p.lo .. p.hi /\ start <= s /\ s \notin held
    BY <1>1, <2>1 DEF ToDrop, Fits
  <2>4. s \in Seqs /\ ~(s < start)
    BY <1>b, <1>s, <2>3
  <2> QED
    BY <2>3, <2>4 DEF DropReqOK, Received
<1>3. /\ b = PastFillers(start, F) /\ held' \subseteq held
      /\ r = {s \in readAt \ G : s >= b} /\ d = {s \in dropAt \cup G : s >= b}
  BY <1>1, <1>k DEF Drop
<1>4. F \subseteq Seqs /\ \A s \in F : MsgOf[s] \in dgram
  BY <1>b, <1>1, <1>2
<1>5. b \in start .. NPkts /\ \A t \in start .. (b - 1) : t \in F
  BY <1>b, <1>3, <1>4, PastFillersIs
<1>6. b \in Nat /\ start <= b
  BY <1>b, <1>s, <1>5
<1>7. \A s \in readAt \cup dropAt : s < b \/ s \in r \cup d
  BY <1>b, <1>s, <1>3, <1>6
<1>8. r \cup d \subseteq F
  BY <1>1, <1>3
<1> QED
  BY <1>k, <1>3, <1>4, <1>5, <1>6, <1>7, <1>8

LEMMA SvcInvNext ==
  ASSUME OnePacket
  PROVE  CoreInv /\ AckInv /\ SvcInv /\ [Next]_vars => SvcInv'
<1> SUFFICES ASSUME CoreInv, AckInv, SvcInv, [Next]_vars PROVE SvcInv'
  OBVIOUS
<1>d. dgram' = dgram
  BY DgramKept DEF CoreInv
<1>s. NPkts \in Nat \ {0} /\ \A t : t \in Seqs <=> t \in Nat /\ t < NPkts
  BY Sizes
<1>b. BufInv /\ SeqInv /\ start \in Nat /\ held \subseteq Seqs
  BY <1>s DEF CoreInv, BufInv
<1>a. added \in Nat /\ next \in Nat /\ next <= added
  BY <1>s DEF CoreInv, SeqInv, TypeOK
<1>i. /\ got \in Seq(Msgs)
      /\ \A s \in readAt \cup dropAt : MsgOf[s] \in dgram
      /\ \A p \in net : DropReqOK(p)
      /\ \A s \in held : s < added
      /\ \A s \in 0 .. (start - 1) : MsgOf[s] \notin dgram => \E i \in DOMAIN got : got[i] = MsgOf[s]
      /\ \A i \in DOMAIN got : got[i] - 1 < start \/ got[i] - 1 \in readAt \cup dropAt
  BY DEF SvcInv
<1>1. \A p \in net' : DropReqOK(p)'
  <2>1. SUFFICES ASSUME NEW p \in net', p.type = "DROPREQ"
                 PROVE  (\A s \in p.lo .. p.hi : Received(s)') \/ (\A s \in p.lo .. p.hi : MsgOf[s] \in dgram')
    BY DEF DropReqOK
  <2>2. DropReqOK(p)
    BY <1>i, DropReqsSent
  <2>3. \A s \in p.lo .. p.hi : Received(s) => Received(s)'
    BY <1>b, BufMoves
  <2> QED
    BY <1>d, <2>1, <2>2, <2>3 DEF DropReqOK
<1>g. added' >= added /\ added' \in Nat
  <2>1. CASE added' = added
    BY <1>a, <2>1
  <2>2. ASSUME NEW m \in Msgs, Sendmsg2(m) PROVE added' >= added /\ added' \in Nat
    <3>1. PICK x, y : x = Min(Pkts(m)) /\ y = Max(Pkts(m))
      OBVIOUS
    <3>2. x <= y /\ x \in Nat /\ y \in Nat
      BY <1>s, <3>1, MsgEnds
    <3>3. added = x /\ added' = y + 1
      BY <2>2, <3>1 DEF Sendmsg2, AddBuffer
    <3> QED
      BY <3>2, <3>3
  <2>3. (\E m \in Msgs : Sendmsg2(m)) \/ added' = added
    BY DEF Next, Losses, Expire, SndWorker, Pop, ExtractRexmit, ExtractDrop, PackUniqueData, RecvData,
      RecvBelated, RecvRedundant, RecvNew, RecvAcks, RecvAck, RecvLites, RecvLiteAck, RecvNaks, RecvNak,
      RecvControl, RecvDropReq, RecvAckAck, CheckRexmitTimer, AckTimer, AckAdvances, AckRepeats,
      AckWakes, AckSends, SendLiteAck, AppReceives, AppWakes, ReceiveMessage, ReceiveChecks,
      ReceiveClears, ReceiveNothing, ReceiveAgain, Lose, sndVars, vars
  <2> QED
    BY <2>1, <2>2, <2>3
<1>h. ASSUME held' \subseteq held PROVE \A s \in held' : s < added'
  BY <1>a, <1>b, <1>g, <1>h, <1>i, <1>s
<1>r. (\E m \in Msgs : ReceiveMessage(m)) \/ got' = got
  BY DEF Next, Losses, Sendmsg2, Expire, SndWorker, Pop, ExtractRexmit, ExtractDrop, PackUniqueData, RecvData,
    RecvBelated, RecvRedundant, RecvNew, RecvAcks, RecvAck, RecvLites, RecvLiteAck, RecvNaks, RecvNak,
    RecvControl, RecvDropReq, RecvAckAck, CheckRexmitTimer, AckTimer, AckAdvances, AckRepeats,
    AckWakes, AckSends, SendLiteAck, AppReceives, AppWakes, ReceiveChecks,
    ReceiveClears, ReceiveNothing, ReceiveAgain, Lose, appVars, vars
<1>2. CASE UNCHANGED bufVars /\ got' = got
  <2>1. held' \subseteq held /\ UNCHANGED <<start, held, readAt, dropAt>>
    BY <1>2 DEF bufVars
  <2> QED
    BY <1>1, <1>2, <1>d, <1>h, <1>i, <2>1 DEF SvcInv
<1>3. ASSUME NEW p \in net, RecvNew(p), Store(p.seq) PROVE SvcInv'
  <2>1. p.seq < added
    <3>1. p.type = "DATA"
      BY <1>3 DEF RecvNew
    <3>2. p.seq \in 0 .. (next - 1)
      BY <1>b, <3>1 DEF SeqInv, NetOK, PktOK
    <3> QED
      BY <1>a, <3>2
  <2>2. held' = held \cup {p.seq} /\ UNCHANGED <<start, readAt, dropAt>>
    BY <1>3 DEF Store
  <2>3. got' = got /\ added' = added
    BY <1>3 DEF RecvNew, appVars, sndVars
  <2> QED
    BY <1>1, <1>d, <1>i, <2>1, <2>2, <2>3 DEF SvcInv
<1>4. ASSUME NEW m \in Msgs, ReceiveMessage(m) PROVE SvcInv'
  <2>r. Read(m) /\ got' = Append(got, m)
    BY <1>4 DEF ReceiveMessage
  <2>k. PICK b, F : b = start' /\ F = readAt' \cup dropAt'
    OBVIOUS
  <2>g. PICK g : g = got'
    OBVIOUS
  <2>1. /\ m - 1 \in held /\ m \in Nat /\ MsgOf[m - 1] = m
        /\ m - 1 = start \/ m \in dgram
        /\ start <= b /\ b \in Nat /\ held' \subseteq held
        /\ \A s \in start .. (b - 1) : s = m - 1 \/ s \in readAt \cup dropAt
        /\ \A s \in F : s \in readAt \cup dropAt \/ s = m - 1
        /\ \A s \in readAt \cup dropAt \cup {m - 1} : s < b \/ s \in F
    BY <1>b, <2>k, <2>r, ReadOne
  <2>2. g \in Seq(Msgs) /\ DOMAIN g = 1 .. (Len(got) + 1) /\ DOMAIN got = 1 .. Len(got)
        /\ g[Len(got) + 1] = m /\ \A i \in 1 .. Len(got) : g[i] = got[i]
    BY <1>i, <2>g, <2>r
  <2>l. Len(got) \in Nat
    BY <1>i
  <2>3. \A s \in F : MsgOf[s] \in dgram
    <3>1. SUFFICES ASSUME NEW s \in F, s = m - 1, m \notin dgram PROVE FALSE
      BY <1>i, <2>1
    <3>2. m - 1 = start
      BY <2>1, <3>1
    <3>3. s \in readAt' \cup dropAt' /\ ~(s < b)
      <4>1. BufInv' /\ start' \in Nat
        BY <1>b, <2>k, <2>1, BufMoves
      <4>2. \A t \in readAt' \cup dropAt' : t >= start'
        BY <2>r DEF Read, ReadInOrder, ReadOutOfOrder
      <4>3. s >= b /\ b \in Nat /\ s \in Int
        BY <1>b, <2>k, <2>1, <3>1, <4>2
      <4> QED
        BY <2>k, <4>3
    <3>4. start # b
      BY <1>b, <2>k, <2>r, <3>1, <3>2, <3>3, BufMoves DEF BufInv
    <3> QED
      BY <1>b, <2>1, <3>1, <3>2, <3>3, <3>4
  <2>4. \A s \in 0 .. (b - 1) : MsgOf[s] \notin dgram => \E i \in DOMAIN g : g[i] = MsgOf[s]
    <3>1. SUFFICES ASSUME NEW s \in 0 .. (b - 1), MsgOf[s] \notin dgram
                   PROVE  \E i \in DOMAIN g : g[i] = MsgOf[s]
      OBVIOUS
    <3>2. CASE s \in 0 .. (start - 1)
      BY <1>i, <2>2, <2>l, <3>1, <3>2
    <3>3. CASE s \in start .. (b - 1)
      <4>1. s = m - 1
        BY <1>i, <2>1, <3>1, <3>3
      <4> QED
        BY <2>1, <2>2, <2>l, <4>1
    <3> QED
      BY <1>b, <2>1, <3>2, <3>3
  <2>5. \A i \in DOMAIN g : g[i] - 1 < b \/ g[i] - 1 \in F
    <3>1. SUFFICES ASSUME NEW i \in DOMAIN g PROVE g[i] - 1 < b \/ g[i] - 1 \in F
      OBVIOUS
    <3>2. CASE i = Len(got) + 1
      BY <2>1, <2>2, <3>2
    <3>3. CASE i \in 1 .. Len(got)
      <4>1. got[i] - 1 < start \/ got[i] - 1 \in readAt \cup dropAt
        BY <1>i, <2>2, <3>3
      <4>2. got[i] \in Int
        BY <1>i, <2>2, <3>3, BufferAssumption DEF Msgs
      <4> QED
        BY <1>b, <2>1, <2>2, <3>3, <4>1, <4>2
    <3> QED
      BY <2>2, <2>l, <3>2, <3>3
  <2>6. \A s \in held' : s < added'
    BY <1>h, <2>1
  <2> QED
    BY <1>1, <1>d, <2>g, <2>k, <2>2, <2>3, <2>4, <2>5, <2>6 DEF SvcInv
<1>5. ASSUME NEW p \in net, RecvDropReq(p), p.lo \in Nat, p.hi \in Seqs, Drop(p.lo, p.hi, p.msg)
      PROVE  SvcInv'
  <2>k. PICK b, F : b = start' /\ F = readAt' \cup dropAt'
    OBVIOUS
  <2>0. p.type = "DROPREQ" /\ DropReqOK(p) /\ got' = got
    BY <1>5, <1>i DEF RecvDropReq, appVars
  <2>1. /\ start <= b /\ b \in Nat /\ held' \subseteq held
        /\ \A s \in start .. (b - 1) : MsgOf[s] \in dgram
        /\ \A s \in F : MsgOf[s] \in dgram
        /\ \A s \in readAt \cup dropAt : s < b \/ s \in F
    BY <1>5, <1>b, <1>i, <2>0, <2>k, DropOne
  <2>2. \A s \in 0 .. (b - 1) : MsgOf[s] \notin dgram => \E i \in DOMAIN got : got[i] = MsgOf[s]
    <3>1. SUFFICES ASSUME NEW s \in 0 .. (b - 1), MsgOf[s] \notin dgram
                   PROVE  \E i \in DOMAIN got : got[i] = MsgOf[s]
      OBVIOUS
    <3>2. s \in 0 .. (start - 1)
      BY <1>b, <2>1, <3>1
    <3> QED
      BY <1>i, <3>1, <3>2
  <2>3. \A i \in DOMAIN got : got[i] - 1 < b \/ got[i] - 1 \in F
    <3>1. SUFFICES ASSUME NEW i \in DOMAIN got PROVE got[i] - 1 < b \/ got[i] - 1 \in F
      OBVIOUS
    <3>2. got[i] \in Int
      BY <1>i, BufferAssumption DEF Msgs
    <3> QED
      BY <1>b, <1>i, <2>1, <3>2
  <2>4. \A s \in held' : s < added'
    BY <1>h, <2>1
  <2> QED
    BY <1>1, <1>d, <1>i, <2>0, <2>k, <2>1, <2>2, <2>3, <2>4 DEF SvcInv
<1>6. CASE UNCHANGED vars
  BY <1>2, <1>6 DEF vars, appVars
<1>7. (\E m \in Msgs : ReceiveMessage(m)) \/ (got' = got /\ ~\E m \in Msgs : ReceiveMessage(m))
  BY <1>r
<1> QED
  BY <1>2, <1>3, <1>4, <1>5, <1>6, <1>7, <1>b, BufSteps

(* Every step is one of the service, or changes nothing it speaks of. *)
LEMMA ServiceStep ==
  ASSUME OnePacket
  PROVE  CoreInv /\ SvcInv /\ [Next]_vars => [Service!SvcNext]_(Service!serviceVars)
<1> SUFFICES ASSUME CoreInv, SvcInv, [Next]_vars
             PROVE  Service!SvcNext \/ UNCHANGED <<added, got, dgram>>
  BY DEF Service!serviceVars
<1>d. dgram' = dgram
  BY DgramKept DEF CoreInv
<1>s. NPkts \in Nat \ {0} /\ \A t : t \in Seqs <=> t \in Nat /\ t < NPkts
  BY Sizes
<1>b. BufInv /\ start \in Nat /\ held \subseteq Seqs /\ added \in Nat
  BY <1>s DEF CoreInv, BufInv, SeqInv, TypeOK
<1>1. ASSUME NEW m \in Msgs, Sendmsg2(m) PROVE Service!SvcNext
  <2>1. PICK s \in Seqs : m = MsgOf[s]
    BY DEF Msgs
  <2>2. Max(Pkts(m)) = s /\ Pkts(m) = {s} /\ s \in Nat /\ s < NPkts
    BY <1>s, <2>1, OnePacketIs
  <2>3. Min(Pkts(m)) \in Pkts(m)
    BY MsgEnds
  <2>4. added = s /\ added' = s + 1 /\ got' = got
    BY <1>1, <2>2, <2>3 DEF Sendmsg2, AddBuffer, appVars
  <2> QED
    BY <1>d, <2>2, <2>4 DEF Service!SvcNext, Service!SvcSubmit
<1>2. ASSUME NEW m \in Msgs, ReceiveMessage(m) PROVE Service!SvcNext
  <2>r. Read(m) /\ got' = Append(got, m) /\ added' = added
    BY <1>2 DEF ReceiveMessage, sndVars
  <2>1. m - 1 \in held /\ m \in Nat /\ (m - 1 = start \/ m \in dgram)
    BY <1>b, <2>r, ReadOne
  <2>2. m - 1 \in Seqs /\ m - 1 >= start /\ m - 1 \notin readAt \cup dropAt /\ m - 1 < added
    BY <1>b, <2>1 DEF BufInv, SvcInv
  <2>3. m \in 1 .. NPkts /\ m <= added /\ ~(m - 1 < start)
    BY <1>b, <1>s, <2>1, <2>2
  <2>4. m \notin Service!Delivered
    BY <2>2, <2>3 DEF SvcInv, Service!Delivered
  <2>5. ASSUME m \in Service!Reliable, NEW k \in Service!Reliable, k < m
        PROVE  k \in Service!Delivered
    <3>1. m - 1 = start /\ k \in 1 .. NPkts /\ k \notin dgram
      BY <2>1, <2>5 DEF Service!Reliable, Service!Numbers
    <3>2. PICK t : t = k - 1
      OBVIOUS
    <3>3. t \in Seqs /\ t \in 0 .. (start - 1) /\ k = t + 1
      BY <1>b, <1>s, <2>1, <2>5, <3>1, <3>2
    <3>4. MsgOf[t] = k
      BY <3>3, OnePacketIs
    <3> QED
      BY <3>1, <3>3, <3>4 DEF SvcInv, Service!Delivered
  <2>6. ASSUME NEW k \in Service!Delivered \cap Service!Reliable PROVE k < m
    <3>1. k \in 1 .. NPkts /\ k \notin dgram
      BY DEF Service!Reliable, Service!Numbers
    <3>2. PICK t : t = k - 1
      OBVIOUS
    <3>3. t \in Seqs /\ k = t + 1 /\ t \in Nat /\ k \in Nat
      BY <1>s, <3>1, <3>2
    <3>4. MsgOf[t] = k
      BY <3>3, OnePacketIs
    <3>5. t < start \/ t \in readAt \cup dropAt
      BY <3>2 DEF SvcInv, Service!Delivered
    <3>6. t < start
      BY <3>1, <3>4, <3>5 DEF SvcInv
    <3> QED
      BY <1>b, <2>1, <2>2, <3>3, <3>6
  <2>7. Service!SvcDeliver(m)
    BY <1>d, <2>r, <2>3, <2>4, <2>5, <2>6 DEF Service!SvcDeliver
  <2> QED
    BY <2>3, <2>7 DEF Service!SvcNext, Service!Numbers
<1>3. (\E m \in Msgs : Sendmsg2(m) \/ ReceiveMessage(m)) \/ UNCHANGED <<added, got>>
  BY DEF Next, Losses, Expire, SndWorker, Pop, ExtractRexmit, ExtractDrop, PackUniqueData, RecvData,
    RecvBelated, RecvRedundant, RecvNew, RecvAcks, RecvAck, RecvLites, RecvLiteAck, RecvNaks, RecvNak,
    RecvControl, RecvDropReq, RecvAckAck, CheckRexmitTimer, AckTimer, AckAdvances, AckRepeats,
    AckWakes, AckSends, SendLiteAck, AppReceives, AppWakes, ReceiveChecks,
    ReceiveClears, ReceiveNothing, ReceiveAgain, Lose, sndVars, appVars, vars
<1> QED
  BY <1>1, <1>2, <1>3, <1>d

(* With messages of one packet, reliable ones and datagrams, the transfer  *)
(* delivers each message at most once, reliable ones in order and without  *)
(* a gap, whatever the network loses, repeats and reorders.                *)
THEOREM TransferIsService ==
  ASSUME OnePacket
  PROVE  Spec => Implements
<1>1. Init => SvcInv /\ Service!SvcInit
  <2>1. SUFFICES ASSUME Init PROVE SvcInv /\ Service!SvcInit
    OBVIOUS
  <2>2. dgram \in Mixes /\ start = 0 /\ held = {} /\ readAt = {} /\ dropAt = {} /\ net = {}
        /\ got = <<>> /\ added = 0
    BY <2>1 DEF Init, BufInit
  <2>3. SvcInv
    <3>1. 0 .. (start - 1) = {} /\ DOMAIN got = {} /\ got \in Seq(Msgs)
      BY <2>2
    <3> QED
      BY <2>2, <3>1 DEF SvcInv
  <2>4. dgram \subseteq 1 .. NPkts
    <3>1. SUFFICES ASSUME NEW m \in dgram PROVE m \in 1 .. NPkts
      OBVIOUS
    <3>2. PICK s \in Seqs : MsgOf[s] = m
      BY <2>2, BufferAssumption
    <3> QED
      BY <3>2, Sizes DEF OnePacket
  <2> QED
    BY <2>2, <2>3, <2>4 DEF Service!SvcInit, Service!Numbers
<1>2. CoreInv /\ AckInv /\ SvcInv /\ [Next]_vars => SvcInv'
  BY SvcInvNext
<1>3. CoreInv /\ SvcInv /\ [Next]_vars => [Service!SvcNext]_(Service!serviceVars)
  BY ServiceStep
<1> QED
  BY <1>1, <1>2, <1>3, CoreInvHolds, AckInvHolds, PTL DEF Spec, Implements, Service!SvcSpec
=============================================================================
