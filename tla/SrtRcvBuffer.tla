---------------------------- MODULE SrtRcvBuffer -----------------------------
(***************************************************************************)
(* libsrt's receive buffer, CRcvBuffer (src/srt-1.5.6/srtcore/             *)
(* buffer_rcv.cpp), in message mode without TSBPD: a circular array of     *)
(* m_szSize entries, positions in it, and the search for messages that may *)
(* be read out of order.  Every method runs under m_RcvBufferLock and is   *)
(* one step; its helpers are operators on the record buf, named after the  *)
(* code.                                                                   *)
(***************************************************************************)
EXTENDS Integers, FiniteSets, FiniteSetsExt

CONSTANTS NPkts, MsgOf, Capacity, Mixes \* as in MsgBuffer

ASSUME RcvBufferAssumption ==
  /\ NPkts \in Nat \ {0} /\ Capacity \in Nat \ {0}
  /\ MsgOf \in [0 .. (NPkts - 1) -> Nat \ {0}]
  /\ \A s, t \in 0 .. (NPkts - 1) : s <= t => MsgOf[s] <= MsgOf[t]
  /\ \A mix \in Mixes : \A m \in mix : \E s \in 0 .. (NPkts - 1) : MsgOf[s] = m

VARIABLES
  buf,  \* the CRcvBuffer
  dgram \* messages sent with inorder = 0; set once

vars == <<buf, dgram>>

Size == Capacity + 1
Positions == 0 .. (Size - 1)

(* What an entry holds: a packet (its sequence number), or a status. *)
Empty == -1
ReadOut == -2
Dropped == -3

(* The promise, in sequence numbers.  The mapping is at the end. *)
IncPos(p, n) == (p + n) % Size
OffPos(p1, p2) == (p2 - p1) % Size

Layout == INSTANCE MsgBuffer WITH start <- 0, held <- {}, readAt <- {}, dropAt <- {}, non <- 0
IsFirst(s) == Layout!IsFirst(s)
IsLast(s) == Layout!IsLast(s)
Pkts(m) == Layout!Pkts(m)

HasUnit(b, p) == b.entries[p] >= 0
OrderFlag(s) == MsgOf[s] \notin dgram

Init ==
  /\ buf = [entries |-> [p \in Positions |-> Empty], startSeqNo |-> 0, startPos |-> 0,
            nonreadPos |-> 0, maxPosOff |-> 0, numOutOfOrder |-> 0, readableOOO |-> -1]
  /\ dgram \in Mixes

HasReadableInorderPkts(b) == b.nonreadPos # b.startPos

IsRcvDataReady(b) ==
  HasReadableInorderPkts(b) \/ (b.numOutOfOrder > 0 /\ b.readableOOO # -1)

(* isInRange(startPos, maxPosOff, size, nonreadPos) *)
IsInRange(b) == OffPos(b.startPos, b.nonreadPos) <= b.maxPosOff

(* The positions from p on, n of them, all hold packets. *)
Run(b, p, n) == \A k \in 0 .. (n - 1) : HasUnit(b, IncPos(p, k))

UpdateNonreadPos(b) ==
  LET span == OffPos(b.nonreadPos, IncPos(b.startPos, b.maxPosOff))
      reach == {n \in 1 .. span : /\ Run(b, b.nonreadPos, n)
                                  /\ IsFirst(b.entries[b.nonreadPos])
                                  /\ IsLast(b.entries[IncPos(b.nonreadPos, n - 1)])}
  IN  IF b.maxPosOff = 0 \/ reach = {} THEN b
      ELSE [b EXCEPT !.nonreadPos = IncPos(@, Max(reach))]

ReleaseNextFillerEntries(b) ==
  LET n == Min({k \in 0 .. Size : k = Size \/ b.entries[IncPos(b.startPos, k)] \notin {ReadOut, Dropped}})
      freed == {IncPos(b.startPos, k) : k \in 0 .. (n - 1)}
  IN  [b EXCEPT !.entries = [p \in Positions |-> IF p \in freed THEN Empty ELSE @[p]],
                !.startSeqNo = @ + n,
                !.startPos = IncPos(@, n),
                !.maxPosOff = IF @ > n THEN @ - n ELSE 0]

(* The packets of a message that lie next to each other around position p, *)
(* as scanNotInOrderMessageRight and -Left walk them: offsets from start.  *)
Whole(b, p) ==
  LET m == MsgOf[b.entries[p]]
      off == OffPos(b.startPos, p)
      SameAt(k) == LET e == b.entries[IncPos(b.startPos, k)] IN e >= 0 /\ MsgOf[e] = m
      firsts == {k \in 0 .. off : /\ \A j \in k .. off : SameAt(j)
                                  /\ IsFirst(b.entries[IncPos(b.startPos, k)])}
      lasts == {k \in off .. (b.maxPosOff - 1) : /\ \A j \in off .. k : SameAt(j)
                                                 /\ IsLast(b.entries[IncPos(b.startPos, k)])}
  IN  IF firsts # {} /\ lasts # {} THEN IncPos(b.startPos, Max(firsts)) ELSE -1

OnInsertNotInOrderPacket(b, p) ==
  IF b.readableOOO >= 0 THEN b ELSE [b EXCEPT !.readableOOO = Whole(b, p)]

(* The first whole message, from the start, whose packets may be read out  *)
(* of order.  The loop of updateFirstReadableOutOfOrder ends when it has   *)
(* seen numOutOfOrder such packets: NumOutOfOrderExact.                    *)
UpdateFirstReadableOutOfOrder(b) ==
  LET found == {k \in 0 .. (b.maxPosOff - 1) :
                  LET p == IncPos(b.startPos, k)
                  IN  HasUnit(b, p) /\ ~OrderFlag(b.entries[p]) /\ Whole(b, p) = p}
  IN  IF HasReadableInorderPkts(b) \/ b.numOutOfOrder <= 0 \/ b.readableOOO >= 0 \/ found = {}
      THEN b ELSE [b EXCEPT !.readableOOO = IncPos(b.startPos, Min(found))]

(* dropUnitInPos of the positions ps. *)
DropUnitsNoCount(b, ps) ==
  [b EXCEPT !.entries = [p \in Positions |-> IF p \in ps THEN Dropped ELSE @[p]],
            !.readableOOO = IF @ \in ps THEN -1 ELSE @]
DropUnits(b, ps) ==
  [b EXCEPT !.entries = [p \in Positions |-> IF p \in ps THEN Dropped ELSE @[p]],
            !.numOutOfOrder = @ - Cardinality({p \in ps : HasUnit(b, p) /\ ~OrderFlag(b.entries[p])}),
            !.readableOOO = IF @ \in ps /\ ~OrderFlag(b.entries[@]) THEN -1 ELSE @]

(* checkFirstReadableOutOfOrder, and the reset in dropMessage. *)
CheckedFirstReadable(b) ==
  IF \/ b.numOutOfOrder <= 0 \/ b.readableOOO < 0 \/ b.maxPosOff = 0
     \/ ~HasUnit(b, b.readableOOO)
     \/ OrderFlag(b.entries[b.readableOOO])
     \/ Whole(b, b.readableOOO) # b.readableOOO
  THEN [b EXCEPT !.readableOOO = -1] ELSE b
-----------------------------------------------------------------------------
(* insert *)
InsertResult(s) ==
  LET off == s - buf.startSeqNo
  IN  IF off < 0 THEN -2 ELSE IF off >= Capacity THEN -3
      ELSE IF buf.entries[IncPos(buf.startPos, off)] # Empty THEN -1 ELSE 0

InsertRefused(s) ==
  /\ InsertResult(s) # 0
  /\ buf' = IF InsertResult(s) = -1
            THEN [buf EXCEPT !.maxPosOff = Max({@, s - buf.startSeqNo + 1})] ELSE buf
  /\ UNCHANGED dgram

Insert(s) ==
  /\ InsertResult(s) = 0
  /\ LET off == s - buf.startSeqNo
         pos == IncPos(buf.startPos, off)
         put == [buf EXCEPT !.entries[pos] = s, !.maxPosOff = Max({@, off + 1})]
         counted == IF OrderFlag(s) THEN put
                    ELSE OnInsertNotInOrderPacket([put EXCEPT !.numOutOfOrder = @ + 1], pos)
     IN  buf' = UpdateNonreadPos(counted)
  /\ UNCHANGED dgram

(* readMessage: the position it reads from, and the message there.  The    *)
(* loop ends at the first PB_LAST.                                         *)
ReadPos == IF HasReadableInorderPkts(buf) THEN buf.startPos ELSE buf.readableOOO

ReadLen ==
  Min({n \in 1 .. Size : LET p == IncPos(ReadPos, n - 1)
                         IN  HasUnit(buf, p) /\ IsLast(buf.entries[p])})

ReadMessageNoScan ==
  LET atStart == ReadPos = buf.startPos
      ps == {IncPos(ReadPos, k) : k \in 0 .. (ReadLen - 1)}
      taken == [buf EXCEPT
        !.entries = [p \in Positions |-> IF p \notin ps THEN @[p] ELSE IF atStart THEN Empty ELSE ReadOut],
        !.numOutOfOrder = @ - Cardinality({p \in ps : ~OrderFlag(buf.entries[p])}),
        !.readableOOO = IF @ = ReadPos THEN -1 ELSE @,
        !.startPos = IF atStart THEN IncPos(@, ReadLen) ELSE @,
        !.startSeqNo = IF atStart THEN @ + ReadLen ELSE @,
        !.maxPosOff = IF atStart THEN @ - ReadLen ELSE @]
      next == ReleaseNextFillerEntries(taken)
  IN  IF IsInRange(next) THEN next ELSE [next EXCEPT !.nonreadPos = next.startPos]
AfterReadMessage == UpdateFirstReadableOutOfOrder(ReadMessageNoScan)

ReadMessage ==
  /\ IsRcvDataReady(buf)
  /\ buf' = AfterReadMessage
  /\ UNCHANGED dgram

(* dropMessage(lo, hi, m, KEEP_EXISTING) *)
DropSpan(lo, hi) ==
  {IncPos(buf.startPos, k) : k \in Max({0, lo - buf.startSeqNo})
                                    .. (Min({Size - 1, hi - buf.startSeqNo + 1}) - 1)}
KeptAtNever(p) == FALSE
KeptAt(p) == HasUnit(buf, p) /\ Layout!Solo(buf.entries[p])
DropEarlier(lo, m) ==
  {p \in Positions : /\ HasUnit(buf, p) /\ MsgOf[buf.entries[p]] = m
                     /\ buf.entries[p] < lo /\ ~KeptAt(p)}

DropMessage(lo, hi, m) ==
  /\ LET offA == lo - buf.startSeqNo
         offB == hi - buf.startSeqNo
         ps == {p \in DropSpan(lo, hi) : buf.entries[p] # Dropped /\ ~KeptAt(p)} \cup DropEarlier(lo, m)
         offs == {OffPos(buf.startPos, p) : p \in ps}
         atNonread == offs # {} /\ Min(offs) <= OffPos(buf.startPos, buf.nonreadPos)
         dropped == ReleaseNextFillerEntries(DropUnits(buf, ps))
         moved == IF atNonread
                  THEN UpdateNonreadPos([dropped EXCEPT !.nonreadPos = dropped.startPos])
                  ELSE dropped
     IN  buf' = IF offB < 0 \/ offA >= Size THEN buf
                ELSE UpdateFirstReadableOutOfOrder(CheckedFirstReadable(moved))
  /\ UNCHANGED dgram

Next ==
  \/ \E s \in Layout!Seqs : Insert(s) \/ InsertRefused(s) \/ DropMessage(s, s, 0)
  \/ ReadMessage
  \/ \E m \in dgram : \E lo \in Pkts(m) : DropMessage(lo, Max(Pkts(m)), m)

Spec == Init /\ [][Next]_vars
-----------------------------------------------------------------------------
(* Properties.                                                             *)

SeqAt(p) == buf.startSeqNo + OffPos(buf.startPos, p)
WithStatus(e) == {SeqAt(p) : p \in {q \in Positions : buf.entries[q] = e}}
Stored == {buf.entries[p] : p \in {q \in Positions : HasUnit(buf, q)}}

Promise == INSTANCE MsgBuffer WITH
  start <- buf.startSeqNo, held <- Stored, readAt <- WithStatus(ReadOut),
  dropAt <- WithStatus(Dropped), non <- SeqAt(buf.nonreadPos)

(* The types: positions stay in the array and a packet is at the position  *)
(* its sequence number has, although the array wraps around.               *)
TypeOK ==
  /\ buf.startPos \in Positions /\ buf.nonreadPos \in Positions
  /\ buf.readableOOO \in Positions \cup {-1}
  /\ buf.maxPosOff \in 0 .. Capacity
  /\ buf.numOutOfOrder \in Nat
  /\ \A p \in Positions : HasUnit(buf, p) => buf.entries[p] = SeqAt(p)

(* The circular buffer does what MsgBuffer says, step by step: no packet   *)
(* is lost, no message is read twice or before its time, whatever arrives  *)
(* and is dropped in whatever order (buffer_rcv.cpp:155-528).              *)
Implements == Promise!BufSpec

(* m_numOutOfOrderPackets counts the stored packets that may be read out   *)
(* of order.  updateFirstReadableOutOfOrder looks at no other bound in its *)
(* "continue" branches: with one packet too many on the count it would     *)
(* circle in the array for ever (buffer_rcv.cpp:962-977).                  *)
NumOutOfOrderExact ==
  buf.numOutOfOrder = Cardinality({s \in Stored : ~OrderFlag(s)})

(* A datagram all of whose packets have arrived can be read, although one  *)
(* message only is remembered as readable and the search is skipped while  *)
(* there are messages to read in order; what is remembered can be read     *)
(* (buffer_rcv.cpp:871-911, 942-1001).                                     *)
OutOfOrderFound ==
  /\ ~HasReadableInorderPkts(buf) /\ (\E m \in dgram : Pkts(m) \subseteq Stored)
       => IsRcvDataReady(buf)
  /\ buf.readableOOO >= 0 =>
       LET s == buf.entries[buf.readableOOO]
       IN  s >= 0 /\ IsFirst(s) /\ MsgOf[s] \in dgram /\ Pkts(MsgOf[s]) \subseteq Stored

(* A message that is next in order and has all its packets can be read:    *)
(* m_iFirstNonreadPos is past it ("First position that can't be read",     *)
(* buffer_rcv.h:363).  The code does not guarantee it: RcvBufferStuck.cfg. *)
ReadableIsReady ==
  LET m == MsgOf[buf.startSeqNo]
  IN  buf.startSeqNo < NPkts /\ Pkts(m) \subseteq Stored => IsRcvDataReady(buf)
=============================================================================
