----------------------------- MODULE MuxReorder -----------------------------
(***************************************************************************)
(* One direction of the multiplexing layer of the tunnel                   *)
(* (src/src/tunnel/multiplex.rs): the encoder that numbers the frames of   *)
(* every session, the two send queues and the send thread that merges them *)
(* (src/src/srt/connection.rs), the SRT connection, and the decoder that   *)
(* puts the frames of each session back in order.                          *)
(*                                                                         *)
(* A decoder only ever sees the frames of the peer's encoder, whose        *)
(* direction flag is fixed, so the key (sid, direction) of the decoder's   *)
(* table is the sid once the direction of this instance, DirAccept, is     *)
(* known.  Frames outside session order (heartbeats, datagrams, Rst, the   *)
(* handshake) leave the decoder's table alone (feed returns them first)    *)
(* and are not part of this module.                                        *)
(*                                                                         *)
(* The fields gen and pos of a frame are history: the session (generation  *)
(* of the sid) that sent it and its position in that session.  No action   *)
(* of the encoder or the decoder reads them.                               *)
(***************************************************************************)
EXTENDS Integers, Sequences, FiniteSets

CONSTANTS
  Sids,         \* session ids in use (the code has 1..255)
  EPOCH_MOD,    \* size of the u8 ring the epochs live in (256)
  SEQ_MASK,     \* where a session's sequence numbers run out (2^24 - 1)
  PREOPEN_MAX,  \* frames stashed per sid before its Open (64)
  REORDER_MAX,  \* frames buffered per session behind a gap (4096)
  DirAccept,    \* TRUE: server-to-client direction, which has no Open
  UdpReliable,  \* TRUE: UDP sessions exist and udp_datagram is off
  InOrder,      \* TRUE: SRT keeps the order of messages (inorder = 1)
  MaxGen,       \* bound: sessions started per sid
  MaxData,      \* bound: Data frames per session
  MaxDup,       \* bound: messages that arrive twice
  MaxInFlight   \* bound: frames queued or in flight at a time

ASSUME MuxAssumption ==
  /\ EPOCH_MOD \in Nat /\ EPOCH_MOD > 2
  /\ SEQ_MASK \in Nat \ {0}
  /\ PREOPEN_MAX \in Nat
  /\ REORDER_MAX \in Nat
  /\ PREOPEN_MAX <= REORDER_MAX
  /\ {DirAccept, UdpReliable, InOrder} \subseteq BOOLEAN
  /\ {MaxGen, MaxData, MaxDup, MaxInFlight} \subseteq Nat

VARIABLES
  session,    \* sender: what the session on each sid is doing
  session_tx, \* encoder: epoch and next sequence number of each sid
  epoch_ctr,  \* encoder: the epoch allocator, an AtomicU8
  relq,       \* reliable send queue
  prioq,      \* priority send queue
  relTurn,    \* send thread: TRUE while it waits on the reliable queue
  net,        \* messages handed to SRT and not yet received
  states,     \* decoder: reorder state of each sid
  preopen,    \* decoder: frames waiting for the Open of their sid
  got,        \* frames given to the dispatcher, per sid, in order
  dups        \* messages duplicated so far

senderVars  == <<session, session_tx, epoch_ctr>>
threadVars  == <<relq, prioq, relTurn>>
decoderVars == <<states, preopen, got>>
vars == <<session, session_tx, epoch_ctr, relq, prioq, relTurn, net, states, preopen, got, dups>>

FrameType == {"Open", "Data", "Fin", "Close"}
Epochs == 1 .. (EPOCH_MOD - 1)
Seqs == 0 .. (SEQ_MASK - 1)
Frame == [ftype : FrameType, sid : Sids, epoch : Epochs, sseq : Seqs, gen : Nat, pos : Nat]

(* A SidReorder is the state of a sid in the decoder; its buffer is a      *)
(* table from sequence numbers to frames (a BTreeMap).                     *)
IsSidReorder(st) ==
  /\ st = [epoch |-> st.epoch, next |-> st.next, buf |-> [n \in DOMAIN st.buf |-> st.buf[n]]]
  /\ st.epoch \in 0 .. (EPOCH_MOD - 1)
  /\ st.next \in 0 .. SEQ_MASK
  /\ DOMAIN st.buf \subseteq Seqs
  /\ \A n \in DOMAIN st.buf : st.buf[n] \in Frame

(* SidReorder of a sid the decoder has no entry for. *)
NoState == [epoch |-> 0, next |-> 0, buf |-> <<>>]

-----------------------------------------------------------------------------
(* The encoder.                                                            *)

(* alloc_epoch: 1 .. 255 from the value the counter had. *)
AllocEpochFromZero(raw) == raw % (EPOCH_MOD - 1)
AllocEpoch(raw) == (raw % (EPOCH_MOD - 1)) + 1

(* The sid takes a new epoch: on its first frame, on every Open, and when  *)
(* its sequence numbers run out.                                           *)
NeedsEpoch(tx, ftype) == tx.epoch = 0 \/ ftype = "Open" \/ tx.seq >= SEQ_MASK

(* The epoch and sequence number next_seq_field puts in the frame. *)
SeqField(tx, raw, ftype) ==
  IF NeedsEpoch(tx, ftype) THEN [epoch |-> AllocEpoch(raw), seq |-> 0] ELSE tx

(* encode_frame followed by send or send_priority: the next frame of the   *)
(* session s on sid is numbered and queued.  UDP data sent as reliable     *)
(* frames goes to the priority queue, everything else to the reliable one. *)
Emit(sid, ftype, s) ==
  LET field == SeqField(session_tx[sid], epoch_ctr, ftype)
      msg   == [ftype |-> ftype, sid |-> sid, epoch |-> field.epoch, sseq |-> field.seq,
                gen |-> s.gen, pos |-> s.pos]
      prio  == s.udp /\ ftype = "Data"
  IN  /\ Len(relq) + Len(prioq) + Len(net) < MaxInFlight
      /\ session' = [session EXCEPT ![sid] = [s EXCEPT !.pos = @ + 1]]
      /\ session_tx' = [session_tx EXCEPT ![sid] = [field EXCEPT !.seq = @ + 1]]
      /\ epoch_ctr' = IF NeedsEpoch(session_tx[sid], ftype)
                      THEN (epoch_ctr + 1) % EPOCH_MOD ELSE epoch_ctr
      /\ prioq' = IF prio THEN Append(prioq, msg) ELSE prioq
      /\ relq' = IF prio THEN relq ELSE Append(relq, msg)
      /\ UNCHANGED <<relTurn, net, decoderVars, dups>>

-----------------------------------------------------------------------------
(* The sessions that use the encoder.  A session of the opener sends Open, *)
(* then Data, then for TCP at most one Fin, then Close; a session of the   *)
(* acceptor is the same without the Open.                                  *)

NewSession(sid, udp) ==
  [phase |-> "open", gen |-> session[sid].gen + 1, pos |-> 0, udp |-> udp]

(* The opener takes a free sid and sends Open (TunnelSession::send_open). *)
OpenSession(sid, udp) ==
  /\ ~DirAccept
  /\ session[sid].phase = "idle"
  /\ session[sid].gen < MaxGen
  /\ Emit(sid, "Open", NewSession(sid, udp))

(* The acceptor starts forwarding for a sid; nothing is sent yet. *)
AcceptSession(sid, udp) ==
  /\ DirAccept
  /\ session[sid].phase = "idle"
  /\ session[sid].gen < MaxGen
  /\ session' = [session EXCEPT ![sid] = NewSession(sid, udp)]
  /\ UNCHANGED <<session_tx, epoch_ctr, threadVars, net, decoderVars, dups>>

(* send_data_batch for TCP, send_unreliable with datagrams off for UDP. *)
SendData(sid) ==
  /\ session[sid].phase = "open"
  /\ session[sid].pos < MaxData
  /\ Emit(sid, "Data", session[sid])

(* Half close: the local socket reached end of file. *)
SendFin(sid) ==
  /\ session[sid].phase = "open"
  /\ ~session[sid].udp
  /\ Emit(sid, "Fin", [session[sid] EXCEPT !.phase = "fin"])

(* The session ends and the sid becomes free for another one. *)
SendClose(sid) ==
  /\ session[sid].phase # "idle"
  /\ Emit(sid, "Close", [session[sid] EXCEPT !.phase = "idle"])

-----------------------------------------------------------------------------
(* The send thread: run_send_loop.  It empties the priority queue, then    *)
(* takes at most one message from the reliable queue, waiting up to 5 ms   *)
(* for it, and starts over.                                                *)

SendPrio ==
  /\ ~relTurn
  /\ prioq # <<>>
  /\ net' = Append(net, Head(prioq))
  /\ prioq' = Tail(prioq)
  /\ UNCHANGED <<senderVars, relq, relTurn, decoderVars, dups>>

PrioDrained ==
  /\ ~relTurn
  /\ prioq = <<>>
  /\ relTurn' = TRUE
  /\ UNCHANGED <<senderVars, relq, prioq, net, decoderVars, dups>>

SendRel ==
  /\ relTurn
  /\ relq # <<>>
  /\ net' = Append(net, Head(relq))
  /\ relq' = Tail(relq)
  /\ relTurn' = FALSE
  /\ UNCHANGED <<senderVars, prioq, decoderVars, dups>>

RelTimeout ==
  /\ relTurn
  /\ relq = <<>>
  /\ relTurn' = FALSE
  /\ UNCHANGED <<senderVars, relq, prioq, net, decoderVars, dups>>

-----------------------------------------------------------------------------
(* The decoder: MuxDecoder::feed, one action per branch.                   *)

(* flush_ready: the first sequence number from next on that is missing. *)
FlushEnd(st) ==
  CHOOSE n \in st.next .. SEQ_MASK :
    n \notin DOMAIN st.buf /\ \A m \in st.next .. (n - 1) : m \in DOMAIN st.buf

(* The frames flush_ready releases, and the state it leaves. *)
Ready(st) == [i \in 1 .. (FlushEnd(st) - st.next) |-> st.buf[st.next + i - 1]]
FlushedWithoutAdvance(st) ==
  [epoch |-> st.epoch, next |-> st.next,
   buf |-> [n \in {m \in DOMAIN st.buf : m >= FlushEnd(st)} |-> st.buf[n]]]
Flushed(st) ==
  [epoch |-> st.epoch, next |-> FlushEnd(st),
   buf |-> [n \in {m \in DOMAIN st.buf : m >= FlushEnd(st)} |-> st.buf[n]]]

(* The frames out, then whatever they unblock, go to the dispatcher. *)
Release(sid, st, out) ==
  /\ states' = [states EXCEPT ![sid] = Flushed(st)]
  /\ got' = [got EXCEPT ![sid] = @ \o out \o Ready(st)]

(* A state that starts with frame f. *)
Baseline(f) == [epoch |-> f.epoch, next |-> f.sseq + 1, buf |-> <<>>]

(* Is epoch e later than epoch d on the u8 ring? *)
NewerAlways(e, d) == TRUE
NewerSwapped(e, d) == (d - e) % EPOCH_MOD < EPOCH_MOD \div 2
Newer(e, d) == (e - d) % EPOCH_MOD < EPOCH_MOD \div 2

(* The stashed frames that an Open of this epoch adopts, by sequence       *)
(* number; of two with the same number the later one stays.  The stash is  *)
(* never longer than REORDER_MAX, so the code's size test cannot fire.     *)
AdoptsNone(w, f, i) == FALSE
Adopts(w, f, i) == w[i].epoch = f.epoch /\ w[i].sseq > f.sseq
Adopted(w, f) ==
  [n \in {w[i].sseq : i \in {j \in DOMAIN w : Adopts(w, f, j)}} |->
     w[CHOOSE i \in DOMAIN w :
         /\ Adopts(w, f, i) /\ w[i].sseq = n
         /\ \A j \in DOMAIN w : Adopts(w, f, j) /\ w[j].sseq = n => j <= i]]

(* The size tests of the reorder buffer and of the stash. *)
RoomToBuffer(st) == Cardinality(DOMAIN st.buf) < REORDER_MAX
RoomToStashOffByOne(w) == Len(w) <= PREOPEN_MAX
RoomToStash(w) == Len(w) < PREOPEN_MAX

(* An Open rebuilds the state of its sid and adopts the frames stashed for *)
(* its epoch.                                                              *)
FeedOpen(f) ==
  /\ f.ftype = "Open"
  /\ Release(f.sid, [Baseline(f) EXCEPT !.buf = Adopted(preopen[f.sid], f)], <<f>>)
  /\ preopen' = [preopen EXCEPT ![f.sid] = <<>>]

(* Same epoch, already delivered: dropped. *)
FeedDuplicate(f) ==
  /\ f.ftype # "Open"
  /\ states[f.sid].epoch = f.epoch
  /\ f.sseq < states[f.sid].next
  /\ UNCHANGED decoderVars

(* Same epoch, the frame the session waits for. *)
FeedExpected(f) ==
  /\ f.ftype # "Open"
  /\ states[f.sid].epoch = f.epoch
  /\ f.sseq = states[f.sid].next
  /\ Release(f.sid, [states[f.sid] EXCEPT !.next = @ + 1], <<f>>)
  /\ UNCHANGED preopen

(* Same epoch, ahead of a gap: buffered, or dropped when the buffer is full. *)
FeedAhead(f) ==
  /\ f.ftype # "Open"
  /\ states[f.sid].epoch = f.epoch
  /\ f.sseq > states[f.sid].next
  /\ states' = IF RoomToBuffer(states[f.sid])
               THEN [states EXCEPT ![f.sid].buf =
                       [n \in DOMAIN @ \cup {f.sseq} |-> IF n = f.sseq THEN f ELSE @[n]]]
               ELSE states
  /\ UNCHANGED <<preopen, got>>

(* Another epoch: a newer one replaces the state, an older one is dropped. *)
FeedOtherEpoch(f) ==
  /\ f.ftype # "Open"
  /\ states[f.sid] # NoState
  /\ states[f.sid].epoch # f.epoch
  /\ IF Newer(f.epoch, states[f.sid].epoch)
     THEN Release(f.sid, Baseline(f), <<f>>)
     ELSE UNCHANGED <<states, got>>
  /\ UNCHANGED preopen

(* No state yet: the first frame of the acceptor's direction sets the      *)
(* baseline, one of the opener's direction waits for its Open.             *)
FeedNoStateDirect(f) ==
  /\ f.ftype # "Open"
  /\ states[f.sid] = NoState
  /\ Release(f.sid, Baseline(f), <<f>>)
  /\ UNCHANGED preopen
FeedNoState(f) ==
  /\ f.ftype # "Open"
  /\ states[f.sid] = NoState
  /\ IF DirAccept
     THEN Release(f.sid, Baseline(f), <<f>>) /\ UNCHANGED preopen
     ELSE /\ preopen' = IF RoomToStash(preopen[f.sid])
                        THEN [preopen EXCEPT ![f.sid] = Append(@, f)] ELSE preopen
          /\ UNCHANGED <<states, got>>

Feed(f) ==
  \/ FeedOpen(f)
  \/ FeedDuplicate(f)
  \/ FeedExpected(f)
  \/ FeedAhead(f)
  \/ FeedOtherEpoch(f)
  \/ FeedNoState(f)

-----------------------------------------------------------------------------
(* SRT.  With inorder = 1 the oldest message arrives, otherwise any one.   *)
Arrivable == IF InOrder THEN {1} \cap DOMAIN net ELSE DOMAIN net

RemoveAt(s, i) == SubSeq(s, 1, i - 1) \o SubSeq(s, i + 1, Len(s))

Receive(i) ==
  /\ Feed(net[i])
  /\ net' = RemoveAt(net, i)
  /\ UNCHANGED <<senderVars, threadVars, dups>>

(* A message that is delivered and will arrive again, the case the         *)
(* decoder's duplicate test is for.  Opens are left out: the decoder takes *)
(* a second copy of an Open for a new session.                             *)
ReceiveCopy(i) ==
  /\ dups < MaxDup
  /\ net[i].ftype # "Open"
  /\ dups' = dups + 1
  /\ Feed(net[i])
  /\ UNCHANGED <<senderVars, threadVars, net>>

-----------------------------------------------------------------------------
Init ==
  /\ session = [sid \in Sids |-> [phase |-> "idle", gen |-> 0, pos |-> 0, udp |-> FALSE]]
  /\ session_tx = [sid \in Sids |-> [epoch |-> 0, seq |-> 0]]
  /\ epoch_ctr = 0
  /\ relq = <<>>
  /\ prioq = <<>>
  /\ relTurn = FALSE
  /\ net = <<>>
  /\ states = [sid \in Sids |-> NoState]
  /\ preopen = [sid \in Sids |-> <<>>]
  /\ got = [sid \in Sids |-> <<>>]
  /\ dups = 0

SendThread == SendPrio \/ PrioDrained \/ SendRel \/ RelTimeout

Next ==
  \/ \E sid \in Sids :
       \/ \E udp \in {FALSE, UdpReliable} : OpenSession(sid, udp) \/ AcceptSession(sid, udp)
       \/ SendData(sid) \/ SendFin(sid) \/ SendClose(sid)
  \/ SendThread
  \/ \E i \in Arrivable : Receive(i) \/ ReceiveCopy(i)

Spec == Init /\ [][Next]_vars

(* The send thread and the receive path are threads that keep running; the *)
(* sessions owe nothing.                                                   *)
FairSpec == Spec /\ WF_vars(SendThread) /\ WF_vars(\E i \in Arrivable : Receive(i))

-----------------------------------------------------------------------------
(* Properties.                                                             *)

(* Every variable has its type: in particular every frame carries a        *)
(* non-zero epoch and a sequence number below SEQ_MASK, so that the two    *)
(* fit the fields next_seq_field packs them into (multiplex.rs:138).       *)
TypeOK ==
  /\ session \in [Sids -> [phase : {"idle", "open", "fin"}, gen : Nat, pos : Nat, udp : BOOLEAN]]
  /\ session_tx \in [Sids -> [epoch : 0 .. (EPOCH_MOD - 1), seq : 0 .. SEQ_MASK]]
  /\ epoch_ctr \in 0 .. (EPOCH_MOD - 1)
  /\ relq \in Seq(Frame)
  /\ prioq \in Seq(Frame)
  /\ relTurn \in BOOLEAN
  /\ net \in Seq(Frame)
  /\ states = [sid \in Sids |-> states[sid]]
  /\ \A sid \in Sids : IsSidReorder(states[sid])
  /\ preopen \in [Sids -> Seq(Frame)]
  /\ got \in [Sids -> Seq(Frame)]
  /\ dups \in Nat

(* A peer that never fills a gap or never sends an Open costs a bounded    *)
(* amount of memory (multiplex.rs:221 and 223).                            *)
MemoryBounded ==
  \A sid \in Sids :
    /\ Cardinality(DOMAIN states[sid].buf) <= REORDER_MAX
    /\ Len(preopen[sid]) <= PREOPEN_MAX

(* What feed promises whatever SRT does to the order (multiplex.rs:316):   *)
(* a delivered frame is the successor of the one before it on its sid,     *)
(* unless it starts over, as an Open or as the first of a newer epoch.     *)
Follows(f, g) ==
  \/ g.ftype = "Open"
  \/ g.epoch = f.epoch /\ g.sseq = f.sseq + 1
  \/ g.epoch # f.epoch /\ Newer(g.epoch, f.epoch)

GapFree ==
  \A sid \in Sids :
    \A i \in 1 .. (Len(got[sid]) - 1) : Follows(got[sid][i], got[sid][i + 1])

(* The opener's frames never reach the dispatcher before their session's   *)
(* Open (multiplex.rs:444): nothing is delivered on a sid before an Open.  *)
OpenFirst ==
  ~DirAccept => \A sid \in Sids : got[sid] # <<>> => got[sid][1].ftype = "Open"

(* What the decoder's state says about what it has delivered: the state    *)
(* exists once something was delivered, continues right after the last     *)
(* frame delivered, and buffers only later frames of the same epoch.       *)
StateMatchesHistory ==
  \A sid \in Sids :
    /\ states[sid].epoch = 0 => states[sid] = NoState
    /\ states[sid] = NoState <=> got[sid] = <<>>
    /\ got[sid] # <<>> => /\ got[sid][Len(got[sid])].epoch = states[sid].epoch
                          /\ got[sid][Len(got[sid])].sseq + 1 = states[sid].next
    /\ \A n \in DOMAIN states[sid].buf :
         /\ n > states[sid].next
         /\ states[sid].buf[n].sseq = n
         /\ states[sid].buf[n].epoch = states[sid].epoch

(* The inductive invariant of the decoder. *)
DecoderInv == TypeOK /\ StateMatchesHistory /\ GapFree /\ OpenFirst

(* The byte stream of every session arrives as it was sent: the frames     *)
(* delivered of a session are its first, second, third... frame, with none *)
(* missing, repeated or swapped (multiplex.rs:316 "会话内有序").           *)
SessionPrefix ==
  \A sid \in Sids : \A i \in DOMAIN got[sid] :
    got[sid][i].pos = Cardinality({j \in 1 .. (i - 1) : got[sid][j].gen = got[sid][i].gen})

(* Frames of an earlier session on a sid never follow frames of a later    *)
(* one (multiplex.rs:317 "sid 复用安全"), except by way of an Open.        *)
NoStaleGeneration ==
  \A sid \in Sids : \A i \in 1 .. (Len(got[sid]) - 1) :
    got[sid][i].gen <= got[sid][i + 1].gen \/ got[sid][i + 1].ftype = "Open"

(* Without that exception.  The code does not guarantee it: an Open always *)
(* starts over, also one that UDP data of a later session overtook on the  *)
(* priority queue (MuxReuse with this as its invariant).                  *)
GenerationsInOrder ==
  \A sid \in Sids : \A i \in 1 .. (Len(got[sid]) - 1) : got[sid][i].gen <= got[sid][i + 1].gen

Delivered(sid, g, p) == \E i \in DOMAIN got[sid] : got[sid][i].gen = g /\ got[sid][i].pos = p

(* When nothing is queued or in flight, the last frame each session sent   *)
(* has been delivered: the decoder is not sitting on it and did not drop   *)
(* it.                                                                     *)
QuietComplete ==
  (relq = <<>> /\ prioq = <<>> /\ net = <<>>) =>
    \A sid \in Sids :
      session[sid].pos > 0 => Delivered(sid, session[sid].gen, session[sid].pos - 1)

(* Every frame a session sends is delivered in the end. *)
EventuallyDelivered ==
  \A sid \in Sids, g \in 1 .. MaxGen, p \in 0 .. (MaxData + 1) :
    (session[sid].gen = g /\ session[sid].pos > p) ~> Delivered(sid, g, p)
=============================================================================
