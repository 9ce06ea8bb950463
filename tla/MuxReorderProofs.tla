-------------------------- MODULE MuxReorderProofs --------------------------
(***************************************************************************)
(* For every set of sids, every ring size, every bound and every order in  *)
(* which SRT may deliver, the decoder of MuxReorder releases the frames of *)
(* a sid without gap, repetition or swap within an epoch, never before the *)
(* Open of the sid in the opener's direction, and in bounded memory.  With *)
(* less than half a ring of epochs it never goes back to an old session,   *)
(* and with one session on every sid it delivers, in the end, exactly what *)
(* was sent.                                                               *)
(***************************************************************************)
EXTENDS MuxReorder, SequenceTheorems, FiniteSetTheorems, WellFoundedInduction, TLAPS

(* A nonempty set of naturals has a least element. *)
LEMMA LeastNat ==
  ASSUME NEW T, T \subseteq Nat, T # {}
  PROVE  \E x \in T : \A y \in T : x <= y
<1>1. PICK x \in T : \A y \in T : ~(<<y, x>> \in OpToRel(<, Nat))
  BY NatLessThanWellFounded, WFMin
<1>2. \A y \in T : <<y, x>> \in Nat \X Nat /\ (<<y, x>> \in OpToRel(<, Nat) <=> y < x)
  BY DEF OpToRel
<1>3. \A y \in T : ~(y < x)
  BY <1>1, <1>2, Zenon
<1> QED
  BY <1>3

(* A nonempty set of indices has a greatest element. *)
LEMMA LastIndex ==
  ASSUME NEW k \in Nat, NEW T, T \subseteq 1 .. k, T # {}
  PROVE  \E i \in T : \A j \in T : j <= i
<1> DEFINE U == {k - i : i \in T}
<1>0. \A i \in T : i \in 1 .. k /\ k - i \in Nat
  OBVIOUS
<1>1. U \subseteq Nat /\ U # {}
  BY <1>0, Zenon
<1>2. PICK u \in U : \A y \in U : u <= y
  BY <1>1, LeastNat
<1>3. PICK i \in T : u = k - i
  BY <1>2
<1>4. \A j \in T : k - j \in U
  OBVIOUS
<1>5. \A j \in T : u <= k - j
  BY <1>2, <1>4, Zenon
<1>6. \A j \in T : j <= i
  BY <1>3, <1>5
<1> QED
  BY <1>6
-----------------------------------------------------------------------------
(* Some number between m and k is missing from S if k is, and there is a   *)
(* first one.                                                              *)
LEMMA FirstMissing ==
  ASSUME NEW S, NEW m \in Nat, NEW k \in Nat, m <= k, k \notin S
  PROVE  \E n \in m .. k : n \notin S /\ \A j \in m .. (n - 1) : j \in S
<1> DEFINE T == {n \in m .. k : n \notin S}
<1>1. k \in T /\ T \subseteq Nat
  OBVIOUS
<1>2. PICK n \in T : \A y \in T : n <= y
  BY <1>1, LeastNat
<1>3. \A j \in m .. (n - 1) : j \in m .. k /\ j < n
  BY <1>2
<1> QED
  BY <1>2, <1>3

-----------------------------------------------------------------------------
(* flush_ready.                                                            *)

(* FlushEnd is the first missing sequence number from next on. *)
LEMMA FlushEndIsFirstMissing ==
  ASSUME NEW st, IsSidReorder(st)
  PROVE  /\ FlushEnd(st) \in st.next .. SEQ_MASK
         /\ FlushEnd(st) \notin DOMAIN st.buf
         /\ \A m \in st.next .. (FlushEnd(st) - 1) : m \in DOMAIN st.buf
<1>1. /\ st.next \in Nat /\ SEQ_MASK \in Nat /\ st.next <= SEQ_MASK
      /\ SEQ_MASK \notin DOMAIN st.buf
  BY MuxAssumption DEF IsSidReorder, Seqs
<1>2. \E n \in st.next .. SEQ_MASK :
        n \notin DOMAIN st.buf /\ \A m \in st.next .. (n - 1) : m \in DOMAIN st.buf
  BY <1>1, FirstMissing
<1> QED
  BY <1>2 DEF FlushEnd

(* What Release needs of the frame f it delivers and of the state st it    *)
(* flushes: st continues right after f, and buffers only later frames of   *)
(* the epoch of f.                                                         *)
Continues(st, f) ==
  /\ IsSidReorder(st)
  /\ st.epoch = f.epoch
  /\ st.next = f.sseq + 1
  /\ \A n \in DOMAIN st.buf :
       n > f.sseq /\ st.buf[n].sseq = n /\ st.buf[n].epoch = f.epoch

(* The state flush_ready leaves. *)
LEMMA FlushedIsState ==
  ASSUME NEW f \in Frame, NEW st, Continues(st, f)
  PROVE  /\ IsSidReorder(Flushed(st))
         /\ Flushed(st).epoch = f.epoch
         /\ Flushed(st).next = FlushEnd(st)
         /\ FlushEnd(st) \in Nat
         /\ \A n \in DOMAIN Flushed(st).buf :
              /\ n > FlushEnd(st)
              /\ Flushed(st).buf[n].sseq = n
              /\ Flushed(st).buf[n].epoch = f.epoch
<1>1. /\ FlushEnd(st) \in st.next .. SEQ_MASK
      /\ FlushEnd(st) \notin DOMAIN st.buf
  BY FlushEndIsFirstMissing DEF Continues
<1>2. IsSidReorder(st)
  BY DEF Continues
<1>3. SEQ_MASK \in Nat /\ f.sseq \in Nat /\ st.next \in Nat /\ FlushEnd(st) \in Nat
  BY <1>1, <1>2, MuxAssumption DEF Frame, Seqs, IsSidReorder
<1> DEFINE B == [n \in {m \in DOMAIN st.buf : m >= FlushEnd(st)} |-> st.buf[n]]
<1>4. Flushed(st) = [epoch |-> st.epoch, next |-> FlushEnd(st), buf |-> B]
  BY DEF Flushed
<1>5. /\ Flushed(st).epoch = st.epoch
      /\ Flushed(st).next = FlushEnd(st)
      /\ Flushed(st).buf = B
  BY <1>4
<1>6. /\ DOMAIN B \subseteq DOMAIN st.buf
      /\ \A n \in DOMAIN B : n >= FlushEnd(st) /\ n # FlushEnd(st) /\ B[n] = st.buf[n]
  BY <1>1
<1>7. DOMAIN st.buf \subseteq Nat
  BY <1>2 DEF IsSidReorder, Seqs
<1>8. IsSidReorder(Flushed(st))
  <2>1. Flushed(st) = [epoch |-> Flushed(st).epoch, next |-> Flushed(st).next,
                       buf |-> [n \in DOMAIN Flushed(st).buf |-> Flushed(st).buf[n]]]
    <3>1. B = [n \in DOMAIN B |-> B[n]]
      OBVIOUS
    <3> QED
      BY <1>4, <1>5, <3>1
  <2>2. st.epoch \in 0 .. (EPOCH_MOD - 1) /\ FlushEnd(st) \in 0 .. SEQ_MASK
    BY <1>1, <1>2, <1>3 DEF IsSidReorder
  <2>3. DOMAIN B \subseteq Seqs /\ \A n \in DOMAIN B : B[n] \in Frame
    BY <1>2, <1>6 DEF IsSidReorder
  <2> HIDE DEF B
  <2> QED
    BY <1>5, <2>1, <2>2, <2>3 DEF IsSidReorder
<1> HIDE DEF B
<1>9. \A n \in DOMAIN B : n > FlushEnd(st) /\ B[n].sseq = n /\ B[n].epoch = f.epoch
  BY <1>3, <1>6, <1>7 DEF Continues
<1>10. st.epoch = f.epoch
  BY DEF Continues
<1> QED
  BY <1>3, <1>5, <1>8, <1>9, <1>10

(* The frames delivered: f and then the consecutive frames flush_ready     *)
(* found behind it.                                                        *)
Batch(st, f) == <<f>> \o Ready(st)

(* What a release delivers is consecutive, and the state continues after  *)
(* its last frame.                                                         *)
LEMMA BatchIsConsecutive ==
  ASSUME NEW f \in Frame, NEW st, Continues(st, f)
  PROVE  /\ Batch(st, f) \in Seq(Frame)
         /\ Len(Batch(st, f)) = FlushEnd(st) - f.sseq
         /\ Len(Batch(st, f)) >= 1
         /\ Batch(st, f)[1] = f
         /\ \A i \in 1 .. Len(Batch(st, f)) :
              Batch(st, f)[i].epoch = f.epoch /\ Batch(st, f)[i].sseq = f.sseq + i - 1
<1>1. /\ FlushEnd(st) \in st.next .. SEQ_MASK
      /\ \A m \in st.next .. (FlushEnd(st) - 1) : m \in DOMAIN st.buf
  BY FlushEndIsFirstMissing DEF Continues
<1>2. /\ f.sseq \in Nat /\ st.next = f.sseq + 1 /\ SEQ_MASK \in Nat
      /\ \A n \in DOMAIN st.buf : st.buf[n] \in Frame /\ st.buf[n].sseq = n /\ st.buf[n].epoch = f.epoch
  BY MuxAssumption DEF Continues, IsSidReorder, Frame, Seqs
<1> DEFINE k == FlushEnd(st) - st.next
<1>3. k \in Nat
  BY <1>1, <1>2
<1>4. \A i \in 1 .. k : st.next + i - 1 \in DOMAIN st.buf
  BY <1>1, <1>2
<1>5. \A i \in 1 .. k : /\ Ready(st)[i] = st.buf[st.next + i - 1]
                        /\ Ready(st)[i] \in Frame
  BY <1>2, <1>4 DEF Ready
<1>6. Ready(st) \in Seq(Frame) /\ Len(Ready(st)) = k
  <2>1. Ready(st) \in [1 .. k -> Frame]
    BY <1>4, <1>2 DEF Ready
  <2> QED
    BY <1>3, <2>1
<1>7. <<f>> \in Seq(Frame) /\ Len(<<f>>) = 1 /\ <<f>>[1] = f
  OBVIOUS
<1>8. /\ Batch(st, f) \in Seq(Frame)
      /\ Len(Batch(st, f)) = 1 + k
      /\ \A i \in 1 .. (1 + k) :
           Batch(st, f)[i] = IF i <= 1 THEN <<f>>[i] ELSE Ready(st)[i - 1]
  BY <1>6, <1>7, ConcatProperties DEF Batch
<1>9. ASSUME NEW i \in 1 .. (1 + k)
      PROVE  Batch(st, f)[i].epoch = f.epoch /\ Batch(st, f)[i].sseq = f.sseq + i - 1
  <2>1. CASE i = 1
    BY <2>1, <1>2, <1>3, <1>7, <1>8
  <2>2. CASE i # 1
    <3>1. i - 1 \in 1 .. k
      BY <2>2, <1>3
    <3>2. Batch(st, f)[i] = st.buf[st.next + (i - 1) - 1]
      BY <2>2, <1>3, <1>5, <1>8, <3>1
    <3>3. st.next + (i - 1) - 1 \in DOMAIN st.buf /\ st.next + (i - 1) - 1 = f.sseq + i - 1
      BY <1>2, <1>3, <1>4, <3>1
    <3> QED
      BY <1>2, <3>2, <3>3
  <2> QED
    BY <2>1, <2>2
<1>10. 1 + k = FlushEnd(st) - f.sseq /\ 1 + k >= 1 /\ 1 \in 1 .. (1 + k)
  BY <1>1, <1>2, <1>3
<1>11. Batch(st, f)[1] = f
  BY <1>7, <1>8, <1>10
<1> HIDE DEF k
<1> QED
  BY <1>8, <1>9, <1>10, <1>11

-----------------------------------------------------------------------------
(* The decoder's steps.                                                    *)

(* The part of the invariant the decoder's tables are responsible for. *)
DecoderTables ==
  /\ states = [sid \in Sids |-> states[sid]]
  /\ \A sid \in Sids : IsSidReorder(states[sid])
  /\ preopen \in [Sids -> Seq(Frame)]
  /\ got \in [Sids -> Seq(Frame)]
  /\ StateMatchesHistory
  /\ GapFree
  /\ OpenFirst

(* The part the sessions, the encoder, the queues and SRT answer for. *)
SessionType == [phase : {"idle", "open", "fin"}, gen : Nat, pos : Nat, udp : BOOLEAN]
SenderTypes ==
  /\ session \in [Sids -> SessionType]
  /\ session_tx \in [Sids -> [epoch : 0 .. (EPOCH_MOD - 1), seq : 0 .. SEQ_MASK]]
  /\ epoch_ctr \in 0 .. (EPOCH_MOD - 1)
  /\ relq \in Seq(Frame)
  /\ prioq \in Seq(Frame)
  /\ relTurn \in BOOLEAN
  /\ net \in Seq(Frame)
  /\ dups \in Nat

(* The invariant is a part about the sender and one about the decoder. *)
LEMMA InvSplits == DecoderInv <=> SenderTypes /\ DecoderTables
  BY DEF DecoderInv, TypeOK, DecoderTables, SenderTypes, SessionType

(* The fields of a frame have their types. *)
LEMMA FrameFields ==
  ASSUME NEW f \in Frame
  PROVE  /\ f.sid \in Sids /\ f.ftype \in FrameType
         /\ f.epoch \in Nat /\ f.epoch # 0 /\ f.epoch \in 0 .. (EPOCH_MOD - 1)
         /\ f.sseq \in Nat /\ f.sseq \in Seqs /\ f.sseq + 1 \in 0 .. SEQ_MASK
  BY MuxAssumption DEF Frame, Seqs, Epochs

(* What FeedExpected flushes continues right after the frame it delivers. *)
LEMMA NextMoves ==
  ASSUME NEW st, IsSidReorder(st), NEW f \in Frame, st.epoch = f.epoch, f.sseq = st.next,
         \A n \in DOMAIN st.buf : n > st.next /\ st.buf[n].sseq = n /\ st.buf[n].epoch = st.epoch,
         NEW o, o = [st EXCEPT !.next = @ + 1]
  PROVE  o.buf = st.buf /\ Continues(o, f)
<1>1. o = [epoch |-> st.epoch, next |-> st.next + 1, buf |-> st.buf]
  BY DEF IsSidReorder
<1>2. o.epoch = st.epoch /\ o.next = st.next + 1 /\ o.buf = st.buf
  BY <1>1
<1>3. o.next \in 0 .. SEQ_MASK
  BY <1>2, FrameFields
<1>4. st.buf = [n \in DOMAIN st.buf |-> st.buf[n]]
  BY DEF IsSidReorder
<1>5. o = [epoch |-> o.epoch, next |-> o.next, buf |-> [n \in DOMAIN o.buf |-> o.buf[n]]]
  BY <1>1, <1>2, <1>4
<1>6. /\ st.epoch \in 0 .. (EPOCH_MOD - 1) /\ DOMAIN st.buf \subseteq Seqs
      /\ \A n \in DOMAIN st.buf : st.buf[n] \in Frame
  BY DEF IsSidReorder
<1>7. IsSidReorder(o)
  BY <1>2, <1>3, <1>5, <1>6 DEF IsSidReorder
<1> QED
  BY <1>2, <1>7 DEF Continues

(* Release appends the batch to what was delivered. *)
LEMMA BatchAppended ==
  ASSUME NEW f \in Frame, NEW st, Continues(st, f), NEW old \in Seq(Frame)
  PROVE  (old \o <<f>>) \o Ready(st) = old \o Batch(st, f)
<1>1. Ready(st) \in Seq(Frame)
  <2>1. /\ \A m \in st.next .. (FlushEnd(st) - 1) : m \in DOMAIN st.buf
        /\ FlushEnd(st) \in st.next .. SEQ_MASK
    BY FlushEndIsFirstMissing DEF Continues
  <2>2. /\ st.next \in Nat /\ FlushEnd(st) \in Nat /\ FlushEnd(st) - st.next \in Nat
        /\ \A n \in DOMAIN st.buf : st.buf[n] \in Frame
    BY <2>1, FlushedIsState DEF Continues, IsSidReorder
  <2>3. ASSUME NEW i \in 1 .. (FlushEnd(st) - st.next)
        PROVE  st.buf[st.next + i - 1] \in Frame
    <3>1. st.next + i - 1 \in st.next .. (FlushEnd(st) - 1)
      BY <2>2
    <3> QED
      BY <2>1, <2>2, <3>1
  <2>4. Ready(st) \in [1 .. (FlushEnd(st) - st.next) -> Frame]
    BY <2>3 DEF Ready
  <2> QED
    BY <2>2, <2>4
<1>2. <<f>> \in Seq(Frame)
  OBVIOUS
<1>3. \A s, t, u \in Seq(Frame) : (s \o t) \o u = s \o (t \o u)
  BY ConcatAssociative
<1>4. (old \o <<f>>) \o Ready(st) = old \o (<<f>> \o Ready(st))
  BY <1>1, <1>2, <1>3, Zenon
<1> QED
  BY <1>4, Zenon DEF Batch

(* Delivering f and what it unblocks keeps the tables in order, provided f *)
(* may follow what its sid delivered last.                                 *)
LEMMA ReleaseKeepsTables ==
  ASSUME DecoderTables,
         NEW f \in Frame, NEW st, Continues(st, f),
         Release(f.sid, st, <<f>>),
         preopen' \in [Sids -> Seq(Frame)],
         got[f.sid] # <<>> => Follows(got[f.sid][Len(got[f.sid])], f),
         ~DirAccept /\ got[f.sid] = <<>> => f.ftype = "Open"
  PROVE  DecoderTables'
<1> DEFINE sid == f.sid
           old == got[sid]
           new == old \o Batch(st, f)
           b   == Batch(st, f)
<1>1. sid \in Sids /\ old \in Seq(Frame) /\ f.sseq \in Nat /\ f.epoch # 0
  BY FrameFields DEF DecoderTables
<1>2. /\ b \in Seq(Frame)
      /\ Len(b) = FlushEnd(st) - f.sseq
      /\ Len(b) >= 1
      /\ b[1] = f
      /\ \A i \in 1 .. Len(b) : b[i].epoch = f.epoch /\ b[i].sseq = f.sseq + i - 1
  BY BatchIsConsecutive
<1>3. /\ IsSidReorder(Flushed(st))
      /\ Flushed(st).epoch = f.epoch
      /\ Flushed(st).next = FlushEnd(st)
      /\ FlushEnd(st) \in Nat
      /\ \A n \in DOMAIN Flushed(st).buf :
           /\ n > FlushEnd(st)
           /\ Flushed(st).buf[n].sseq = n
           /\ Flushed(st).buf[n].epoch = f.epoch
  BY FlushedIsState
<1>4. (old \o <<f>>) \o Ready(st) = new
  BY <1>1, BatchAppended
<1>5. /\ new \in Seq(Frame)
      /\ Len(new) = Len(old) + Len(b)
      /\ \A i \in 1 .. (Len(old) + Len(b)) :
           new[i] = IF i <= Len(old) THEN old[i] ELSE b[i - Len(old)]
  BY <1>1, <1>2, ConcatProperties, ZenonT(30)
<1>6. /\ states' = [states EXCEPT ![sid] = Flushed(st)]
      /\ got' = [got EXCEPT ![sid] = new]
  BY <1>4 DEF Release
<1> HIDE DEF new, b, old
<1>7. Len(old) \in Nat /\ Len(b) \in Nat \ {0} /\ new # <<>>
  BY <1>1, <1>2, <1>5
<1>8. /\ states' = [s \in Sids |-> states'[s]]
      /\ states'[sid] = Flushed(st)
      /\ got'[sid] = new
      /\ got' \in [Sids -> Seq(Frame)]
      /\ \A s \in Sids : s # sid => states'[s] = states[s] /\ got'[s] = got[s]
  BY <1>1, <1>5, <1>6 DEF DecoderTables
<1>9. \A s \in Sids : IsSidReorder(states'[s])
  BY <1>3, <1>8 DEF DecoderTables
<1>10. /\ new[Len(new)].epoch = f.epoch
       /\ new[Len(new)].sseq + 1 = FlushEnd(st)
  <2>1. new[Len(new)] = b[Len(b)]
    BY <1>5, <1>7
  <2>2. b[Len(b)].epoch = f.epoch /\ b[Len(b)].sseq = f.sseq + Len(b) - 1
    BY <1>2, <1>7
  <2> QED
    BY <1>1, <1>2, <1>3, <2>1, <2>2
<1>11. ASSUME NEW i \in 1 .. (Len(new) - 1)
       PROVE  Follows(new[i], new[i + 1])
  <2>1. CASE i < Len(old)
    <3>1. new[i] = old[i] /\ new[i + 1] = old[i + 1] /\ i \in 1 .. (Len(old) - 1)
      BY <2>1, <1>5, <1>7
    <3>2. \A j \in 1 .. (Len(old) - 1) : Follows(old[j], old[j + 1])
      BY <1>1 DEF DecoderTables, GapFree, old
    <3> QED
      BY <3>1, <3>2
  <2>2. CASE i = Len(old)
    <3>1. /\ i \in 1 .. (Len(old) + Len(b)) /\ i + 1 \in 1 .. (Len(old) + Len(b))
          /\ (i + 1) - Len(old) = 1 /\ ~(i + 1 <= Len(old)) /\ i <= Len(old)
      BY <2>2, <1>5, <1>7
    <3>2. new[i] = old[Len(old)] /\ new[i + 1] = f
      BY <2>2, <3>1, <1>2, <1>5
    <3>3. old # <<>>
      BY <2>2, <1>7
    <3> QED
      BY <3>2, <3>3 DEF old
  <2>3. CASE i > Len(old)
    <3> DEFINE j == i - Len(old)
    <3>1. j \in 1 .. Len(b) /\ j + 1 \in 1 .. Len(b)
      BY <2>3, <1>5, <1>7
    <3>2. new[i] = b[j] /\ new[i + 1] = b[j + 1]
      BY <2>3, <1>5, <1>7
    <3> HIDE DEF j
    <3>3. /\ b[j].epoch = f.epoch /\ b[j].sseq = f.sseq + j - 1
          /\ b[j + 1].epoch = f.epoch /\ b[j + 1].sseq = f.sseq + (j + 1) - 1
      BY <3>1, <1>2
    <3>4. b[j + 1].epoch = b[j].epoch /\ b[j + 1].sseq = b[j].sseq + 1
      BY <3>1, <3>3, <1>1, <1>7
    <3> QED
      BY <3>2, <3>4 DEF Follows
  <2> QED
    BY <2>1, <2>2, <2>3, <1>7
<1>12. ~DirAccept => new[1].ftype = "Open"
  <2>1. CASE old = <<>>
    <3>1. new[1] = f
      BY <2>1, <1>2, <1>5, <1>7
    <3> QED
      BY <2>1, <3>1 DEF old
  <2>2. CASE old # <<>>
    <3>1. new[1] = old[1]
      BY <2>2, <1>1, <1>5, <1>7
    <3>2. ~DirAccept => old[1].ftype = "Open"
      BY <2>2, <1>1 DEF DecoderTables, OpenFirst, old
    <3> QED
      BY <3>1, <3>2
  <2> QED
    BY <2>1, <2>2
<1>13. StateMatchesHistory'
  <2>1. Flushed(st).epoch # 0 /\ Flushed(st) # NoState
    BY <1>1, <1>3 DEF NoState
  <2> SUFFICES ASSUME NEW s \in Sids
               PROVE  /\ states'[s].epoch = 0 => states'[s] = NoState
                      /\ states'[s] = NoState <=> got'[s] = <<>>
                      /\ got'[s] # <<>> => /\ got'[s][Len(got'[s])].epoch = states'[s].epoch
                                           /\ got'[s][Len(got'[s])].sseq + 1 = states'[s].next
                      /\ \A n \in DOMAIN states'[s].buf :
                           /\ n > states'[s].next
                           /\ states'[s].buf[n].sseq = n
                           /\ states'[s].buf[n].epoch = states'[s].epoch
    BY DEF StateMatchesHistory
  <2>2. CASE s = sid
    BY <2>1, <2>2, <1>3, <1>7, <1>8, <1>10
  <2>3. CASE s # sid
    BY <2>3, <1>8 DEF DecoderTables, StateMatchesHistory
  <2> QED
    BY <2>2, <2>3
<1>14. GapFree'
  BY <1>8, <1>11 DEF DecoderTables, GapFree
<1>15. OpenFirst'
  BY <1>8, <1>12 DEF DecoderTables, OpenFirst
<1> QED
  BY <1>8, <1>9, <1>13, <1>14, <1>15 DEF DecoderTables

(* A fresh baseline continues right after its frame. *)
LEMMA BaselineContinues ==
  ASSUME NEW f \in Frame
  PROVE  Continues(Baseline(f), f)
<1>1. /\ Baseline(f) = [epoch |-> f.epoch, next |-> f.sseq + 1, buf |-> <<>>]
      /\ Baseline(f).epoch = f.epoch /\ Baseline(f).next = f.sseq + 1 /\ Baseline(f).buf = <<>>
  BY DEF Baseline
<1>2. DOMAIN <<>> = {} /\ <<>> = [n \in DOMAIN <<>> |-> <<>>[n]]
  OBVIOUS
<1>3. IsSidReorder(Baseline(f))
  BY <1>1, <1>2, FrameFields DEF IsSidReorder
<1> QED
  BY <1>1, <1>2, <1>3 DEF Continues

(* The frames an Open adopts from the stash are later frames of its epoch. *)
LEMMA AdoptedIsLater ==
  ASSUME NEW w \in Seq(Frame), NEW f \in Frame
  PROVE  /\ Adopted(w, f) = [n \in DOMAIN Adopted(w, f) |-> Adopted(w, f)[n]]
         /\ DOMAIN Adopted(w, f) \subseteq Seqs
         /\ \A n \in DOMAIN Adopted(w, f) :
              /\ n > f.sseq
              /\ Adopted(w, f)[n] \in Frame
              /\ Adopted(w, f)[n].sseq = n
              /\ Adopted(w, f)[n].epoch = f.epoch
<1> DEFINE D == {w[i].sseq : i \in {j \in DOMAIN w : Adopts(w, f, j)}}
           Last(n) == CHOOSE i \in DOMAIN w :
                        /\ Adopts(w, f, i) /\ w[i].sseq = n
                        /\ \A j \in DOMAIN w : Adopts(w, f, j) /\ w[j].sseq = n => j <= i
<1>1. Adopted(w, f) = [n \in D |-> w[Last(n)]]
  BY DEF Adopted
<1>2. DOMAIN w = 1 .. Len(w) /\ Len(w) \in Nat /\ \A i \in DOMAIN w : w[i] \in Frame
  BY LenProperties, ElementOfSeq
<1>3. ASSUME NEW n \in D
      PROVE  Last(n) \in DOMAIN w /\ Adopts(w, f, Last(n)) /\ w[Last(n)].sseq = n
  <2> DEFINE T == {i \in DOMAIN w : Adopts(w, f, i) /\ w[i].sseq = n}
  <2>1. T \subseteq 1 .. Len(w) /\ T # {}
    BY <1>2
  <2>2. \E i \in T : \A j \in T : j <= i
    BY <2>1, <1>2, LastIndex
  <2>3. \E i \in DOMAIN w :
          /\ Adopts(w, f, i) /\ w[i].sseq = n
          /\ \A j \in DOMAIN w : Adopts(w, f, j) /\ w[j].sseq = n => j <= i
    BY <2>2
  <2> QED
    BY <2>3
<1> HIDE DEF Last, D
<1>4. DOMAIN Adopted(w, f) = D /\ \A n \in D : Adopted(w, f)[n] = w[Last(n)]
  BY <1>1
<1>5. \A n \in D : w[Last(n)] \in Frame /\ w[Last(n)].epoch = f.epoch /\ n > f.sseq /\ n \in Seqs
  BY <1>2, <1>3, FrameFields DEF Adopts
<1>6. Adopted(w, f) = [n \in DOMAIN Adopted(w, f) |-> Adopted(w, f)[n]]
  BY <1>1
<1> QED
  BY <1>3, <1>4, <1>5, <1>6

(* Every branch of feed keeps the tables in order. *)
LEMMA FeedKeepsTables ==
  ASSUME DecoderTables, NEW f \in Frame, Feed(f)
  PROVE  DecoderTables'
<1> DEFINE sid == f.sid
           st  == states[sid]
<1>1. /\ sid \in Sids /\ IsSidReorder(st)
      /\ got[sid] \in Seq(Frame) /\ preopen[sid] \in Seq(Frame)
      /\ f.sseq \in Nat /\ f.sseq \in Seqs /\ f.epoch # 0
  BY FrameFields DEF DecoderTables
<1>2. /\ st.epoch = 0 => st = NoState
      /\ st = NoState <=> got[sid] = <<>>
      /\ got[sid] # <<>> => /\ got[sid][Len(got[sid])].epoch = st.epoch
                            /\ got[sid][Len(got[sid])].sseq + 1 = st.next
      /\ \A n \in DOMAIN st.buf : n > st.next /\ st.buf[n].sseq = n /\ st.buf[n].epoch = st.epoch
  BY <1>1 DEF DecoderTables, StateMatchesHistory
<1>3. preopen \in [Sids -> Seq(Frame)]
  BY DEF DecoderTables
<1>4. CASE UNCHANGED decoderVars
  BY <1>4 DEF decoderVars, DecoderTables, StateMatchesHistory, GapFree, OpenFirst
<1>5. CASE FeedOpen(f)
  <2> DEFINE o == [Baseline(f) EXCEPT !.buf = Adopted(preopen[sid], f)]
  <2>1. o = [epoch |-> f.epoch, next |-> f.sseq + 1, buf |-> Adopted(preopen[sid], f)]
    BY DEF Baseline
  <2>2. o.epoch = f.epoch /\ o.next = f.sseq + 1 /\ o.buf = Adopted(preopen[sid], f)
    BY <2>1
  <2>3. IsSidReorder(o)
    BY <1>1, <2>1, <2>2, AdoptedIsLater, FrameFields DEF IsSidReorder
  <2>4. Continues(o, f)
    BY <1>1, <2>2, <2>3, AdoptedIsLater DEF Continues
  <2>5. /\ Release(sid, o, <<f>>) /\ f.ftype = "Open"
        /\ preopen' = [preopen EXCEPT ![sid] = <<>>]
    BY <1>5 DEF FeedOpen
  <2>6. preopen' \in [Sids -> Seq(Frame)]
    <3>1. <<>> \in Seq(Frame)
      BY EmptySeq
    <3>2. preopen' = [preopen EXCEPT ![sid] = <<>>]
      BY <2>5
    <3> HIDE DEF o, sid
    <3> QED
      BY <1>3, <3>1, <3>2
  <2>7. Follows(got[sid][Len(got[sid])], f)
    BY <2>5 DEF Follows
  <2> HIDE DEF o
  <2> QED
    BY <2>4, <2>5, <2>6, <2>7, ReleaseKeepsTables
<1>6. CASE FeedDuplicate(f)
  BY <1>4, <1>6 DEF FeedDuplicate
<1>7. CASE FeedExpected(f)
  <2> DEFINE o == [st EXCEPT !.next = @ + 1]
  <2>1. /\ Release(sid, o, <<f>>) /\ f.ftype # "Open" /\ preopen' = preopen
        /\ st.epoch = f.epoch /\ f.sseq = st.next
    BY <1>7 DEF FeedExpected
  <2>2. o = [epoch |-> st.epoch, next |-> st.next + 1, buf |-> st.buf]
    BY <1>1 DEF IsSidReorder
  <2>3. o.epoch = f.epoch /\ o.next = f.sseq + 1 /\ o.buf = st.buf
    BY <2>1, <2>2
  <2>4. IsSidReorder(o)
    BY <1>1, <2>1, <2>2, <2>3, FrameFields DEF IsSidReorder
  <2>5. Continues(o, f)
    BY <1>2, <2>1, <2>3, <2>4 DEF Continues
  <2>6. st # NoState
    BY <1>1, <2>1 DEF NoState
  <2>7. got[sid] # <<>> /\ Follows(got[sid][Len(got[sid])], f)
    <3>1. got[sid] # <<>>
      BY <1>2, <2>6
    <3>2. got[sid][Len(got[sid])].epoch = f.epoch /\ got[sid][Len(got[sid])].sseq + 1 = f.sseq
      BY <1>2, <2>1, <3>1
    <3> QED
      BY <3>1, <3>2 DEF Follows
  <2> HIDE DEF o
  <2> QED
    BY <1>3, <2>1, <2>5, <2>7, ReleaseKeepsTables
<1>8. CASE FeedAhead(f)
  <2>1. /\ st.epoch = f.epoch /\ f.sseq > st.next
        /\ preopen' = preopen /\ got' = got
    BY <1>8 DEF FeedAhead
  <2>2. CASE ~RoomToBuffer(st)
    BY <1>4, <1>8, <2>2 DEF FeedAhead, decoderVars
  <2>3. CASE RoomToBuffer(st)
    <3> DEFINE B == [n \in DOMAIN st.buf \cup {f.sseq} |-> IF n = f.sseq THEN f ELSE st.buf[n]]
               o == [epoch |-> st.epoch, next |-> st.next, buf |-> B]
    <3>1. states' = [states EXCEPT ![sid].buf = B]
      BY <1>8, <2>3 DEF FeedAhead
    <3>2. [st EXCEPT !.buf = B] = o
      BY <1>1 DEF IsSidReorder
    <3>3. states' = [states EXCEPT ![sid] = o]
      BY <3>1, <3>2
    <3>4. /\ DOMAIN B = DOMAIN st.buf \cup {f.sseq}
          /\ B = [n \in DOMAIN B |-> B[n]]
          /\ \A n \in DOMAIN B : B[n] = IF n = f.sseq THEN f ELSE st.buf[n]
      OBVIOUS
    <3> HIDE DEF B
    <3>5. IsSidReorder(o)
      BY <1>1, <3>4 DEF IsSidReorder
    <3>6. o.epoch = st.epoch /\ o.next = st.next /\ o.buf = B
      OBVIOUS
    <3> HIDE DEF o
    <3>7. /\ states' = [s \in Sids |-> states'[s]]
          /\ states'[sid] = o
          /\ \A s \in Sids : s # sid => states'[s] = states[s]
      BY <1>1, <3>3 DEF DecoderTables
    <3>8. \A s \in Sids : IsSidReorder(states'[s])
      BY <3>5, <3>7 DEF DecoderTables
    <3>9. st # NoState /\ o # NoState
      BY <1>1, <2>1, <3>6 DEF NoState
    <3>10. \A n \in DOMAIN B : n > st.next /\ B[n].sseq = n /\ B[n].epoch = st.epoch
      BY <1>2, <2>1, <3>4
    <3>11. StateMatchesHistory'
      <4> SUFFICES ASSUME NEW s \in Sids
                   PROVE  /\ states'[s].epoch = 0 => states'[s] = NoState
                          /\ states'[s] = NoState <=> got'[s] = <<>>
                          /\ got'[s] # <<>> => /\ got'[s][Len(got'[s])].epoch = states'[s].epoch
                                               /\ got'[s][Len(got'[s])].sseq + 1 = states'[s].next
                          /\ \A n \in DOMAIN states'[s].buf :
                               /\ n > states'[s].next
                               /\ states'[s].buf[n].sseq = n
                               /\ states'[s].buf[n].epoch = states'[s].epoch
        BY DEF StateMatchesHistory
      <4>1. CASE s = sid
        BY <4>1, <1>1, <1>2, <2>1, <3>6, <3>7, <3>9, <3>10
      <4>2. CASE s # sid
        BY <4>2, <2>1, <3>7 DEF DecoderTables, StateMatchesHistory
      <4> QED
        BY <4>1, <4>2
    <3>12. GapFree' /\ OpenFirst'
      BY <2>1 DEF DecoderTables, GapFree, OpenFirst
    <3> QED
      BY <2>1, <3>7, <3>8, <3>11, <3>12 DEF DecoderTables
  <2> QED
    BY <2>2, <2>3
<1>9. CASE FeedOtherEpoch(f)
  <2>1. CASE ~Newer(f.epoch, st.epoch)
    BY <1>4, <1>9, <2>1 DEF FeedOtherEpoch, decoderVars
  <2>2. CASE Newer(f.epoch, st.epoch)
    <3>1. /\ Release(sid, Baseline(f), <<f>>) /\ preopen' = preopen
          /\ st # NoState /\ st.epoch # f.epoch
      BY <1>9, <2>2 DEF FeedOtherEpoch
    <3>2. got[sid] # <<>> /\ Follows(got[sid][Len(got[sid])], f)
      BY <1>2, <2>2, <3>1 DEF Follows
    <3> QED
      BY <1>3, <3>1, <3>2, BaselineContinues, ReleaseKeepsTables
  <2> QED
    BY <2>1, <2>2
<1>10. CASE FeedNoState(f)
  <2>1. got[sid] = <<>>
    BY <1>2, <1>10 DEF FeedNoState
  <2>2. CASE DirAccept
    <3>1. Release(sid, Baseline(f), <<f>>) /\ preopen' = preopen
      BY <1>10, <2>2 DEF FeedNoState
    <3> QED
      BY <1>3, <2>1, <2>2, <3>1, BaselineContinues, ReleaseKeepsTables
  <2>3. CASE ~DirAccept
    <3>1. states' = states /\ got' = got
      BY <1>10, <2>3 DEF FeedNoState
    <3>2. preopen' \in [Sids -> Seq(Frame)]
      <4>1. Append(preopen[sid], f) \in Seq(Frame)
        BY <1>1
      <4> QED
        BY <1>3, <1>10, <2>3, <4>1 DEF FeedNoState
    <3> QED
      BY <3>1, <3>2 DEF DecoderTables, StateMatchesHistory, GapFree, OpenFirst
  <2> QED
    BY <2>2, <2>3
<1> QED
  BY <1>5, <1>6, <1>7, <1>8, <1>9, <1>10 DEF Feed

-----------------------------------------------------------------------------
(* The sending side.                                                       *)

(* Remainders stay in their range. *)
LEMMA ModRange ==
  ASSUME NEW a \in Nat, NEW m \in Nat \ {0}
  PROVE  a % m \in 0 .. (m - 1)
  OBVIOUS

(* The encoder numbers every session frame with a non-zero epoch and a     *)
(* sequence number that fits.                                              *)
LEMMA SeqFieldFits ==
  ASSUME SenderTypes, NEW sid \in Sids, NEW ftype
  PROVE  LET fld == SeqField(session_tx[sid], epoch_ctr, ftype)
         IN  /\ fld = [epoch |-> fld.epoch, seq |-> fld.seq]
             /\ fld.epoch \in Epochs
             /\ fld.seq \in Seqs
<1>1. /\ session_tx[sid] \in [epoch : 0 .. (EPOCH_MOD - 1), seq : 0 .. SEQ_MASK]
      /\ epoch_ctr \in Nat /\ EPOCH_MOD \in Nat /\ EPOCH_MOD > 2 /\ SEQ_MASK \in Nat \ {0}
  BY MuxAssumption DEF SenderTypes
<1>2. AllocEpoch(epoch_ctr) \in Epochs
  <2>1. EPOCH_MOD - 1 \in Nat \ {0}
    BY <1>1
  <2>2. epoch_ctr % (EPOCH_MOD - 1) \in 0 .. ((EPOCH_MOD - 1) - 1)
    BY <1>1, <2>1, ModRange
  <2> QED
    BY <1>1, <2>2 DEF AllocEpoch, Epochs
<1>3. CASE NeedsEpoch(session_tx[sid], ftype)
  BY <1>1, <1>2, <1>3 DEF SeqField, Seqs
<1>4. CASE ~NeedsEpoch(session_tx[sid], ftype)
  BY <1>1, <1>4 DEF SeqField, NeedsEpoch, Seqs, Epochs
<1> QED
  BY <1>3, <1>4

(* Queueing the next frame of a session keeps the types. *)
LEMMA EmitKeepsTypes ==
  ASSUME SenderTypes, NEW sid \in Sids, NEW ftype \in FrameType, NEW s \in SessionType,
         Emit(sid, ftype, s)
  PROVE  SenderTypes' /\ UNCHANGED decoderVars
<1> DEFINE fld == SeqField(session_tx[sid], epoch_ctr, ftype)
           msg == [ftype |-> ftype, sid |-> sid, epoch |-> fld.epoch, sseq |-> fld.seq,
                   gen |-> s.gen, pos |-> s.pos]
           prio == s.udp /\ ftype = "Data"
<1>1. /\ session' = [session EXCEPT ![sid] = [s EXCEPT !.pos = @ + 1]]
      /\ session_tx' = [session_tx EXCEPT ![sid] = [fld EXCEPT !.seq = @ + 1]]
      /\ epoch_ctr' = IF NeedsEpoch(session_tx[sid], ftype)
                      THEN (epoch_ctr + 1) % EPOCH_MOD ELSE epoch_ctr
      /\ prioq' = IF prio THEN Append(prioq, msg) ELSE prioq
      /\ relq' = IF prio THEN relq ELSE Append(relq, msg)
      /\ UNCHANGED <<relTurn, net, decoderVars, dups>>
  BY DEF Emit
<1>2. /\ fld = [epoch |-> fld.epoch, seq |-> fld.seq]
      /\ fld.epoch \in Epochs /\ fld.seq \in Seqs
  BY SeqFieldFits
<1> HIDE DEF fld
<1>3. msg \in Frame
  BY <1>2 DEF Frame, SessionType
<1>4. [s EXCEPT !.pos = @ + 1] \in SessionType
  BY DEF SessionType
<1>5. [fld EXCEPT !.seq = @ + 1] \in [epoch : 0 .. (EPOCH_MOD - 1), seq : 0 .. SEQ_MASK]
  <2>1. [fld EXCEPT !.seq = @ + 1] = [epoch |-> fld.epoch, seq |-> fld.seq + 1]
    BY <1>2
  <2> QED
    BY <1>2, <2>1, MuxAssumption DEF Epochs, Seqs
<1>6. epoch_ctr' \in 0 .. (EPOCH_MOD - 1)
  <2>1. epoch_ctr + 1 \in Nat /\ EPOCH_MOD \in Nat \ {0}
    BY MuxAssumption DEF SenderTypes
  <2>2. (epoch_ctr + 1) % EPOCH_MOD \in 0 .. (EPOCH_MOD - 1)
    BY <2>1, ModRange
  <2> QED
    BY <1>1, <2>2 DEF SenderTypes
<1> HIDE DEF msg, prio
<1>7. relq' \in Seq(Frame) /\ prioq' \in Seq(Frame)
  <2>1. Append(relq, msg) \in Seq(Frame) /\ Append(prioq, msg) \in Seq(Frame)
    BY <1>3 DEF SenderTypes
  <2> QED
    BY <1>1, <2>1 DEF SenderTypes
<1> QED
  BY <1>1, <1>4, <1>5, <1>6, <1>7 DEF SenderTypes

(* Removing a message leaves a sequence of frames. *)
LEMMA RemoveAtType ==
  ASSUME NEW q \in Seq(Frame), NEW i \in DOMAIN q
  PROVE  RemoveAt(q, i) \in Seq(Frame)
<1>1. i \in 1 .. Len(q) /\ Len(q) \in Nat
  OBVIOUS
<1>2. \A j \in 1 .. (i - 1) : q[j] \in Frame
  BY <1>1, ElementOfSeq
<1>3. \A j \in (i + 1) .. Len(q) : q[j] \in Frame
  BY <1>1, ElementOfSeq
<1>4. SubSeq(q, 1, i - 1) \in Seq(Frame)
  BY <1>1, <1>2, SubSeqProperties
<1>5. SubSeq(q, i + 1, Len(q)) \in Seq(Frame)
  BY <1>1, <1>3, SubSeqProperties
<1> QED
  BY <1>4, <1>5, ConcatProperties DEF RemoveAt

-----------------------------------------------------------------------------
(* The invariant holds at the start. *)
LEMMA InitInv == Init => DecoderInv
<1> SUFFICES ASSUME Init PROVE SenderTypes /\ DecoderTables
  BY InvSplits
<1>1. <<>> \in Seq(Frame) /\ Len(<<>>) = 0
  BY EmptySeq
<1>2. SenderTypes
  <2>1. session \in [Sids -> SessionType]
    BY DEF Init, SessionType
  <2>2. session_tx \in [Sids -> [epoch : 0 .. (EPOCH_MOD - 1), seq : 0 .. SEQ_MASK]]
    BY MuxAssumption DEF Init
  <2>3. epoch_ctr \in 0 .. (EPOCH_MOD - 1) /\ dups \in Nat
    BY MuxAssumption DEF Init
  <2>4. relTurn \in BOOLEAN
    BY Zenon DEF Init
  <2> QED
    BY <1>1, <2>1, <2>2, <2>3, <2>4 DEF Init, SenderTypes
<1>3. IsSidReorder(NoState)
  <2>1. <<>> = [n \in DOMAIN <<>> |-> <<>>[n]] /\ DOMAIN <<>> = {}
    OBVIOUS
  <2> QED
    BY <2>1, MuxAssumption DEF NoState, IsSidReorder
<1>4. \A sid \in Sids : states[sid] = NoState /\ got[sid] = <<>>
  BY DEF Init
<1>5. /\ states = [sid \in Sids |-> states[sid]]
      /\ preopen \in [Sids -> Seq(Frame)]
      /\ got \in [Sids -> Seq(Frame)]
  BY <1>1 DEF Init
<1>6. StateMatchesHistory
  BY <1>4 DEF StateMatchesHistory, NoState
<1>7. GapFree /\ OpenFirst
  BY <1>1, <1>4 DEF GapFree, OpenFirst
<1> QED
  BY <1>2, <1>3, <1>4, <1>5, <1>6, <1>7 DEF DecoderTables

(* The tables do not change when the decoder takes no step. *)
LEMMA TablesStutter ==
  ASSUME DecoderTables, UNCHANGED decoderVars
  PROVE  DecoderTables'
  BY DEF decoderVars, DecoderTables, StateMatchesHistory, GapFree, OpenFirst

(* Every step keeps the invariant: one case for each action of Next. *)
LEMMA NextInv == DecoderInv /\ [Next]_vars => DecoderInv'
<1> SUFFICES ASSUME SenderTypes, DecoderTables, [Next]_vars
             PROVE  SenderTypes' /\ DecoderTables'
  BY DEF DecoderInv, TypeOK, DecoderTables, SenderTypes, SessionType
<1>1. ASSUME NEW sid \in Sids, NEW udp \in {FALSE, UdpReliable},
             OpenSession(sid, udp) \/ AcceptSession(sid, udp)
      PROVE  SenderTypes' /\ DecoderTables'
  <2>1. NewSession(sid, udp) \in SessionType
    <3>1. udp \in BOOLEAN
      BY MuxAssumption, Zenon
    <3>2. session[sid].gen + 1 \in Nat
      BY DEF SessionType, SenderTypes
    <3> QED
      BY <3>1, <3>2 DEF NewSession, SessionType
  <2>2. CASE OpenSession(sid, udp)
    BY <2>1, <2>2, EmitKeepsTypes, TablesStutter DEF OpenSession, FrameType
  <2>3. CASE AcceptSession(sid, udp)
    <3>1. UNCHANGED decoderVars
      BY <2>3 DEF AcceptSession
    <3> QED
      BY <2>1, <2>3, <3>1, TablesStutter DEF AcceptSession, SenderTypes, threadVars
  <2> QED
    BY <1>1, <2>2, <2>3
<1>2. ASSUME NEW sid \in Sids, SendData(sid) \/ SendFin(sid) \/ SendClose(sid)
      PROVE  SenderTypes' /\ DecoderTables'
  <2>1. /\ session[sid] \in SessionType
        /\ [session[sid] EXCEPT !.phase = "fin"] \in SessionType
        /\ [session[sid] EXCEPT !.phase = "idle"] \in SessionType
    BY DEF SessionType, SenderTypes
  <2>2. CASE SendData(sid)
    BY <2>1, <2>2, EmitKeepsTypes, TablesStutter DEF SendData, FrameType
  <2>3. CASE SendFin(sid)
    BY <2>1, <2>3, EmitKeepsTypes, TablesStutter DEF SendFin, FrameType
  <2>4. CASE SendClose(sid)
    BY <2>1, <2>4, EmitKeepsTypes, TablesStutter DEF SendClose, FrameType
  <2> QED
    BY <1>2, <2>2, <2>3, <2>4
<1>3. CASE SendThread
  <2>1. UNCHANGED decoderVars
    BY <1>3 DEF SendThread, SendPrio, PrioDrained, SendRel, RelTimeout
  <2>2. ASSUME NEW q \in Seq(Frame), q # <<>>
        PROVE  Tail(q) \in Seq(Frame) /\ Append(net, Head(q)) \in Seq(Frame)
    <3>1. Head(q) \in Frame /\ Tail(q) \in Seq(Frame)
      BY <2>2, HeadTailProperties
    <3> QED
      BY <3>1 DEF SenderTypes
  <2>3. SenderTypes'
    BY <1>3, <2>2 DEF SendThread, SendPrio, PrioDrained, SendRel, RelTimeout, SenderTypes, senderVars
  <2> QED
    BY <2>1, <2>3, TablesStutter
<1>4. ASSUME NEW i \in Arrivable, Receive(i) \/ ReceiveCopy(i)
      PROVE  SenderTypes' /\ DecoderTables'
  <2>1. i \in DOMAIN net /\ net \in Seq(Frame)
    BY DEF Arrivable, SenderTypes
  <2>2. net[i] \in Frame
    BY <2>1, ElementOfSeq
  <2>3. DecoderTables'
    BY <1>4, <2>2, FeedKeepsTables DEF Receive, ReceiveCopy
  <2>4. RemoveAt(net, i) \in Seq(Frame)
    BY <2>1, RemoveAtType
  <2>5. SenderTypes'
    BY <1>4, <2>4 DEF Receive, ReceiveCopy, SenderTypes, senderVars, threadVars
  <2> QED
    BY <2>3, <2>5
<1>5. CASE UNCHANGED vars
  <2>1. UNCHANGED decoderVars
    BY <1>5 DEF vars, decoderVars
  <2>2. SenderTypes'
    BY <1>5 DEF vars, SenderTypes
  <2> QED
    BY <2>1, <2>2, TablesStutter
<1> QED
  BY <1>1, <1>2, <1>3, <1>4, <1>5 DEF Next

-----------------------------------------------------------------------------
(* The decoder's invariant holds in every reachable state, for all values  *)
(* of the constants.                                                       *)
THEOREM DecoderInvariant == Spec => []DecoderInv
  BY InitInv, NextInv, PTL DEF Spec

(* Type correctness: every frame carries a non-zero epoch and a sequence   *)
(* number that fits its field.                                             *)
THEOREM TypeCorrect == Spec => []TypeOK
<1>1. DecoderInv => TypeOK
  BY DEF DecoderInv
<1> QED
  BY <1>1, DecoderInvariant, PTL

(* feed never leaves a gap, repeats or swaps frames within an epoch,       *)
(* whatever order SRT delivers in and whatever overflows.                  *)
THEOREM DeliveryIsGapFree == Spec => []GapFree
<1>1. DecoderInv => GapFree
  BY DEF DecoderInv
<1> QED
  BY <1>1, DecoderInvariant, PTL

(* feed hands nothing of the opener's direction to the dispatcher before   *)
(* the Open of its sid.                                                    *)
THEOREM NothingBeforeOpen == Spec => []OpenFirst
<1>1. DecoderInv => OpenFirst
  BY DEF DecoderInv
<1> QED
  BY <1>1, DecoderInvariant, PTL

-----------------------------------------------------------------------------
(* Memory.                                                                 *)

LEMMA SomeSeqs ==
  ASSUME NEW S, S \subseteq Seqs
  PROVE  IsFiniteSet(S) /\ Cardinality(S) \in Nat
<1>1. IsFiniteSet(Seqs)
  BY FS_Interval, MuxAssumption DEF Seqs
<1>2. IsFiniteSet(S)
  BY <1>1, FS_Subset
<1> QED
  BY <1>2, FS_CardinalityType

(* flush_ready only takes frames out of the buffer. *)
LEMMA FlushedIsSmaller ==
  ASSUME NEW st, IsSidReorder(st)
  PROVE  Cardinality(DOMAIN Flushed(st).buf) <= Cardinality(DOMAIN st.buf)
<1>1. DOMAIN Flushed(st).buf \subseteq DOMAIN st.buf
  BY DEF Flushed
<1>2. DOMAIN st.buf \subseteq Seqs
  BY DEF IsSidReorder
<1> QED
  BY <1>1, <1>2, SomeSeqs, FS_Subset

(* An Open adopts no more frames than were stashed. *)
LEMMA AdoptedIsSmaller ==
  ASSUME NEW w \in Seq(Frame), NEW f \in Frame
  PROVE  Cardinality(DOMAIN Adopted(w, f)) <= Len(w)
<1> DEFINE J == {j \in DOMAIN w : Adopts(w, f, j)}
           D == {w[i].sseq : i \in J}
           g == [j \in J |-> w[j].sseq]
<1>1. DOMAIN Adopted(w, f) = D
  BY DEF Adopted
<1>2. DOMAIN w = 1 .. Len(w) /\ Len(w) \in Nat
  BY LenProperties
<1>3. IsFiniteSet(1 .. Len(w)) /\ Cardinality(1 .. Len(w)) = Len(w)
  BY <1>2, FS_Interval
<1>4. IsFiniteSet(J) /\ Cardinality(J) <= Len(w)
  BY <1>2, <1>3, FS_Subset
<1>5. g \in Surjection(J, D)
  BY DEF Surjection
<1>6. Cardinality(D) <= Cardinality(J) /\ IsFiniteSet(D)
  BY <1>4, <1>5, FS_Surjection
<1>7. Cardinality(D) \in Nat /\ Cardinality(J) \in Nat
  BY <1>4, <1>6, FS_CardinalityType
<1> HIDE DEF J, D, g
<1> QED
  BY <1>1, <1>2, <1>4, <1>6, <1>7

(* The table after a release, if the state that is flushed fits. *)
LEMMA ReleaseFits ==
  ASSUME DecoderTables, MemoryBounded, NEW sid \in Sids, NEW st, NEW out,
         IsSidReorder(st), Cardinality(DOMAIN st.buf) <= REORDER_MAX, Release(sid, st, out)
  PROVE  \A s \in Sids : Cardinality(DOMAIN states'[s].buf) <= REORDER_MAX
<1>1. states' = [states EXCEPT ![sid] = Flushed(st)]
  BY DEF Release
<1>2. states'[sid] = Flushed(st) /\ \A s \in Sids : s # sid => states'[s] = states[s]
  BY <1>1 DEF DecoderTables
<1>3. Cardinality(DOMAIN Flushed(st).buf) <= REORDER_MAX
  <2>1. DOMAIN Flushed(st).buf \subseteq Seqs /\ DOMAIN st.buf \subseteq Seqs
    BY DEF Flushed, IsSidReorder
  <2>2. Cardinality(DOMAIN Flushed(st).buf) \in Nat /\ Cardinality(DOMAIN st.buf) \in Nat
    BY <2>1, SomeSeqs
  <2> QED
    BY <2>2, FlushedIsSmaller, MuxAssumption
<1> QED
  BY <1>2, <1>3 DEF MemoryBounded

LEMMA FeedFits ==
  ASSUME DecoderTables, MemoryBounded, NEW f \in Frame, Feed(f)
  PROVE  MemoryBounded'
<1> DEFINE sid == f.sid
           st  == states[sid]
<1>1. /\ sid \in Sids /\ IsSidReorder(st) /\ preopen[sid] \in Seq(Frame)
      /\ Cardinality(DOMAIN st.buf) <= REORDER_MAX /\ Len(preopen[sid]) <= PREOPEN_MAX
      /\ f.sseq \in Seqs /\ DOMAIN st.buf \subseteq Seqs
  BY FrameFields DEF DecoderTables, MemoryBounded, IsSidReorder
<1>2. PREOPEN_MAX \in Nat /\ REORDER_MAX \in Nat /\ PREOPEN_MAX <= REORDER_MAX
  BY MuxAssumption
<1>3. \A s \in Sids : Cardinality(DOMAIN states[s].buf) <= REORDER_MAX /\ Len(preopen[s]) <= PREOPEN_MAX
  BY DEF MemoryBounded
<1>4. Len(<<>>) = 0 /\ DOMAIN <<>> = {}
  BY EmptySeq
<1>5. CASE UNCHANGED <<states, preopen>>
  BY <1>3, <1>5 DEF MemoryBounded
<1>b. IsSidReorder(Baseline(f)) /\ Cardinality(DOMAIN Baseline(f).buf) <= REORDER_MAX
  <2>1. IsSidReorder(Baseline(f))
    BY BaselineContinues DEF Continues
  <2>2. DOMAIN Baseline(f).buf = {}
    BY <1>4 DEF Baseline
  <2> QED
    BY <1>2, <2>1, <2>2, FS_EmptySet
<1>6. CASE FeedOpen(f)
  <2> DEFINE o == [Baseline(f) EXCEPT !.buf = Adopted(preopen[sid], f)]
  <2>1. o = [epoch |-> f.epoch, next |-> f.sseq + 1, buf |-> Adopted(preopen[sid], f)]
    BY DEF Baseline
  <2>2. IsSidReorder(o)
    BY <1>1, <2>1, AdoptedIsLater, FrameFields DEF IsSidReorder
  <2>3. Cardinality(DOMAIN o.buf) <= REORDER_MAX
    <3>1. o.buf = Adopted(preopen[sid], f) /\ DOMAIN o.buf \subseteq Seqs
      BY <2>1, <2>2 DEF IsSidReorder
    <3>2. Cardinality(DOMAIN o.buf) \in Nat /\ Len(preopen[sid]) \in Nat
      BY <1>1, <3>1, SomeSeqs
    <3>3. Cardinality(DOMAIN o.buf) <= Len(preopen[sid])
      BY <1>1, <3>1, AdoptedIsSmaller
    <3> HIDE DEF o
    <3> QED
      BY <1>1, <1>2, <3>2, <3>3
  <2>4. Release(sid, o, <<f>>) /\ preopen' = [preopen EXCEPT ![sid] = <<>>]
    BY <1>6 DEF FeedOpen
  <2>5. \A s \in Sids : Cardinality(DOMAIN states'[s].buf) <= REORDER_MAX
    <3> HIDE DEF o
    <3> QED
      BY <1>1, <2>2, <2>3, <2>4, ReleaseFits
  <2>6. \A s \in Sids : Len(preopen'[s]) <= PREOPEN_MAX
    BY <1>2, <1>3, <1>4, <2>4 DEF DecoderTables
  <2> QED
    BY <2>5, <2>6 DEF MemoryBounded
<1>7. CASE FeedDuplicate(f)
  BY <1>5, <1>7 DEF FeedDuplicate, decoderVars
<1>8. CASE FeedExpected(f)
  <2> DEFINE o == [st EXCEPT !.next = @ + 1]
  <2>1. Release(sid, o, <<f>>) /\ preopen' = preopen /\ f.sseq = st.next
    BY <1>8 DEF FeedExpected
  <2>2. o = [epoch |-> st.epoch, next |-> st.next + 1, buf |-> st.buf]
    BY <1>1 DEF IsSidReorder
  <2>3. IsSidReorder(o) /\ o.buf = st.buf
    BY <1>1, <2>1, <2>2, FrameFields DEF IsSidReorder
  <2> HIDE DEF o
  <2>4. \A s \in Sids : Cardinality(DOMAIN states'[s].buf) <= REORDER_MAX
    BY <1>1, <2>1, <2>3, ReleaseFits
  <2> QED
    BY <1>3, <2>1, <2>4 DEF MemoryBounded
<1>9. CASE FeedAhead(f)
  <2>1. CASE ~RoomToBuffer(st)
    BY <1>5, <1>9, <2>1 DEF FeedAhead
  <2>2. CASE RoomToBuffer(st)
    <3> DEFINE B == [n \in DOMAIN st.buf \cup {f.sseq} |-> IF n = f.sseq THEN f ELSE st.buf[n]]
    <3>1. states' = [states EXCEPT ![sid].buf = B] /\ preopen' = preopen
      BY <1>9, <2>2 DEF FeedAhead
    <3>2. DOMAIN B = DOMAIN st.buf \cup {f.sseq}
      OBVIOUS
    <3> HIDE DEF B
    <3>3. states'[sid].buf = B /\ \A s \in Sids : s # sid => states'[s] = states[s]
      <4>1. [st EXCEPT !.buf = B] = [epoch |-> st.epoch, next |-> st.next, buf |-> B]
        BY <1>1 DEF IsSidReorder
      <4>2. states' = [states EXCEPT ![sid] = [st EXCEPT !.buf = B]]
        BY <3>1
      <4> QED
        BY <1>1, <4>1, <4>2 DEF DecoderTables
    <3>4. /\ IsFiniteSet(DOMAIN st.buf) /\ Cardinality(DOMAIN st.buf) \in Nat
          /\ Cardinality(DOMAIN st.buf) < REORDER_MAX
      BY <1>1, <2>2, SomeSeqs DEF RoomToBuffer
    <3>5. Cardinality(DOMAIN B) <= REORDER_MAX
      <4>1. Cardinality(DOMAIN B) = IF f.sseq \in DOMAIN st.buf THEN Cardinality(DOMAIN st.buf)
                                    ELSE Cardinality(DOMAIN st.buf) + 1
        BY <3>2, <3>4, FS_AddElement
      <4> QED
        BY <1>2, <3>4, <4>1
    <3> QED
      BY <1>3, <3>1, <3>3, <3>5 DEF MemoryBounded
  <2> QED
    BY <2>1, <2>2
<1>10. CASE FeedOtherEpoch(f)
  <2>1. CASE ~Newer(f.epoch, st.epoch)
    BY <1>5, <1>10, <2>1 DEF FeedOtherEpoch
  <2>2. CASE Newer(f.epoch, st.epoch)
    <3>1. Release(sid, Baseline(f), <<f>>) /\ preopen' = preopen
      BY <1>10, <2>2 DEF FeedOtherEpoch
    <3> QED
      BY <1>1, <1>3, <1>b, <3>1, ReleaseFits DEF MemoryBounded
  <2> QED
    BY <2>1, <2>2
<1>11. CASE FeedNoState(f)
  <2>1. CASE DirAccept
    <3>1. Release(sid, Baseline(f), <<f>>) /\ preopen' = preopen
      BY <1>11, <2>1 DEF FeedNoState
    <3> QED
      BY <1>1, <1>3, <1>b, <3>1, ReleaseFits DEF MemoryBounded
  <2>2. CASE ~DirAccept /\ ~RoomToStash(preopen[sid])
    BY <1>5, <1>11, <2>2 DEF FeedNoState
  <2>3. CASE ~DirAccept /\ RoomToStash(preopen[sid])
    <3>1. states' = states /\ preopen' = [preopen EXCEPT ![sid] = Append(@, f)]
      BY <1>11, <2>3 DEF FeedNoState
    <3>2. Len(Append(preopen[sid], f)) <= PREOPEN_MAX
      BY <1>1, <1>2, <2>3 DEF RoomToStash
    <3>3. \A s \in Sids : Len(preopen'[s]) <= PREOPEN_MAX
      BY <1>3, <3>1, <3>2 DEF DecoderTables
    <3> QED
      BY <1>3, <3>1, <3>3 DEF MemoryBounded
  <2> QED
    BY <2>1, <2>2, <2>3
<1> QED
  BY <1>6, <1>7, <1>8, <1>9, <1>10, <1>11 DEF Feed

(* What a step that is no arrival leaves alone. *)
LEMMA OnlyArrivalsFeed ==
  ASSUME SenderTypes, [Next]_vars
  PROVE  \/ UNCHANGED decoderVars
         \/ \E i \in Arrivable : i \in DOMAIN net /\ net[i] \in Frame /\ Feed(net[i])
                                 /\ (Receive(i) \/ ReceiveCopy(i))
<1>1. ASSUME NEW sid \in Sids, NEW udp, OpenSession(sid, udp) \/ AcceptSession(sid, udp)
      PROVE  UNCHANGED decoderVars
  BY <1>1 DEF OpenSession, AcceptSession, Emit
<1>2. ASSUME NEW sid \in Sids, SendData(sid) \/ SendFin(sid) \/ SendClose(sid)
      PROVE  UNCHANGED decoderVars
  BY <1>2 DEF SendData, SendFin, SendClose, Emit
<1>3. CASE SendThread
  BY <1>3 DEF SendThread, SendPrio, PrioDrained, SendRel, RelTimeout
<1>4. ASSUME NEW i \in Arrivable, Receive(i) \/ ReceiveCopy(i)
      PROVE  i \in DOMAIN net /\ net[i] \in Frame /\ Feed(net[i])
  <2>1. i \in DOMAIN net /\ net \in Seq(Frame)
    BY DEF Arrivable, SenderTypes
  <2> QED
    BY <1>4, <2>1, ElementOfSeq DEF Receive, ReceiveCopy
<1>5. CASE UNCHANGED vars
  BY <1>5 DEF vars, decoderVars
<1> QED
  BY <1>1, <1>2, <1>3, <1>4, <1>5 DEF Next

(* A peer that never fills a gap or never sends an Open costs the decoder  *)
(* at most PREOPEN_MAX and REORDER_MAX frames for each sid, although an    *)
(* Open takes the stash over into the buffer without a size test that      *)
(* could fire.                                                             *)
THEOREM MemoryIsBounded == Spec => []MemoryBounded
<1>1. Init => MemoryBounded
  <2> SUFFICES ASSUME Init, NEW sid \in Sids
               PROVE  Cardinality(DOMAIN states[sid].buf) <= REORDER_MAX /\ Len(preopen[sid]) <= PREOPEN_MAX
    BY DEF MemoryBounded
  <2>1. DOMAIN states[sid].buf = {} /\ Len(preopen[sid]) = 0
    BY EmptySeq DEF Init, NoState
  <2> QED
    BY <2>1, FS_EmptySet, MuxAssumption
<1>2. DecoderInv /\ MemoryBounded /\ [Next]_vars => MemoryBounded'
  <2> SUFFICES ASSUME SenderTypes, DecoderTables, MemoryBounded, [Next]_vars PROVE MemoryBounded'
    BY InvSplits
  <2>1. CASE UNCHANGED decoderVars
    BY <2>1 DEF decoderVars, MemoryBounded
  <2> QED
    BY <2>1, OnlyArrivalsFeed, FeedFits
<1> QED
  BY <1>1, <1>2, DecoderInvariant, PTL DEF Spec

-----------------------------------------------------------------------------
(* Sessions on the same sid.                                               *)

(* The frames of a sid: on their way, and at the decoder. *)
Queued(sid, f) ==
  /\ f.sid = sid
  /\ \/ \E i \in DOMAIN relq : f = relq[i]
     \/ \E i \in DOMAIN prioq : f = prioq[i]
     \/ \E i \in DOMAIN net : f = net[i]
Stored(sid, f) ==
  \/ \E i \in DOMAIN preopen[sid] : f = preopen[sid][i]
  \/ \E n \in DOMAIN states[sid].buf : f = states[sid].buf[n]
  \/ \E i \in DOMAIN got[sid] : f = got[sid][i]
Known(sid, f) == Queued(sid, f) \/ Stored(sid, f)

(* Until half of the ring is used up, epochs and sequence numbers grow     *)
(* with the sessions of a sid.                                             *)
Numbered(e, n, f, g) == f < e \/ (f = e /\ g < n)
NumberInv ==
  \A sid \in Sids :
    /\ session_tx[sid].epoch <= epoch_ctr
    /\ \A f \in Frame : Known(sid, f) =>
         /\ Numbered(session_tx[sid].epoch, session_tx[sid].seq, f.epoch, f.sseq)
         /\ f.gen <= session[sid].gen
    /\ \A f, g \in Frame : Known(sid, f) /\ Known(sid, g) =>
         (Numbered(g.epoch, g.sseq, f.epoch, f.sseq) => f.gen <= g.gen)

LEMMA InAppend ==
  ASSUME NEW q \in Seq(Frame), NEW m \in Frame
  PROVE  /\ Append(q, m) \in Seq(Frame) /\ Len(Append(q, m)) = Len(q) + 1 /\ Len(q) \in Nat
         /\ Append(q, m)[Len(q) + 1] = m /\ \A i \in 1 .. Len(q) : Append(q, m)[i] = q[i]
         /\ \A i \in DOMAIN Append(q, m) : Append(q, m)[i] = m \/ \E j \in DOMAIN q : Append(q, m)[i] = q[j]
<1>1. /\ Append(q, m) \in Seq(Frame) /\ Len(Append(q, m)) = Len(q) + 1 /\ Len(q) \in Nat
      /\ Append(q, m)[Len(q) + 1] = m /\ \A i \in 1 .. Len(q) : Append(q, m)[i] = q[i]
  OBVIOUS
<1>2. DOMAIN q = 1 .. Len(q) /\ DOMAIN Append(q, m) = 1 .. (Len(q) + 1)
  OBVIOUS
<1>3. \A i \in 1 .. (Len(q) + 1) : i = Len(q) + 1 \/ i \in 1 .. Len(q)
  BY <1>1
<1> QED
  BY <1>1, <1>2, <1>3

LEMMA InTail ==
  ASSUME NEW q \in Seq(Frame), q # <<>>
  PROVE  /\ Tail(q) \in Seq(Frame) /\ Len(Tail(q)) = Len(q) - 1 /\ Len(q) \in Nat
         /\ Head(q) = q[1] /\ 1 \in DOMAIN q /\ Head(q) \in Frame
         /\ \A i \in 1 .. (Len(q) - 1) : Tail(q)[i] = q[i + 1]
         /\ \A i \in DOMAIN Tail(q) : i + 1 \in DOMAIN q /\ Tail(q)[i] = q[i + 1]
<1>1. /\ Tail(q) \in Seq(Frame) /\ Len(Tail(q)) = Len(q) - 1 /\ Len(q) \in Nat /\ Len(q) > 0
      /\ Head(q) = q[1] /\ Head(q) \in Frame
      /\ \A i \in 1 .. (Len(q) - 1) : Tail(q)[i] = q[i + 1]
  OBVIOUS
<1>2. DOMAIN q = 1 .. Len(q) /\ DOMAIN Tail(q) = 1 .. (Len(q) - 1)
  BY <1>1
<1> QED
  BY <1>1, <1>2

LEMMA AdoptedIsStashed ==
  ASSUME NEW w \in Seq(Frame), NEW f \in Frame
  PROVE  \A n \in DOMAIN Adopted(w, f) : \E i \in DOMAIN w : Adopted(w, f)[n] = w[i]
<1> DEFINE D == {w[i].sseq : i \in {j \in DOMAIN w : Adopts(w, f, j)}}
           Last(n) == CHOOSE i \in DOMAIN w :
                        /\ Adopts(w, f, i) /\ w[i].sseq = n
                        /\ \A j \in DOMAIN w : Adopts(w, f, j) /\ w[j].sseq = n => j <= i
<1>1. Adopted(w, f) = [n \in D |-> w[Last(n)]]
  BY DEF Adopted
<1>2. DOMAIN w = 1 .. Len(w) /\ Len(w) \in Nat
  BY LenProperties
<1>3. ASSUME NEW n \in D PROVE Last(n) \in DOMAIN w
  <2> DEFINE T == {i \in DOMAIN w : Adopts(w, f, i) /\ w[i].sseq = n}
  <2>1. T \subseteq 1 .. Len(w) /\ T # {}
    BY <1>2
  <2>2. \E i \in T : \A j \in T : j <= i
    BY <2>1, <1>2, LastIndex
  <2>3. \E i \in DOMAIN w :
          /\ Adopts(w, f, i) /\ w[i].sseq = n
          /\ \A j \in DOMAIN w : Adopts(w, f, j) /\ w[j].sseq = n => j <= i
    BY <2>2
  <2> QED
    BY <2>3
<1> HIDE DEF Last, D
<1> QED
  BY <1>1, <1>3

LEMMA InRemoveAt ==
  ASSUME NEW q \in Seq(Frame), NEW i \in DOMAIN q
  PROVE  /\ Len(RemoveAt(q, i)) = Len(q) - 1
         /\ \A j \in 1 .. (Len(q) - 1) : RemoveAt(q, i)[j] = IF j < i THEN q[j] ELSE q[j + 1]
<1>1. i \in 1 .. Len(q) /\ Len(q) \in Nat
  OBVIOUS
<1> DEFINE a == SubSeq(q, 1, i - 1)
           b == SubSeq(q, i + 1, Len(q))
<1>2. \A j \in 1 .. Len(q) : q[j] \in Frame
  BY ElementOfSeq
<1>3. /\ a \in Seq(Frame) /\ Len(a) = i - 1 /\ \A j \in 1 .. (i - 1) : a[j] = q[j]
  <2>1. \A j \in 1 .. (i - 1) : q[j] \in Frame
    BY <1>1, <1>2
  <2> QED
    BY <1>1, <2>1, SubSeqProperties
<1>4. /\ b \in Seq(Frame) /\ Len(b) = Len(q) - i /\ \A j \in 1 .. (Len(q) - i) : b[j] = q[i + j]
  <2>1. \A j \in (i + 1) .. Len(q) : q[j] \in Frame
    BY <1>1, <1>2
  <2>2. /\ b \in Seq(Frame) /\ Len(b) = (IF i + 1 <= Len(q) THEN Len(q) - (i + 1) + 1 ELSE 0)
        /\ \A j \in 1 .. (Len(q) - (i + 1) + 1) : b[j] = q[i + 1 + j - 1]
    BY <1>1, <2>1, SubSeqProperties
  <2>3. \A j \in 1 .. (Len(q) - i) : j \in 1 .. (Len(q) - (i + 1) + 1) /\ i + 1 + j - 1 = i + j
    BY <1>1
  <2> HIDE DEF b
  <2> QED
    BY <1>1, <2>2, <2>3
<1>5. RemoveAt(q, i) = a \o b
  BY DEF RemoveAt
<1> HIDE DEF a, b
<1>6. /\ Len(a \o b) = Len(a) + Len(b)
      /\ \A j \in 1 .. (Len(a) + Len(b)) : (a \o b)[j] = IF j <= Len(a) THEN a[j] ELSE b[j - Len(a)]
  BY <1>3, <1>4, ConcatProperties
<1>7. ASSUME NEW j \in 1 .. (Len(q) - 1)
      PROVE  (a \o b)[j] = IF j < i THEN q[j] ELSE q[j + 1]
  <2>1. CASE j < i
    BY <1>1, <1>3, <1>4, <1>6, <2>1, SMTT(30)
  <2>2. CASE ~(j < i)
    <3>1. j - Len(a) \in 1 .. (Len(q) - i) /\ i + (j - Len(a)) = j + 1 /\ ~(j <= Len(a))
      BY <1>1, <1>3, <2>2
    <3>2. b[j - Len(a)] = q[i + (j - Len(a))]
      BY <1>4, <3>1
    <3>3. (a \o b)[j] = b[j - Len(a)]
      <4>1. j \in 1 .. (Len(a) + Len(b))
        BY <1>1, <1>3, <1>4
      <4> QED
        BY <1>6, <3>1, <4>1
    <3> QED
      BY <2>2, <3>1, <3>2, <3>3
  <2> QED
    BY <2>1, <2>2
<1> QED
  BY <1>1, <1>3, <1>4, <1>5, <1>6, <1>7, SMTT(30)

(* What a release leaves at the decoder was there, or is the frame itself. *)
LEMMA ReleaseStores ==
  ASSUME DecoderTables, NEW f \in Frame, NEW st, Continues(st, f), Release(f.sid, st, <<f>>),
         NEW sid \in Sids, NEW h
  PROVE  /\ (\E i \in DOMAIN got'[sid] : h = got'[sid][i]) =>
              \/ \E i \in DOMAIN got[sid] : h = got[sid][i]
              \/ sid = f.sid /\ (h = f \/ \E n \in DOMAIN st.buf : h = st.buf[n])
         /\ (\E n \in DOMAIN states'[sid].buf : h = states'[sid].buf[n]) =>
              \/ sid # f.sid /\ \E n \in DOMAIN states[sid].buf : h = states[sid].buf[n]
              \/ sid = f.sid /\ \E n \in DOMAIN st.buf : h = st.buf[n]
<1>1. f.sid \in Sids /\ got \in [Sids -> Seq(Frame)] /\ states = [s \in Sids |-> states[s]]
  BY FrameFields DEF DecoderTables
<1>2. /\ states' = [states EXCEPT ![f.sid] = Flushed(st)]
      /\ got' = [got EXCEPT ![f.sid] = (@ \o <<f>>) \o Ready(st)]
  BY DEF Release
<1>3. /\ states'[f.sid] = Flushed(st) /\ got'[f.sid] = (got[f.sid] \o <<f>>) \o Ready(st)
      /\ sid # f.sid => states'[sid] = states[sid] /\ got'[sid] = got[sid]
  BY <1>1, <1>2
<1>4. \A n \in DOMAIN Flushed(st).buf : n \in DOMAIN st.buf /\ Flushed(st).buf[n] = st.buf[n]
  BY DEF Flushed
<1>5. /\ FlushEnd(st) \in st.next .. SEQ_MASK /\ st.next \in Nat /\ SEQ_MASK \in Nat
      /\ \A m \in st.next .. (FlushEnd(st) - 1) : m \in DOMAIN st.buf
      /\ \A n \in DOMAIN st.buf : st.buf[n] \in Frame
  BY FlushEndIsFirstMissing, MuxAssumption DEF Continues, IsSidReorder
<1> DEFINE k == FlushEnd(st) - st.next
<1>6. k \in Nat /\ \A i \in 1 .. k : st.next + i - 1 \in DOMAIN st.buf
  BY <1>5
<1>7. /\ Ready(st) \in Seq(Frame) /\ Len(Ready(st)) = k
      /\ \A i \in 1 .. k : Ready(st)[i] = st.buf[st.next + i - 1]
  <2>1. Ready(st) = [i \in 1 .. k |-> st.buf[st.next + i - 1]]
    BY DEF Ready
  <2>2. Ready(st) \in [1 .. k -> Frame]
    BY <1>5, <1>6, <2>1
  <2> HIDE DEF k
  <2> QED
    BY <1>6, <2>1, <2>2
<1> HIDE DEF k
<1>8. ASSUME NEW i \in DOMAIN ((got[f.sid] \o <<f>>) \o Ready(st)),
             h = ((got[f.sid] \o <<f>>) \o Ready(st))[i]
      PROVE  (\E j \in DOMAIN got[f.sid] : h = got[f.sid][j]) \/ h = f \/ \E n \in DOMAIN st.buf : h = st.buf[n]
  <2> DEFINE o == got[f.sid] \o <<f>>
  <2>1. got[f.sid] \in Seq(Frame) /\ <<f>> \in Seq(Frame) /\ Len(<<f>>) = 1 /\ <<f>>[1] = f
    BY <1>1
  <2>2. /\ o \in Seq(Frame) /\ Len(o) = Len(got[f.sid]) + 1
        /\ \A j \in 1 .. (Len(got[f.sid]) + 1) :
             o[j] = IF j <= Len(got[f.sid]) THEN got[f.sid][j] ELSE <<f>>[j - Len(got[f.sid])]
    BY <2>1, ConcatProperties
  <2>3. \A j \in 1 .. Len(o) : o[j] = f \/ \E m \in DOMAIN got[f.sid] : o[j] = got[f.sid][m]
    <3>1. Len(got[f.sid]) \in Nat /\ DOMAIN got[f.sid] = 1 .. Len(got[f.sid])
      BY <2>1
    <3> HIDE DEF o
    <3>2. SUFFICES ASSUME NEW j \in 1 .. Len(o)
                   PROVE  o[j] = f \/ \E m \in DOMAIN got[f.sid] : o[j] = got[f.sid][m]
      OBVIOUS
    <3>3. CASE j <= Len(got[f.sid])
      <4>1. j \in 1 .. (Len(got[f.sid]) + 1)
        BY <2>2
      <4>2. o[j] = got[f.sid][j]
        BY <2>2, <3>3, <4>1
      <4> QED
        BY <3>1, <3>3, <4>2
    <3>4. CASE j = Len(got[f.sid]) + 1
      BY <2>1, <2>2, <3>1, <3>4
    <3> QED
      BY <2>2, <3>1, <3>3, <3>4
  <2> HIDE DEF o
  <2>4. /\ Len(o \o Ready(st)) = Len(o) + k /\ o \o Ready(st) \in Seq(Frame)
        /\ \A j \in 1 .. (Len(o) + k) :
             (o \o Ready(st))[j] = IF j <= Len(o) THEN o[j] ELSE Ready(st)[j - Len(o)]
    BY <1>7, <2>2, ConcatProperties
  <2>5. i \in 1 .. (Len(o) + k) /\ h = (o \o Ready(st))[i] /\ Len(o) \in Nat
    BY <1>8, <2>2, <2>4 DEF o
  <2>6. CASE i <= Len(o)
    BY <2>3, <2>4, <2>5, <2>6
  <2>7. CASE ~(i <= Len(o))
    <3>1. i - Len(o) \in 1 .. k
      BY <1>6, <2>5, <2>7
    <3> QED
      BY <1>6, <1>7, <2>4, <2>5, <2>7, <3>1
  <2> QED
    BY <2>6, <2>7
<1> QED
  BY <1>3, <1>4, <1>8

(* feed invents no frame. *)
LEMMA FeedStores ==
  ASSUME DecoderTables, NEW f \in Frame, Feed(f), NEW sid \in Sids, NEW h, Stored(sid, h)'
  PROVE  Stored(sid, h) \/ (sid = f.sid /\ h = f)
<1> DEFINE st == states[f.sid]
<1>1. /\ f.sid \in Sids /\ IsSidReorder(st) /\ preopen \in [Sids -> Seq(Frame)]
      /\ preopen[f.sid] \in Seq(Frame) /\ states = [s \in Sids |-> states[s]]
  BY FrameFields DEF DecoderTables
<1>r. IsSidReorder(st)
  BY <1>1
<1>2. \A n \in DOMAIN st.buf : n > st.next /\ st.buf[n].sseq = n /\ st.buf[n].epoch = st.epoch
  BY <1>1 DEF DecoderTables, StateMatchesHistory
<1>s. \/ \E i \in DOMAIN preopen'[sid] : h = preopen'[sid][i]
      \/ \E n \in DOMAIN states'[sid].buf : h = states'[sid].buf[n]
      \/ \E i \in DOMAIN got'[sid] : h = got'[sid][i]
  BY DEF Stored
<1>3. CASE UNCHANGED decoderVars
  BY <1>3 DEF decoderVars, Stored
<1>4. ASSUME NEW o, Continues(o, f), Release(f.sid, o, <<f>>),
             \A n \in DOMAIN o.buf : Stored(f.sid, o.buf[n]),
             \A i \in DOMAIN preopen'[sid] : Stored(sid, preopen'[sid][i])
      PROVE  Stored(sid, h) \/ (sid = f.sid /\ h = f)
  <2>1. CASE \E i \in DOMAIN preopen'[sid] : h = preopen'[sid][i]
    BY <1>4, <2>1
  <2>2. CASE \E n \in DOMAIN states'[sid].buf : h = states'[sid].buf[n]
    BY <1>4, <2>2, ReleaseStores DEF Stored
  <2>3. CASE \E i \in DOMAIN got'[sid] : h = got'[sid][i]
    BY <1>4, <2>3, ReleaseStores, SMTT(30) DEF Stored
  <2> QED
    BY <1>s, <2>1, <2>2, <2>3
<1>5. \A i \in DOMAIN preopen[sid] : Stored(sid, preopen[sid][i])
  BY DEF Stored
<1>6. CASE FeedOpen(f)
  <2> DEFINE o == [Baseline(f) EXCEPT !.buf = Adopted(preopen[f.sid], f)]
  <2>1. o = [epoch |-> f.epoch, next |-> f.sseq + 1, buf |-> Adopted(preopen[f.sid], f)]
    BY DEF Baseline
  <2>2. o.epoch = f.epoch /\ o.next = f.sseq + 1 /\ o.buf = Adopted(preopen[f.sid], f)
    BY <2>1
  <2>3. IsSidReorder(o)
    BY <1>1, <2>1, <2>2, AdoptedIsLater, FrameFields DEF IsSidReorder
  <2>4. Continues(o, f)
    BY <1>1, <2>2, <2>3, AdoptedIsLater DEF Continues
  <2>5. Release(f.sid, o, <<f>>) /\ preopen' = [preopen EXCEPT ![f.sid] = <<>>]
    BY <1>6 DEF FeedOpen
  <2>6. \A n \in DOMAIN o.buf : Stored(f.sid, o.buf[n])
    <3>1. \A n \in DOMAIN o.buf : \E i \in DOMAIN preopen[f.sid] : o.buf[n] = preopen[f.sid][i]
      BY <1>1, <2>2, AdoptedIsStashed
    <3> QED
      BY <3>1 DEF Stored
  <2>7. \A i \in DOMAIN preopen'[sid] : Stored(sid, preopen'[sid][i])
    <3>1. preopen'[sid] = IF sid = f.sid THEN <<>> ELSE preopen[sid]
      BY <1>1, <2>5
    <3>2. DOMAIN <<>> = {}
      BY EmptySeq
    <3> QED
      BY <1>5, <3>1, <3>2
  <2> HIDE DEF o
  <2> QED
    BY <1>4, <2>4, <2>5, <2>6, <2>7
<1>7. CASE FeedDuplicate(f)
  BY <1>3, <1>7 DEF FeedDuplicate
<1>8. CASE FeedExpected(f)
  <2> DEFINE o == [st EXCEPT !.next = @ + 1]
  <2>1. /\ Release(f.sid, o, <<f>>) /\ preopen' = preopen /\ st.epoch = f.epoch /\ f.sseq = st.next
    BY <1>8 DEF FeedExpected
  <2> HIDE DEF st
  <2>3. o.buf = st.buf /\ Continues(o, f)
    BY <1>2, <1>r, <2>1, NextMoves
  <2> USE DEF st
  <2>5. Continues(o, f)
    BY <2>3
  <2>6. \A n \in DOMAIN o.buf : Stored(f.sid, o.buf[n])
    BY <2>3 DEF Stored
  <2> HIDE DEF o
  <2> QED
    BY <1>4, <1>5, <2>1, <2>5, <2>6
<1>9. CASE FeedAhead(f)
  <2>1. CASE ~RoomToBuffer(st)
    BY <1>3, <1>9, <2>1 DEF FeedAhead, decoderVars
  <2>2. CASE RoomToBuffer(st)
    <3> DEFINE B == [n \in DOMAIN st.buf \cup {f.sseq} |-> IF n = f.sseq THEN f ELSE st.buf[n]]
    <3>1. states' = [states EXCEPT ![f.sid].buf = B] /\ preopen' = preopen /\ got' = got
      BY <1>9, <2>2 DEF FeedAhead
    <3>2. \A n \in DOMAIN B : B[n] = f \/ (n \in DOMAIN st.buf /\ B[n] = st.buf[n])
      OBVIOUS
    <3> HIDE DEF B
    <3>3. states'[f.sid].buf = B /\ (sid # f.sid => states'[sid] = states[sid])
      <4>1. [st EXCEPT !.buf = B] = [epoch |-> st.epoch, next |-> st.next, buf |-> B]
        BY <1>r DEF IsSidReorder
      <4>2. states' = [states EXCEPT ![f.sid] = [st EXCEPT !.buf = B]]
        BY <3>1
      <4> QED
        BY <1>1, <4>1, <4>2
    <3> QED
      BY <1>s, <3>1, <3>2, <3>3 DEF Stored
  <2> QED
    BY <2>1, <2>2
<1>b. Continues(Baseline(f), f) /\ \A n \in DOMAIN Baseline(f).buf : Stored(f.sid, Baseline(f).buf[n])
  <2>1. DOMAIN Baseline(f).buf = {}
    BY EmptySeq DEF Baseline
  <2> QED
    BY <2>1, BaselineContinues
<1>10. CASE FeedOtherEpoch(f)
  <2>1. CASE ~Newer(f.epoch, st.epoch)
    BY <1>3, <1>10, <2>1 DEF FeedOtherEpoch, decoderVars
  <2>2. CASE Newer(f.epoch, st.epoch)
    <3>1. Release(f.sid, Baseline(f), <<f>>) /\ preopen' = preopen
      BY <1>10, <2>2 DEF FeedOtherEpoch
    <3> QED
      BY <1>4, <1>5, <1>b, <3>1
  <2> QED
    BY <2>1, <2>2
<1>11. CASE FeedNoState(f)
  <2>1. CASE DirAccept
    <3>1. Release(f.sid, Baseline(f), <<f>>) /\ preopen' = preopen
      BY <1>11, <2>1 DEF FeedNoState
    <3> QED
      BY <1>4, <1>5, <1>b, <3>1
  <2>2. CASE ~DirAccept /\ ~RoomToStash(preopen[f.sid])
    BY <1>3, <1>11, <2>2 DEF FeedNoState, decoderVars
  <2>3. CASE ~DirAccept /\ RoomToStash(preopen[f.sid])
    <3>1. states' = states /\ got' = got /\ preopen' = [preopen EXCEPT ![f.sid] = Append(@, f)]
      BY <1>11, <2>3 DEF FeedNoState
    <3>2. preopen'[sid] = IF sid = f.sid THEN Append(preopen[f.sid], f) ELSE preopen[sid]
      BY <1>1, <3>1
    <3>3. \A i \in DOMAIN Append(preopen[f.sid], f) :
            Append(preopen[f.sid], f)[i] = f \/ \E j \in DOMAIN preopen[f.sid] : Append(preopen[f.sid], f)[i] = preopen[f.sid][j]
      BY <1>1, InAppend
    <3> QED
      BY <1>s, <3>1, <3>2, <3>3 DEF Stored
  <2> QED
    BY <2>1, <2>2, <2>3
<1> QED
  BY <1>6, <1>7, <1>8, <1>9, <1>10, <1>11 DEF Feed

(* Emit adds its frame to one queue and changes nothing at the decoder. *)
LEMMA EmitKnows ==
  ASSUME SenderTypes, NEW sid \in Sids, NEW ftype \in FrameType, NEW s \in SessionType,
         Emit(sid, ftype, s),
         NEW m, m = [ftype |-> ftype, sid |-> sid,
                     epoch |-> SeqField(session_tx[sid], epoch_ctr, ftype).epoch,
                     sseq |-> SeqField(session_tx[sid], epoch_ctr, ftype).seq,
                     gen |-> s.gen, pos |-> s.pos],
         NEW x \in Sids, NEW h, Known(x, h)'
  PROVE  Known(x, h) \/ (x = sid /\ h = m)
<1>1. /\ relq \in Seq(Frame) /\ prioq \in Seq(Frame)
  BY DEF SenderTypes
<1>2. m \in Frame
  <2>1. LET fld == SeqField(session_tx[sid], epoch_ctr, ftype)
        IN  fld.epoch \in Epochs /\ fld.seq \in Seqs
    BY SeqFieldFits
  <2> QED
    BY <2>1 DEF Frame, SessionType
<1>3. m.sid = sid
  OBVIOUS
<1>4. /\ relq' = relq \/ relq' = Append(relq, m)
      /\ prioq' = prioq \/ prioq' = Append(prioq, m)
      /\ net' = net /\ preopen' = preopen /\ states' = states /\ got' = got
  BY DEF Emit, decoderVars
<1>5. /\ \A i \in DOMAIN relq' : relq'[i] = m \/ \E j \in DOMAIN relq : relq'[i] = relq[j]
      /\ \A i \in DOMAIN prioq' : prioq'[i] = m \/ \E j \in DOMAIN prioq : prioq'[i] = prioq[j]
  <2>1. \A q \in Seq(Frame) : \A i \in DOMAIN Append(q, m) :
          Append(q, m)[i] = m \/ \E j \in DOMAIN q : Append(q, m)[i] = q[j]
    BY <1>2, InAppend
  <2>2. /\ \A i \in DOMAIN Append(relq, m) :
             Append(relq, m)[i] = m \/ \E j \in DOMAIN relq : Append(relq, m)[i] = relq[j]
        /\ \A i \in DOMAIN Append(prioq, m) :
             Append(prioq, m)[i] = m \/ \E j \in DOMAIN prioq : Append(prioq, m)[i] = prioq[j]
    BY <1>1, <2>1
  <2>3. \A i \in DOMAIN relq' : relq'[i] = m \/ \E j \in DOMAIN relq : relq'[i] = relq[j]
    <3>1. CASE relq' = relq
      BY <3>1, Zenon
    <3>2. CASE relq' = Append(relq, m)
      BY <2>2, <3>2, Zenon
    <3> QED
      BY <1>4, <3>1, <3>2
  <2>4. \A i \in DOMAIN prioq' : prioq'[i] = m \/ \E j \in DOMAIN prioq : prioq'[i] = prioq[j]
    <3>1. CASE prioq' = prioq
      BY <3>1, Zenon
    <3>2. CASE prioq' = Append(prioq, m)
      BY <2>2, <3>2, Zenon
    <3> QED
      BY <1>4, <3>1, <3>2
  <2> QED
    BY <2>3, <2>4
<1>6. CASE Stored(x, h)'
  BY <1>4, <1>6 DEF Stored, Known
<1>7. CASE Queued(x, h)'
  <2>1. /\ h.sid = x
        /\ \/ \E i \in DOMAIN relq' : h = relq'[i]
           \/ \E i \in DOMAIN prioq' : h = prioq'[i]
           \/ \E i \in DOMAIN net' : h = net'[i]
    BY <1>7, Zenon DEF Queued
  <2>2. CASE h = m
    BY <1>3, <2>1, <2>2
  <2>3. CASE h # m
    <3>1. \/ \E i \in DOMAIN relq : h = relq[i]
          \/ \E i \in DOMAIN prioq : h = prioq[i]
          \/ \E i \in DOMAIN net : h = net[i]
      BY <1>4, <1>5, <2>1, <2>3
    <3> QED
      BY <2>1, <3>1 DEF Queued, Known
  <2> QED
    BY <2>2, <2>3
<1> QED
  BY <1>6, <1>7 DEF Known

(* Every step numbers a frame, or leaves the numbering alone and knows no  *)
(* frame that was not known before.                                        *)
NumbersNothing ==
  /\ UNCHANGED <<session_tx, epoch_ctr>>
  /\ \A sid \in Sids : session[sid].gen <= session'[sid].gen
  /\ \A sid \in Sids, h \in Frame : Known(sid, h)' => Known(sid, h)

LEMMA StepNumbers ==
  ASSUME SenderTypes, DecoderTables, [Next]_vars
  PROVE  \/ NumbersNothing
         \/ \E sid \in Sids, ftype \in FrameType, s \in SessionType :
              session[sid].gen <= s.gen /\ Emit(sid, ftype, s)
<1>0. /\ relq \in Seq(Frame) /\ prioq \in Seq(Frame) /\ net \in Seq(Frame)
      /\ \A sid \in Sids : session[sid] \in SessionType /\ session[sid].gen \in Nat
  BY DEF SenderTypes, SessionType
<1>1. ASSUME NEW sid \in Sids, NEW udp \in {FALSE, UdpReliable},
             OpenSession(sid, udp) \/ AcceptSession(sid, udp)
      PROVE  \/ NumbersNothing
             \/ \E t \in Sids, ftype \in FrameType, s \in SessionType :
                  session[t].gen <= s.gen /\ Emit(t, ftype, s)
  <2>1. NewSession(sid, udp) \in SessionType
    <3>1. udp \in BOOLEAN
      BY MuxAssumption, Zenon
    <3>2. session[sid].gen + 1 \in Nat
      BY <1>0
    <3> QED
      BY <3>1, <3>2 DEF NewSession, SessionType
  <2>2. NewSession(sid, udp).gen = session[sid].gen + 1 /\ session[sid].gen <= session[sid].gen + 1
    BY <1>0 DEF NewSession
  <2>3. CASE OpenSession(sid, udp)
    BY <2>1, <2>2, <2>3 DEF OpenSession, FrameType
  <2>4. CASE AcceptSession(sid, udp)
    <3>1. /\ session' = [session EXCEPT ![sid] = NewSession(sid, udp)]
          /\ UNCHANGED <<session_tx, epoch_ctr, relq, prioq, net, states, preopen, got>>
      BY <2>4 DEF AcceptSession, threadVars, decoderVars
    <3>2. \A t \in Sids : session'[t].gen = session[t].gen \/ session'[t].gen = session[t].gen + 1
      BY <2>2, <3>1 DEF SenderTypes
    <3>3. \A t \in Sids : session[t].gen <= session'[t].gen
      BY <1>0, <3>2
    <3>4. \A t \in Sids, h \in Frame : Known(t, h)' => Known(t, h)
      BY <3>1 DEF Known, Queued, Stored
    <3> QED
      BY <3>1, <3>3, <3>4 DEF NumbersNothing
  <2> QED
    BY <1>1, <2>3, <2>4
<1>2. ASSUME NEW sid \in Sids, SendData(sid) \/ SendFin(sid) \/ SendClose(sid)
      PROVE  \E t \in Sids, ftype \in FrameType, s \in SessionType :
               session[t].gen <= s.gen /\ Emit(t, ftype, s)
  <2>1. /\ session[sid] \in SessionType /\ session[sid].gen <= session[sid].gen
        /\ [session[sid] EXCEPT !.phase = "fin"] \in SessionType
        /\ [session[sid] EXCEPT !.phase = "idle"] \in SessionType
    BY <1>0 DEF SessionType
  <2>2. /\ [session[sid] EXCEPT !.phase = "fin"].gen = session[sid].gen
        /\ [session[sid] EXCEPT !.phase = "idle"].gen = session[sid].gen
    BY <1>0 DEF SessionType
  <2>3. CASE SendData(sid)
    BY <2>1, <2>3 DEF SendData, FrameType
  <2>4. CASE SendFin(sid)
    BY <2>1, <2>2, <2>4 DEF SendFin, FrameType
  <2>5. CASE SendClose(sid)
    BY <2>1, <2>2, <2>5 DEF SendClose, FrameType
  <2> QED
    BY <1>2, <2>3, <2>4, <2>5
<1>3. ASSUME UNCHANGED <<session, session_tx, epoch_ctr>>,
             \A sid \in Sids, h \in Frame : Known(sid, h)' => Known(sid, h)
      PROVE  NumbersNothing
  BY <1>0, <1>3 DEF NumbersNothing
<1>4. CASE SendThread
  <2>1. UNCHANGED <<session, session_tx, epoch_ctr, states, preopen, got>>
    BY <1>4 DEF SendThread, SendPrio, PrioDrained, SendRel, RelTimeout, senderVars, decoderVars
  <2>2. ASSUME NEW q \in Seq(Frame), q # <<>>
        PROVE  /\ \A i \in DOMAIN Tail(q) : \E j \in DOMAIN q : Tail(q)[i] = q[j]
               /\ \A i \in DOMAIN Append(net, Head(q)) :
                    \/ \E j \in DOMAIN q : Append(net, Head(q))[i] = q[j]
                    \/ \E j \in DOMAIN net : Append(net, Head(q))[i] = net[j]
    <3>1. Head(q) \in Frame /\ Head(q) = q[1] /\ 1 \in DOMAIN q
          /\ \A i \in DOMAIN Tail(q) : i + 1 \in DOMAIN q /\ Tail(q)[i] = q[i + 1]
      BY <2>2, InTail
    <3>2. \A i \in DOMAIN Append(net, Head(q)) :
            Append(net, Head(q))[i] = Head(q) \/ \E j \in DOMAIN net : Append(net, Head(q))[i] = net[j]
      BY <1>0, <3>1, InAppend
    <3> QED
      BY <3>1, <3>2
  <2>3. ASSUME NEW sid \in Sids, NEW h, Queued(sid, h)' PROVE Queued(sid, h)
    <3>1. CASE SendPrio
      BY <1>0, <2>2, <2>3, <3>1 DEF SendPrio, Queued
    <3>2. CASE SendRel
      BY <1>0, <2>2, <2>3, <3>2 DEF SendRel, Queued
    <3>3. CASE PrioDrained \/ RelTimeout
      BY <2>3, <3>3 DEF PrioDrained, RelTimeout, Queued
    <3> QED
      BY <1>4, <3>1, <3>2, <3>3 DEF SendThread
  <2>4. \A sid \in Sids, h \in Frame : Known(sid, h)' => Known(sid, h)
    BY <2>1, <2>3 DEF Known, Stored
  <2> QED
    BY <1>3, <2>1, <2>4
<1>5. ASSUME NEW i \in Arrivable, Receive(i) \/ ReceiveCopy(i)
      PROVE  NumbersNothing
  <2>1. i \in DOMAIN net /\ net[i] \in Frame /\ net[i].sid \in Sids
    <3>1. i \in DOMAIN net
      BY DEF Arrivable
    <3> QED
      BY <1>0, <3>1, ElementOfSeq, FrameFields
  <2>2. /\ Feed(net[i]) /\ UNCHANGED <<session, session_tx, epoch_ctr, relq, prioq>>
        /\ net' = net \/ net' = RemoveAt(net, i)
    BY <1>5 DEF Receive, ReceiveCopy, senderVars, threadVars
  <2>3. \A j \in DOMAIN net' : \E k \in DOMAIN net : net'[j] = net[k]
    <3>1. CASE net' = net
      BY <3>1
    <3>2. CASE net' = RemoveAt(net, i)
      <4>1. /\ Len(net') = Len(net) - 1 /\ net' \in Seq(Frame) /\ Len(net) \in Nat
            /\ \A j \in 1 .. (Len(net) - 1) : net'[j] = IF j < i THEN net[j] ELSE net[j + 1]
        BY <1>0, <2>1, <3>2, InRemoveAt, RemoveAtType, SMTT(30)
      <4>2. DOMAIN net' = 1 .. (Len(net) - 1) /\ DOMAIN net = 1 .. Len(net)
        BY <1>0, <4>1
      <4>3. \A j \in 1 .. (Len(net) - 1) : j \in 1 .. Len(net) /\ j + 1 \in 1 .. Len(net)
        BY <4>1
      <4> QED
        BY <4>1, <4>2, <4>3
    <3> QED
      BY <2>2, <3>1, <3>2
  <2>4. ASSUME NEW sid \in Sids, NEW h, Queued(sid, h)' PROVE Queued(sid, h)
    BY <2>2, <2>3, <2>4 DEF Queued
  <2>5. ASSUME NEW sid \in Sids, NEW h, Stored(sid, h)' PROVE Known(sid, h)
    <3>1. Stored(sid, h) \/ (sid = net[i].sid /\ h = net[i])
      BY <2>1, <2>2, <2>5, FeedStores
    <3> QED
      BY <2>1, <3>1 DEF Known, Queued
  <2>6. \A sid \in Sids, h \in Frame : Known(sid, h)' => Known(sid, h)
    BY <2>4, <2>5 DEF Known
  <2> QED
    BY <1>3, <2>2, <2>6
<1>6. CASE UNCHANGED vars
  <2>1. UNCHANGED <<session, session_tx, epoch_ctr, relq, prioq, net, states, preopen, got>>
    BY <1>6 DEF vars
  <2>2. \A sid \in Sids, h \in Frame : Known(sid, h)' => Known(sid, h)
    BY <2>1 DEF Known, Queued, Stored
  <2> QED
    BY <1>3, <2>1, <2>2
<1> QED
  BY <1>1, <1>2, <1>4, <1>5, <1>6 DEF Next

(* A frame numbered before half of the ring is used up comes after all     *)
(* that its sid sent before.                                               *)
LEMMA FieldIsLater ==
  ASSUME SenderTypes, NEW sid \in Sids, session_tx[sid].epoch <= epoch_ctr,
         epoch_ctr < EPOCH_MOD \div 2, NEW ftype,
         NEW fld, fld = SeqField(session_tx[sid], epoch_ctr, ftype),
         NEW c, c = IF NeedsEpoch(session_tx[sid], ftype)
                    THEN (epoch_ctr + 1) % EPOCH_MOD ELSE epoch_ctr
  PROVE  /\ epoch_ctr <= c /\ fld.epoch <= c /\ c \in Nat
         /\ \/ fld.epoch = session_tx[sid].epoch /\ fld.seq = session_tx[sid].seq
            \/ fld.epoch > session_tx[sid].epoch /\ fld.seq = 0
<1>1. /\ session_tx[sid] \in [epoch : 0 .. (EPOCH_MOD - 1), seq : 0 .. SEQ_MASK]
      /\ epoch_ctr \in Nat /\ EPOCH_MOD \in Nat /\ EPOCH_MOD > 2
  BY MuxAssumption DEF SenderTypes
<1>2. epoch_ctr + 1 < EPOCH_MOD /\ epoch_ctr < EPOCH_MOD - 1 /\ session_tx[sid].epoch \in Nat
  BY <1>1
<1>3. (epoch_ctr + 1) % EPOCH_MOD = epoch_ctr + 1 /\ epoch_ctr % (EPOCH_MOD - 1) = epoch_ctr
  BY <1>1, <1>2
<1>4. CASE NeedsEpoch(session_tx[sid], ftype)
  <2>1. fld.epoch = epoch_ctr + 1 /\ fld.seq = 0 /\ c = epoch_ctr + 1
    BY <1>3, <1>4 DEF SeqField, AllocEpoch
  <2> QED
    BY <1>1, <1>2, <2>1
<1>5. CASE ~NeedsEpoch(session_tx[sid], ftype)
  <2>1. fld = session_tx[sid] /\ c = epoch_ctr
    BY <1>5 DEF SeqField
  <2> QED
    BY <1>1, <1>2, <2>1
<1> QED
  BY <1>4, <1>5

(* The parts of NumberInv, for one sid. *)
NumbersOf(sid) ==
  /\ session_tx[sid].epoch <= epoch_ctr
  /\ \A f \in Frame : Known(sid, f) =>
       /\ Numbered(session_tx[sid].epoch, session_tx[sid].seq, f.epoch, f.sseq)
       /\ f.gen <= session[sid].gen
  /\ \A f, g \in Frame : Known(sid, f) /\ Known(sid, g) =>
       (Numbered(g.epoch, g.sseq, f.epoch, f.sseq) => f.gen <= g.gen)

LEMMA NumberInit == Init => NumberInv
<1> SUFFICES ASSUME Init, NEW sid \in Sids PROVE NumbersOf(sid)
  BY DEF NumberInv, NumbersOf
<1>1. session_tx[sid].epoch <= epoch_ctr
  BY DEF Init
<1>2. /\ relq = <<>> /\ prioq = <<>> /\ net = <<>> /\ preopen[sid] = <<>>
      /\ got[sid] = <<>> /\ states[sid].buf = <<>> /\ DOMAIN <<>> = {}
  BY EmptySeq DEF Init, NoState
<1>3. \A f \in Frame : ~Known(sid, f)
  BY <1>2 DEF Known, Queued, Stored
<1> QED
  BY <1>1, <1>3 DEF NumbersOf

LEMMA NumberNext ==
  ASSUME SenderTypes, SenderTypes', DecoderTables, NumberInv, epoch_ctr < EPOCH_MOD \div 2, [Next]_vars
  PROVE  NumberInv'
<1> SUFFICES ASSUME NEW x \in Sids PROVE NumbersOf(x)'
  BY DEF NumberInv, NumbersOf
<1>0. /\ \A t \in Sids : /\ session_tx[t].epoch \in Nat /\ session_tx[t].seq \in Nat
                         /\ session[t].gen \in Nat
      /\ epoch_ctr \in Nat
      /\ \A f \in Frame : f.epoch \in Nat /\ f.sseq \in Nat /\ f.gen \in Nat
      /\ \A t \in Sids : session'[t].gen \in Nat
  <2>1. /\ \A t \in Sids : /\ session_tx[t].epoch \in Nat /\ session_tx[t].seq \in Nat
                           /\ session[t].gen \in Nat
        /\ epoch_ctr \in Nat
    <3>1. \A t \in Sids : session_tx[t].epoch \in Nat /\ session_tx[t].seq \in Nat
      <4>1. session_tx \in [Sids -> [epoch : 0 .. (EPOCH_MOD - 1), seq : 0 .. SEQ_MASK]]
        BY DEF SenderTypes
      <4> QED
        BY <4>1
    <3>2. \A t \in Sids : session[t].gen \in Nat
      BY DEF SenderTypes, SessionType
    <3>3. epoch_ctr \in Nat
      BY MuxAssumption DEF SenderTypes
    <3> QED
      BY <3>1, <3>2, <3>3
  <2>2. \A f \in Frame : f.epoch \in Nat /\ f.sseq \in Nat /\ f.gen \in Nat
    BY DEF Frame, Epochs, Seqs
  <2>3. \A t \in Sids : session'[t].gen \in Nat
    <3>1. session' \in [Sids -> SessionType]
      BY DEF SenderTypes
    <3> QED
      BY <3>1 DEF SessionType
  <2> QED
    BY <2>1, <2>2, <2>3
<1>1. NumbersOf(x)
  BY DEF NumberInv, NumbersOf
<1>2. CASE NumbersNothing
  <2>1. /\ session_tx' = session_tx /\ epoch_ctr' = epoch_ctr /\ session[x].gen <= session'[x].gen
        /\ \A h \in Frame : Known(x, h)' => Known(x, h)
    BY <1>2 DEF NumbersNothing
  <2>2. ASSUME NEW f \in Frame, Known(x, f)'
        PROVE  /\ Numbered(session_tx'[x].epoch, session_tx'[x].seq, f.epoch, f.sseq)
               /\ f.gen <= session'[x].gen
    <3>1. /\ Numbered(session_tx[x].epoch, session_tx[x].seq, f.epoch, f.sseq)
          /\ f.gen <= session[x].gen
      BY <1>1, <2>1, <2>2 DEF NumbersOf
    <3> QED
      BY <1>0, <2>1, <3>1
  <2>3. \A f, g \in Frame : Known(x, f)' /\ Known(x, g)' =>
          (Numbered(g.epoch, g.sseq, f.epoch, f.sseq) => f.gen <= g.gen)
    BY <1>1, <2>1 DEF NumbersOf
  <2>4. session_tx'[x].epoch <= epoch_ctr'
    BY <1>1, <2>1 DEF NumbersOf
  <2> QED
    BY <2>2, <2>3, <2>4 DEF NumbersOf, Numbered
<1>3. ASSUME NEW sid \in Sids, NEW ftype \in FrameType, NEW s \in SessionType,
             session[sid].gen <= s.gen, Emit(sid, ftype, s)
      PROVE  NumbersOf(x)'
  <2> DEFINE fd == SeqField(session_tx[sid], epoch_ctr, ftype)
  <2>1. /\ session' = [session EXCEPT ![sid] = [s EXCEPT !.pos = @ + 1]]
        /\ session_tx' = [session_tx EXCEPT ![sid] = [fd EXCEPT !.seq = @ + 1]]
        /\ epoch_ctr' = IF NeedsEpoch(session_tx[sid], ftype)
                        THEN (epoch_ctr + 1) % EPOCH_MOD ELSE epoch_ctr
    BY <1>3 DEF Emit
  <2>2. fd = [epoch |-> fd.epoch, seq |-> fd.seq] /\ fd.epoch \in Epochs /\ fd.seq \in Seqs
    BY SeqFieldFits
  <2>3. /\ epoch_ctr <= epoch_ctr' /\ fd.epoch <= epoch_ctr' /\ epoch_ctr' \in Nat
        /\ \/ fd.epoch = session_tx[sid].epoch /\ fd.seq = session_tx[sid].seq
           \/ fd.epoch > session_tx[sid].epoch /\ fd.seq = 0
    <3>1. session_tx[sid].epoch <= epoch_ctr
      BY DEF NumberInv
    <3>2. PICK c : c = IF NeedsEpoch(session_tx[sid], ftype)
                       THEN (epoch_ctr + 1) % EPOCH_MOD ELSE epoch_ctr
      OBVIOUS
    <3>3. /\ epoch_ctr <= c /\ fd.epoch <= c /\ c \in Nat
          /\ \/ fd.epoch = session_tx[sid].epoch /\ fd.seq = session_tx[sid].seq
             \/ fd.epoch > session_tx[sid].epoch /\ fd.seq = 0
      BY <3>1, <3>2, FieldIsLater
    <3> QED
      BY <2>1, <3>2, <3>3
  <2>4. PICK m : m = [ftype |-> ftype, sid |-> sid, epoch |-> fd.epoch, sseq |-> fd.seq,
                      gen |-> s.gen, pos |-> s.pos]
    OBVIOUS
  <2>5. \A h \in Frame : Known(x, h)' => Known(x, h) \/ (x = sid /\ h = m)
    BY <1>3, <2>4, EmitKnows
  <2> HIDE DEF fd
  <2>6. m.epoch = fd.epoch /\ m.sseq = fd.seq /\ m.gen = s.gen /\ s.gen \in Nat
        /\ fd.epoch \in Nat /\ fd.seq \in Nat
    BY <2>2, <2>4 DEF SessionType, Epochs, Seqs
  <2>7. CASE x # sid
    <3>1. session'[x] = session[x] /\ session_tx'[x] = session_tx[x]
      BY <2>1, <2>7 DEF SenderTypes
    <3>2. \A h \in Frame : Known(x, h)' => Known(x, h)
      BY <2>5, <2>7
    <3>3. session_tx[x].epoch <= epoch_ctr'
      BY <1>0, <1>1, <2>3 DEF NumbersOf
    <3> QED
      BY <1>1, <3>1, <3>2, <3>3 DEF NumbersOf, Numbered
  <2>8. CASE x = sid
    <3>1. /\ session'[x].gen = s.gen
          /\ session_tx'[x].epoch = fd.epoch /\ session_tx'[x].seq = fd.seq + 1
      <4>1. [fd EXCEPT !.seq = @ + 1] = [epoch |-> fd.epoch, seq |-> fd.seq + 1]
        BY <2>2
      <4>2. session_tx'[x] = [epoch |-> fd.epoch, seq |-> fd.seq + 1]
        BY <2>1, <2>8, <4>1 DEF SenderTypes
      <4>3. session'[x] = [s EXCEPT !.pos = @ + 1]
        BY <2>1, <2>8 DEF SenderTypes
      <4>4. [s EXCEPT !.pos = @ + 1].gen = s.gen
        BY DEF SessionType
      <4> QED
        BY <4>2, <4>3, <4>4
    <3>2. ASSUME NEW f \in Frame, Known(x, f)
          PROVE  Numbered(fd.epoch, fd.seq, f.epoch, f.sseq) /\ f.gen <= s.gen
      <4>1. Numbered(session_tx[x].epoch, session_tx[x].seq, f.epoch, f.sseq) /\ f.gen <= session[x].gen
        BY <1>1, <3>2 DEF NumbersOf
      <4> QED
        BY <1>0, <1>3, <2>3, <2>6, <2>8, <4>1 DEF Numbered
    <3>3. ASSUME NEW f \in Frame, Known(x, f)'
          PROVE  Numbered(fd.epoch, fd.seq + 1, f.epoch, f.sseq) /\ f.gen <= s.gen
      <4>1. CASE f = m
        BY <2>6, <4>1 DEF Numbered
      <4>2. CASE f # m
        <5>1. Numbered(fd.epoch, fd.seq, f.epoch, f.sseq) /\ f.gen <= s.gen
          BY <2>5, <3>2, <3>3, <4>2
        <5> QED
          BY <1>0, <2>6, <5>1 DEF Numbered
      <4> QED
        BY <4>1, <4>2
    <3>4. ASSUME NEW f \in Frame, NEW g \in Frame, Known(x, f)', Known(x, g)',
                 Numbered(g.epoch, g.sseq, f.epoch, f.sseq)
          PROVE  f.gen <= g.gen
      <4>1. CASE g = m
        BY <2>6, <3>3, <3>4, <4>1
      <4>2. CASE g # m /\ f = m
        <5>1. Numbered(fd.epoch, fd.seq, g.epoch, g.sseq)
          BY <2>5, <3>2, <3>4, <4>2
        <5> QED
          BY <1>0, <2>6, <3>4, <4>2, <5>1 DEF Numbered
      <4>3. CASE g # m /\ f # m
        <5>1. Known(x, f) /\ Known(x, g)
          BY <2>5, <3>4, <4>3
        <5> QED
          BY <1>1, <3>4, <5>1 DEF NumbersOf
      <4> QED
        BY <4>1, <4>2, <4>3
    <3>5. session_tx'[x].epoch <= epoch_ctr'
      BY <2>3, <3>1
    <3>6. \A f \in Frame : Known(x, f)' =>
            /\ Numbered(session_tx'[x].epoch, session_tx'[x].seq, f.epoch, f.sseq)
            /\ f.gen <= session'[x].gen
      BY <3>1, <3>3
    <3> QED
      BY <3>4, <3>5, <3>6 DEF NumbersOf, Numbered
  <2> QED
    BY <2>7, <2>8
<1> QED
  BY <1>2, <1>3, StepNumbers

(* Distances on a ring. *)
LEMMA OnceAroundTheRing ==
  \A e, d \in Nat : e < d /\ d < EPOCH_MOD => (e - d) % EPOCH_MOD = e - d + EPOCH_MOD
<1>1. EPOCH_MOD \in Nat
  BY MuxAssumption
<1>2. ASSUME NEW e \in Nat, NEW d \in Nat, NEW m \in Nat, e < d, d < m
      PROVE  (e - d) % m = e - d + m
  BY <1>2
<1> SUFFICES ASSUME NEW e \in Nat, NEW d \in Nat, e < d, d < EPOCH_MOD
             PROVE  (e - d) % EPOCH_MOD = e - d + EPOCH_MOD
  OBVIOUS
<1> QED
  BY <1>1, <1>2, Zenon

(* Frames of an earlier session on a sid never follow frames of a later    *)
(* one, except by way of an Open, as long as the connection has used up    *)
(* less than half of the ring of epochs (127 sessions and rollovers): the  *)
(* comparison of epochs modulo 256 in feed then orders the frames of a sid *)
(* as they were numbered, in whatever order they were queued and arrive.   *)
THEOREM NoStaleSession ==
  Spec /\ [](epoch_ctr < EPOCH_MOD \div 2) => []NoStaleGeneration
<1> DEFINE Early == epoch_ctr < EPOCH_MOD \div 2
<1>1. DecoderInv /\ NumberInv /\ Early => NoStaleGeneration
  <2> SUFFICES ASSUME SenderTypes, DecoderTables, NumberInv, Early, NEW sid \in Sids,
                      NEW i \in 1 .. (Len(got[sid]) - 1), got[sid][i + 1].ftype # "Open"
               PROVE  got[sid][i].gen <= got[sid][i + 1].gen
    BY InvSplits DEF NoStaleGeneration
  <2>1. got[sid] \in Seq(Frame) /\ Len(got[sid]) \in Nat /\ DOMAIN got[sid] = 1 .. Len(got[sid])
    BY DEF DecoderTables
  <2>2. PICK f : f = got[sid][i]
    OBVIOUS
  <2>3. PICK g : g = got[sid][i + 1]
    OBVIOUS
  <2>4. i \in DOMAIN got[sid] /\ i + 1 \in DOMAIN got[sid]
    BY <2>1
  <2>5. f \in Frame /\ g \in Frame /\ Known(sid, f) /\ Known(sid, g)
    BY <2>1, <2>2, <2>3, <2>4, ElementOfSeq DEF Known, Stored
  <2>6. Follows(f, g) /\ g.ftype # "Open"
    BY <2>2, <2>3 DEF DecoderTables, GapFree
  <2>7. /\ f.epoch \in Nat /\ g.epoch \in Nat /\ f.sseq \in Nat /\ g.sseq \in Nat
        /\ EPOCH_MOD \in Nat /\ EPOCH_MOD > 2 /\ EPOCH_MOD \div 2 \in Nat
        /\ epoch_ctr \in Nat /\ session_tx[sid].epoch \in Nat /\ session_tx[sid].seq \in Nat
    <3>1. f.epoch \in Nat /\ g.epoch \in Nat /\ f.sseq \in Nat /\ g.sseq \in Nat
      BY <2>5, FrameFields
    <3>2. EPOCH_MOD \in Nat /\ EPOCH_MOD > 2 /\ EPOCH_MOD \div 2 \in Nat
      BY MuxAssumption
    <3>3. epoch_ctr \in Nat /\ session_tx[sid].epoch \in Nat /\ session_tx[sid].seq \in Nat
      BY DEF SenderTypes
    <3> QED
      BY <3>1, <3>2, <3>3
  <2>8. f.epoch < EPOCH_MOD \div 2 /\ g.epoch < EPOCH_MOD \div 2
    <3>1. /\ session_tx[sid].epoch <= epoch_ctr
          /\ Numbered(session_tx[sid].epoch, session_tx[sid].seq, f.epoch, f.sseq)
          /\ Numbered(session_tx[sid].epoch, session_tx[sid].seq, g.epoch, g.sseq)
      BY <2>5 DEF NumberInv
    <3> QED
      BY <2>7, <3>1, SMTT(30) DEF Numbered
  <2>9. Numbered(g.epoch, g.sseq, f.epoch, f.sseq)
    <3>1. CASE g.epoch = f.epoch /\ g.sseq = f.sseq + 1
      BY <2>7, <3>1 DEF Numbered
    <3>2. CASE g.epoch # f.epoch /\ Newer(g.epoch, f.epoch)
      <4>1. g.epoch < f.epoch => (g.epoch - f.epoch) % EPOCH_MOD = g.epoch - f.epoch + EPOCH_MOD
        <5>1. f.epoch < EPOCH_MOD
          BY <2>7, <2>8
        <5>2. PICK e, d \in Nat : e = g.epoch /\ d = f.epoch
          BY <2>7
        <5>3. e < d => (e - d) % EPOCH_MOD = e - d + EPOCH_MOD
          BY <5>1, <5>2, OnceAroundTheRing
        <5> QED
          BY <5>2, <5>3
      <4>2. (g.epoch - f.epoch) % EPOCH_MOD < EPOCH_MOD \div 2
        BY <3>2 DEF Newer
      <4>3. ~(g.epoch < f.epoch)
        BY <2>7, <2>8, <4>1, <4>2
      <4> QED
        BY <2>7, <3>2, <4>3 DEF Numbered
    <3> QED
      BY <2>6, <3>1, <3>2 DEF Follows
  <2>10. f.gen <= g.gen
    BY <2>5, <2>9 DEF NumberInv
  <2> QED
    BY <2>2, <2>3, <2>10
<1>2. DecoderInv /\ DecoderInv' /\ NumberInv /\ Early /\ [Next]_vars => NumberInv'
  <2> SUFFICES ASSUME DecoderInv, DecoderInv', NumberInv, Early, [Next]_vars PROVE NumberInv'
    OBVIOUS
  <2>1. SenderTypes /\ DecoderTables
    BY InvSplits
  <2>2. SenderTypes'
    BY DEF DecoderInv, TypeOK, SenderTypes, SessionType
  <2> QED
    BY <2>1, <2>2, NumberNext
<1> HIDE DEF Early
<1>3. Spec /\ []Early => []NoStaleGeneration
  BY <1>1, <1>2, NumberInit, DecoderInvariant, PTL DEF Spec
<1> QED
  BY <1>3 DEF Early

-----------------------------------------------------------------------------
(* One session on each sid.                                                *)

(* The first session of a sid in the opener's direction, short enough not  *)
(* to use up its sequence numbers. *)
OneSession == ~DirAccept /\ MaxGen <= 1 /\ MaxData + 2 < SEQ_MASK

(* The session, and its epoch and numbers at the encoder, which are the    *)
(* positions of its frames.                                                *)
SessionNumbers(x) ==
  /\ session[x].gen <= 1
  /\ session[x].gen = 0 => session[x].phase = "idle" /\ session[x].pos = 0
  /\ session[x].gen = 1 => /\ session_tx[x].epoch # 0 /\ session[x].pos >= 1
                           /\ session_tx[x].seq = session[x].pos
  /\ session[x].phase = "open" => session[x].pos <= MaxData + 1
  /\ session[x].phase = "fin" => session[x].pos <= MaxData + 2

(* Its frames, wherever they are. *)
OfSession(x, f) ==
  /\ session[x].gen = 1 /\ f.gen = 1 /\ f.epoch = session_tx[x].epoch
  /\ f.sseq = f.pos /\ f.pos < session[x].pos
  /\ f.ftype = "Open" <=> f.pos = 0
FrameNumbers(x) == \A f \in Frame : Known(x, f) => OfSession(x, f)

(* Its Open is queued or in flight at most once, and gone once anything    *)
(* was delivered.                                                          *)
IsOpen(x, f) == f.sid = x /\ f.ftype = "Open"
SingleOpen(x) ==
  /\ \A i \in DOMAIN prioq : ~IsOpen(x, prioq[i])
  /\ \A i, j \in DOMAIN relq : IsOpen(x, relq[i]) /\ IsOpen(x, relq[j]) => i = j
  /\ \A i, j \in DOMAIN net : IsOpen(x, net[i]) /\ IsOpen(x, net[j]) => i = j
  /\ \A i \in DOMAIN relq, j \in DOMAIN net : ~(IsOpen(x, relq[i]) /\ IsOpen(x, net[j]))
  /\ got[x] # <<>> => /\ \A i \in DOMAIN relq : ~IsOpen(x, relq[i])
                      /\ \A i \in DOMAIN net : ~IsOpen(x, net[i])

(* The stash holds what came before the Open, and the frames delivered are *)
(* the first, the second, the third...                                     *)
StashedBefore(x) ==
  /\ \A i \in DOMAIN preopen[x] : preopen[x][i].ftype # "Open"
  /\ got[x] # <<>> => preopen[x] = <<>>
Consecutive(x) == \A i \in DOMAIN got[x] : got[x][i].sseq = i - 1

OneInv ==
  \A x \in Sids :
    SessionNumbers(x) /\ FrameNumbers(x) /\ SingleOpen(x) /\ StashedBefore(x) /\ Consecutive(x)

(* The kinds of steps: a session sends its next frame m, the send thread   *)
(* moves a frame or none, a message arrives.                               *)
Sends(sid, m) ==
  /\ m \in Frame /\ m.sid = sid /\ OfSession(sid, m)'
  /\ m.pos = session[sid].pos /\ session'[sid].pos = m.pos + 1
  /\ session[sid].gen = 1 => m.epoch = session_tx[sid].epoch
  /\ session[sid].gen = 0 => m.pos = 0
  /\ SessionNumbers(sid)'
  /\ \A x \in Sids : x # sid => session'[x] = session[x] /\ session_tx'[x] = session_tx[x]
  /\ \/ relq' = Append(relq, m) /\ prioq' = prioq
     \/ m.ftype # "Open" /\ relq' = relq /\ prioq' = Append(prioq, m)
  /\ UNCHANGED <<net, states, preopen, got>>
Moves ==
  /\ UNCHANGED <<session, session_tx, states, preopen, got>>
  /\ \/ relq # <<>> /\ net' = Append(net, Head(relq)) /\ relq' = Tail(relq) /\ prioq' = prioq
     \/ prioq # <<>> /\ net' = Append(net, Head(prioq)) /\ prioq' = Tail(prioq) /\ relq' = relq
     \/ UNCHANGED <<relq, prioq, net>>
Arrives(i) ==
  /\ i \in DOMAIN net /\ net[i] \in Frame /\ Feed(net[i])
  /\ UNCHANGED <<session, session_tx, relq, prioq>>
  /\ net' = RemoveAt(net, i) \/ (net' = net /\ net[i].ftype # "Open")

(* Emit, in the terms of the session: it takes a new epoch for the Open    *)
(* and for no other frame.                                                 *)
LEMMA EmitSends ==
  ASSUME OneSession, SenderTypes, NEW sid \in Sids, NEW ftype \in FrameType, NEW s \in SessionType,
         Emit(sid, ftype, s), s.gen = 1, SessionNumbers(sid),
         \/ ftype = "Open" /\ session[sid].gen = 0 /\ s.pos = 0 /\ s.phase = "open"
         \/ /\ ftype # "Open" /\ session[sid].gen = 1 /\ s.pos = session[sid].pos
            /\ s.pos <= MaxData + 2
            /\ s.phase = "open" => s.pos <= MaxData
            /\ s.phase = "fin" => s.pos <= MaxData + 1
  PROVE  \E m : Sends(sid, m)
<1> DEFINE fd == SeqField(session_tx[sid], epoch_ctr, ftype)
<1>1. PICK m : m = [ftype |-> ftype, sid |-> sid, epoch |-> fd.epoch, sseq |-> fd.seq,
                    gen |-> s.gen, pos |-> s.pos]
  OBVIOUS
<1>2. /\ session' = [session EXCEPT ![sid] = [s EXCEPT !.pos = @ + 1]]
      /\ session_tx' = [session_tx EXCEPT ![sid] = [fd EXCEPT !.seq = @ + 1]]
      /\ UNCHANGED <<net, states, preopen, got>>
      /\ \/ relq' = Append(relq, m) /\ prioq' = prioq
         \/ m.ftype # "Open" /\ relq' = relq /\ prioq' = Append(prioq, m)
  <2>1. /\ session' = [session EXCEPT ![sid] = [s EXCEPT !.pos = @ + 1]]
        /\ session_tx' = [session_tx EXCEPT ![sid] = [fd EXCEPT !.seq = @ + 1]]
        /\ UNCHANGED <<net, states, preopen, got>>
    BY DEF Emit, decoderVars
  <2>2. m.ftype = ftype
    BY <1>1
  <2>3. \/ relq' = Append(relq, m) /\ prioq' = prioq
        \/ ftype = "Data" /\ relq' = relq /\ prioq' = Append(prioq, m)
    BY <1>1 DEF Emit
  <2> QED
    BY <2>1, <2>2, <2>3
<1>3. fd = [epoch |-> fd.epoch, seq |-> fd.seq] /\ fd.epoch \in Epochs /\ fd.seq \in Seqs
  BY SeqFieldFits
<1>4. /\ session_tx[sid].epoch \in Nat /\ session_tx[sid].seq \in Nat /\ session[sid].pos \in Nat
      /\ s.pos \in Nat /\ s.gen = 1 /\ MaxData \in Nat /\ SEQ_MASK \in Nat
  BY MuxAssumption DEF SenderTypes, SessionType
<1>5. /\ fd.seq = s.pos /\ s.pos = session[sid].pos
      /\ session[sid].gen = 1 => fd.epoch = session_tx[sid].epoch
      /\ ftype = "Open" <=> s.pos = 0
  <2>1. CASE ftype = "Open"
    <3>1. session[sid].gen = 0 /\ s.pos = 0 /\ session[sid].pos = 0
      BY <2>1 DEF SessionNumbers
    <3>2. fd.seq = 0
      BY <2>1 DEF SeqField, NeedsEpoch
    <3> QED
      BY <2>1, <3>1, <3>2
  <2>2. CASE ftype # "Open"
    <3>1. session[sid].gen = 1 /\ s.pos = session[sid].pos /\ s.pos <= MaxData + 2
      BY <2>2
    <3>2. session_tx[sid].epoch # 0 /\ session[sid].pos >= 1 /\ session_tx[sid].seq = session[sid].pos
      BY <3>1 DEF SessionNumbers
    <3>3. ~(session_tx[sid].seq >= SEQ_MASK)
      BY <1>4, <3>1, <3>2 DEF OneSession
    <3>4. fd = session_tx[sid]
      BY <2>2, <3>2, <3>3 DEF SeqField, NeedsEpoch
    <3> QED
      BY <1>4, <2>2, <3>1, <3>2, <3>4
  <2> QED
    BY <2>1, <2>2
<1> HIDE DEF fd
<1>6. /\ m \in Frame /\ m.sid = sid /\ m.gen = 1 /\ m.epoch = fd.epoch /\ m.sseq = s.pos /\ m.pos = s.pos
      /\ m.ftype = ftype /\ fd.epoch # 0
  <2>1. m \in Frame
    BY <1>1, <1>3, <1>4 DEF Frame
  <2> QED
    BY <1>1, <1>3, <1>5, <2>1 DEF Epochs
<1>7. /\ session'[sid].gen = 1 /\ session'[sid].pos = s.pos + 1 /\ session'[sid].phase = s.phase
      /\ session_tx'[sid].epoch = fd.epoch /\ session_tx'[sid].seq = s.pos + 1
  <2>1. [fd EXCEPT !.seq = @ + 1] = [epoch |-> fd.epoch, seq |-> fd.seq + 1]
    BY <1>3
  <2>2. session_tx'[sid] = [epoch |-> fd.epoch, seq |-> fd.seq + 1]
    BY <1>2, <2>1 DEF SenderTypes
  <2>3. session'[sid] = [s EXCEPT !.pos = @ + 1]
    BY <1>2 DEF SenderTypes
  <2>4. /\ [s EXCEPT !.pos = @ + 1].gen = s.gen /\ [s EXCEPT !.pos = @ + 1].phase = s.phase
        /\ [s EXCEPT !.pos = @ + 1].pos = s.pos + 1
    BY DEF SessionType
  <2> QED
    BY <1>5, <2>2, <2>3, <2>4
<1>8. \A x \in Sids : x # sid => session'[x] = session[x] /\ session_tx'[x] = session_tx[x]
  BY <1>2 DEF SenderTypes
<1>9. OfSession(sid, m)'
  <2>1. s.pos < s.pos + 1
    BY <1>4
  <2> QED
    BY <1>5, <1>6, <1>7, <2>1 DEF OfSession
<1>10. SessionNumbers(sid)'
  <2>1. /\ s.pos + 1 >= 1
        /\ s.phase = "open" => s.pos + 1 <= MaxData + 1
        /\ s.phase = "fin" => s.pos + 1 <= MaxData + 2
    BY <1>4
  <2> QED
    BY <1>6, <1>7, <2>1 DEF SessionNumbers
<1> QED
  BY <1>2, <1>5, <1>6, <1>7, <1>8, <1>9, <1>10 DEF Sends

(* Every step is of one of the kinds. *)
LEMMA StepKinds ==
  ASSUME OneSession, SenderTypes, OneInv, [Next]_vars
  PROVE  \/ \E sid \in Sids : \E m : Sends(sid, m)
         \/ Moves
         \/ \E i \in DOMAIN net : Arrives(i)
<1>0. /\ \A x \in Sids : /\ session[x] \in SessionType /\ session[x].gen \in Nat
                         /\ session[x].pos \in Nat
      /\ net \in Seq(Frame) /\ MaxData \in Nat /\ MaxGen \in Nat
  BY MuxAssumption DEF SenderTypes, SessionType
<1>1. ASSUME NEW sid \in Sids, NEW udp \in {FALSE, UdpReliable},
             OpenSession(sid, udp) \/ AcceptSession(sid, udp)
      PROVE  \E m : Sends(sid, m)
  <2>1. OpenSession(sid, udp)
    BY <1>1 DEF AcceptSession, OneSession
  <2>2. session[sid].gen = 0 /\ SessionNumbers(sid)
    <3>1. session[sid].gen < MaxGen /\ MaxGen <= 1
      BY <2>1 DEF OpenSession, OneSession
    <3> QED
      BY <1>0, <3>1 DEF OneInv
  <2>3. NewSession(sid, udp) \in SessionType
    <3>1. udp \in BOOLEAN
      BY MuxAssumption, Zenon
    <3>2. session[sid].gen + 1 \in Nat
      BY <1>0
    <3> QED
      BY <3>1, <3>2 DEF NewSession, SessionType
  <2>4. /\ NewSession(sid, udp).gen = 1 /\ NewSession(sid, udp).pos = 0
        /\ NewSession(sid, udp).phase = "open"
    BY <2>2 DEF NewSession
  <2>5. Emit(sid, "Open", NewSession(sid, udp)) /\ "Open" \in FrameType
    BY <2>1 DEF OpenSession, FrameType
  <2> QED
    BY <2>2, <2>3, <2>4, <2>5, EmitSends
<1>2. ASSUME NEW sid \in Sids, SendData(sid) \/ SendFin(sid) \/ SendClose(sid)
      PROVE  \E m : Sends(sid, m)
  <2> DEFINE fin == [session[sid] EXCEPT !.phase = "fin"]
             idle == [session[sid] EXCEPT !.phase = "idle"]
  <2>1. /\ fin \in SessionType /\ fin.gen = session[sid].gen /\ fin.pos = session[sid].pos /\ fin.phase = "fin"
        /\ idle \in SessionType /\ idle.gen = session[sid].gen /\ idle.pos = session[sid].pos /\ idle.phase = "idle"
    BY <1>0 DEF SessionType
  <2> HIDE DEF fin, idle
  <2>2. /\ SessionNumbers(sid) /\ session[sid].gen = 1 /\ session[sid].phase # "idle"
        /\ session[sid].phase \in {"open", "fin"}
        /\ session[sid].phase = "open" => session[sid].pos <= MaxData + 1
        /\ session[sid].phase = "fin" => session[sid].pos <= MaxData + 2
    <3>1. session[sid].phase # "idle"
      BY <1>2 DEF SendData, SendFin, SendClose
    <3>2. session[sid].phase \in {"idle", "open", "fin"}
      BY <1>0 DEF SessionType
    <3>3. SessionNumbers(sid)
      BY DEF OneInv
    <3>4. session[sid].gen <= 1 /\ session[sid].gen # 0
      BY <3>1, <3>3 DEF SessionNumbers
    <3>5. session[sid].gen = 1
      BY <1>0, <3>4
    <3> QED
      BY <3>1, <3>2, <3>3, <3>5 DEF SessionNumbers
  <2>3. session[sid].pos <= MaxData + 2
    BY <1>0, <2>2
  <2>4. CASE SendData(sid)
    <3>1. /\ Emit(sid, "Data", session[sid]) /\ session[sid].phase = "open"
          /\ session[sid].pos < MaxData /\ "Data" \in FrameType
      BY <2>4 DEF SendData, FrameType
    <3>2. session[sid].pos <= MaxData
      BY <1>0, <3>1
    <3> QED
      BY <1>0, <2>2, <2>3, <3>1, <3>2, EmitSends
  <2>5. CASE SendFin(sid)
    <3>1. Emit(sid, "Fin", fin) /\ session[sid].phase = "open" /\ "Fin" \in FrameType
      BY <2>5 DEF SendFin, FrameType, fin
    <3> QED
      BY <2>1, <2>2, <2>3, <3>1, EmitSends
  <2>6. CASE SendClose(sid)
    <3>1. Emit(sid, "Close", idle) /\ "Close" \in FrameType
      BY <2>6 DEF SendClose, FrameType, idle
    <3> QED
      BY <2>1, <2>2, <2>3, <3>1, EmitSends
  <2> QED
    BY <1>2, <2>4, <2>5, <2>6
<1>3. CASE SendThread
  BY <1>3 DEF SendThread, SendPrio, PrioDrained, SendRel, RelTimeout, senderVars, decoderVars, Moves
<1>4. ASSUME NEW i \in Arrivable, Receive(i) \/ ReceiveCopy(i)
      PROVE  i \in DOMAIN net /\ Arrives(i)
  <2>1. i \in DOMAIN net
    BY DEF Arrivable
  <2>2. net[i] \in Frame
    BY <1>0, <2>1, ElementOfSeq
  <2> QED
    BY <1>4, <2>1, <2>2 DEF Receive, ReceiveCopy, senderVars, threadVars, Arrives
<1>5. CASE UNCHANGED vars
  BY <1>5 DEF vars, Moves
<1> QED
  BY <1>1, <1>2, <1>3, <1>4, <1>5 DEF Next

(* A session that sends keeps the invariant. *)
LEMMA OneInvSends ==
  ASSUME SenderTypes, DecoderTables, OneInv, NEW sid \in Sids, NEW m, Sends(sid, m)
  PROVE  OneInv'
<1> SUFFICES ASSUME NEW x \in Sids
             PROVE  (SessionNumbers(x) /\ FrameNumbers(x) /\ SingleOpen(x) /\ StashedBefore(x) /\ Consecutive(x))'
  BY DEF OneInv
<1>1. SessionNumbers(x) /\ FrameNumbers(x) /\ SingleOpen(x) /\ StashedBefore(x) /\ Consecutive(x)
  BY DEF OneInv
<1>2. /\ m \in Frame /\ m.sid = sid /\ relq \in Seq(Frame) /\ prioq \in Seq(Frame)
      /\ UNCHANGED <<net, states, preopen, got>>
      /\ \/ relq' = Append(relq, m) /\ prioq' = prioq
         \/ m.ftype # "Open" /\ relq' = relq /\ prioq' = Append(prioq, m)
  BY DEF Sends, SenderTypes
<1>3. /\ \A i \in DOMAIN Append(relq, m) :
           Append(relq, m)[i] = m \/ \E j \in DOMAIN relq : Append(relq, m)[i] = relq[j]
      /\ \A i \in DOMAIN Append(prioq, m) :
           Append(prioq, m)[i] = m \/ \E j \in DOMAIN prioq : Append(prioq, m)[i] = prioq[j]
  BY <1>2, InAppend
<1>4. \A h \in Frame : Known(x, h)' => Known(x, h) \/ (x = sid /\ h = m)
  <2> SUFFICES ASSUME NEW h \in Frame, Known(x, h)', h # m PROVE Known(x, h)
    BY <1>2 DEF Known, Queued, Stored
  <2>1. Stored(x, h)' => Stored(x, h)
    BY <1>2 DEF Stored
  <2>2. ASSUME Queued(x, h)' PROVE Queued(x, h)
    <3>1. /\ h.sid = x
          /\ \/ \E i \in DOMAIN relq' : h = relq'[i]
             \/ \E i \in DOMAIN prioq' : h = prioq'[i]
             \/ \E i \in DOMAIN net' : h = net'[i]
      BY <2>2, Zenon DEF Queued
    <3>2. CASE relq' = Append(relq, m) /\ prioq' = prioq
      BY <1>2, <1>3, <3>1, <3>2 DEF Queued
    <3>3. CASE relq' = relq /\ prioq' = Append(prioq, m)
      BY <1>2, <1>3, <3>1, <3>3 DEF Queued
    <3> QED
      BY <1>2, <3>2, <3>3
  <2> QED
    BY <2>1, <2>2 DEF Known
<1>5. SessionNumbers(x)'
  <2>1. CASE x = sid
    BY <2>1 DEF Sends
  <2>2. CASE x # sid
    <3>1. session'[x] = session[x] /\ session_tx'[x] = session_tx[x]
      BY <2>2 DEF Sends
    <3> QED
      BY <1>1, <3>1 DEF SessionNumbers
  <2> QED
    BY <2>1, <2>2
<1>6. FrameNumbers(x)'
  <2> SUFFICES ASSUME NEW f \in Frame, Known(x, f)' PROVE OfSession(x, f)'
    BY DEF FrameNumbers
  <2>1. CASE x = sid /\ f = m
    BY <2>1 DEF Sends
  <2>2. CASE ~(x = sid /\ f = m)
    <3>1. OfSession(x, f)
      BY <1>1, <1>4, <2>2 DEF FrameNumbers
    <3>2. CASE x # sid
      <4>1. session'[x] = session[x] /\ session_tx'[x] = session_tx[x]
        BY <3>2 DEF Sends
      <4> QED
        BY <3>1, <4>1 DEF OfSession
    <3>3. CASE x = sid
      <4>1. /\ m.pos = session[x].pos /\ session'[x].pos = m.pos + 1 /\ session'[x].gen = 1
            /\ m.epoch = session_tx[x].epoch /\ m.epoch = session_tx'[x].epoch
        BY <3>1, <3>3 DEF Sends, OfSession
      <4>2. f.pos \in Nat /\ m.pos \in Nat
        BY <1>2 DEF Frame
      <4>3. f.pos < m.pos
        BY <3>1, <4>1 DEF OfSession
      <4>4. f.pos < session'[x].pos
        BY <4>1, <4>2, <4>3
      <4> QED
        BY <3>1, <4>1, <4>4 DEF OfSession
    <3> QED
      BY <3>2, <3>3
  <2> QED
    BY <2>1, <2>2
<1>7. SingleOpen(x)'
  <2>1. CASE ~IsOpen(x, m)
    <3>1. \A i \in DOMAIN prioq' : ~IsOpen(x, prioq'[i])
      BY <1>1, <1>2, <1>3, <2>1 DEF SingleOpen
    <3>2. /\ \A i \in DOMAIN relq' : IsOpen(x, relq'[i]) => i \in DOMAIN relq /\ relq'[i] = relq[i]
      <4>1. CASE relq' = relq
        BY <4>1
      <4>2. CASE relq' = Append(relq, m)
        <5>1. /\ relq' \in Seq(Frame) /\ Len(relq') = Len(relq) + 1 /\ Len(relq) \in Nat
              /\ relq'[Len(relq) + 1] = m /\ \A i \in 1 .. Len(relq) : relq'[i] = relq[i]
          BY <1>2, <4>2, InAppend
        <5>2. DOMAIN relq' = 1 .. (Len(relq) + 1) /\ DOMAIN relq = 1 .. Len(relq)
          BY <1>2, <5>1
        <5>3. \A i \in 1 .. (Len(relq) + 1) : i = Len(relq) + 1 \/ i \in 1 .. Len(relq)
          BY <5>1
        <5> QED
          BY <2>1, <5>1, <5>2, <5>3
      <4> QED
        BY <1>2, <4>1, <4>2
    <3>3. net' = net /\ got' = got
      BY <1>2
    <3> QED
      BY <1>1, <3>1, <3>2, <3>3 DEF SingleOpen, IsOpen
  <2>2. CASE IsOpen(x, m)
    <3>1. x = sid /\ m.ftype = "Open" /\ relq' = Append(relq, m) /\ prioq' = prioq
      BY <1>2, <2>2 DEF IsOpen
    <3>2. m.pos = 0 /\ session[x].pos = m.pos
      BY <3>1 DEF Sends, OfSession
    <3>3. \A f \in Frame : ~Known(x, f)
      <4>1. SUFFICES ASSUME NEW f \in Frame, OfSession(x, f) PROVE FALSE
        BY <1>1 DEF FrameNumbers
      <4>2. f.pos \in Nat /\ f.pos < 0
        BY <3>2, <4>1 DEF OfSession, Frame
      <4> QED
        BY <4>2
    <3>4. /\ \A i \in DOMAIN relq : relq[i] \in Frame
          /\ \A i \in DOMAIN net : net[i] \in Frame
      BY ElementOfSeq DEF SenderTypes
    <3>5. /\ \A i \in DOMAIN relq : ~IsOpen(x, relq[i])
          /\ \A i \in DOMAIN net : ~IsOpen(x, net[i])
      BY <3>3, <3>4 DEF Known, Queued, IsOpen
    <3>6. \A i \in DOMAIN relq' : IsOpen(x, relq'[i]) => i = Len(relq) + 1
      <4>1. /\ relq' \in Seq(Frame) /\ Len(relq') = Len(relq) + 1 /\ Len(relq) \in Nat
            /\ \A i \in 1 .. Len(relq) : relq'[i] = relq[i]
        BY <1>2, <3>1, InAppend
      <4>2. DOMAIN relq' = 1 .. (Len(relq) + 1) /\ DOMAIN relq = 1 .. Len(relq)
        BY <1>2, <4>1
      <4>3. \A i \in 1 .. (Len(relq) + 1) : i = Len(relq) + 1 \/ i \in 1 .. Len(relq)
        BY <4>1
      <4> QED
        BY <3>5, <4>1, <4>2, <4>3
    <3>7. got'[x] = <<>>
      <4>1. got[x] \in Seq(Frame) /\ got'[x] = got[x]
        BY <1>2 DEF DecoderTables
      <4>2. got[x] # <<>> => 1 \in DOMAIN got[x] /\ got[x][1] \in Frame
        BY <4>1
      <4>3. got[x] # <<>> => Known(x, got[x][1])
        BY <4>2 DEF Known, Stored
      <4> QED
        BY <3>3, <4>1, <4>2, <4>3
    <3> QED
      BY <1>1, <1>2, <3>1, <3>5, <3>6, <3>7 DEF SingleOpen
  <2> QED
    BY <2>1, <2>2
<1>8. StashedBefore(x)' /\ Consecutive(x)'
  BY <1>1, <1>2 DEF StashedBefore, Consecutive
<1> QED
  BY <1>5, <1>6, <1>7, <1>8

(* Moving the head of a queue to the network. *)
LEMMA HeadMoves ==
  ASSUME NEW q \in Seq(Frame), q # <<>>, NEW n \in Seq(Frame)
  PROVE  /\ 1 \in DOMAIN q
         /\ \A i \in DOMAIN Tail(q) : i \in Nat /\ i + 1 \in DOMAIN q /\ i + 1 # 1 /\ Tail(q)[i] = q[i + 1]
         /\ \A i \in DOMAIN Append(n, Head(q)) :
              \/ i = Len(n) + 1 /\ Append(n, Head(q))[i] = q[1]
              \/ i \in DOMAIN n /\ Append(n, Head(q))[i] = n[i]
<1>1. /\ Tail(q) \in Seq(Frame) /\ Len(Tail(q)) = Len(q) - 1 /\ Len(q) \in Nat
      /\ Head(q) = q[1] /\ 1 \in DOMAIN q /\ Head(q) \in Frame
      /\ \A i \in DOMAIN Tail(q) : i + 1 \in DOMAIN q /\ Tail(q)[i] = q[i + 1]
  BY InTail
<1>2. \A i \in DOMAIN Tail(q) : i \in Nat /\ i + 1 # 1
  <2>1. DOMAIN Tail(q) = 1 .. (Len(q) - 1)
    BY <1>1
  <2> QED
    BY <1>1, <2>1
<1>3. /\ Append(n, Head(q)) \in Seq(Frame) /\ Len(Append(n, Head(q))) = Len(n) + 1 /\ Len(n) \in Nat
      /\ Append(n, Head(q))[Len(n) + 1] = Head(q)
      /\ \A i \in 1 .. Len(n) : Append(n, Head(q))[i] = n[i]
  BY <1>1, InAppend
<1>4. DOMAIN Append(n, Head(q)) = 1 .. (Len(n) + 1) /\ DOMAIN n = 1 .. Len(n)
  BY <1>3
<1>5. \A i \in 1 .. (Len(n) + 1) : i = Len(n) + 1 \/ i \in 1 .. Len(n)
  BY <1>3
<1> QED
  BY <1>1, <1>2, <1>3, <1>4, <1>5

(* The send thread keeps it. *)
LEMMA OneInvMoves ==
  ASSUME SenderTypes, OneInv, Moves
  PROVE  OneInv'
<1> SUFFICES ASSUME NEW x \in Sids
             PROVE  (SessionNumbers(x) /\ FrameNumbers(x) /\ SingleOpen(x) /\ StashedBefore(x) /\ Consecutive(x))'
  BY DEF OneInv
<1>1. SessionNumbers(x) /\ FrameNumbers(x) /\ SingleOpen(x) /\ StashedBefore(x) /\ Consecutive(x)
  BY DEF OneInv
<1>2. /\ UNCHANGED <<session, session_tx, states, preopen, got>>
      /\ relq \in Seq(Frame) /\ prioq \in Seq(Frame) /\ net \in Seq(Frame)
  BY DEF Moves, SenderTypes
<1>3. ASSUME \A h \in Frame : Queued(x, h)' => Queued(x, h), SingleOpen(x)'
      PROVE  (SessionNumbers(x) /\ FrameNumbers(x) /\ SingleOpen(x) /\ StashedBefore(x) /\ Consecutive(x))'
  <2>1. \A h \in Frame : Known(x, h)' => Known(x, h)
    BY <1>2, <1>3 DEF Known, Stored
  <2>2. FrameNumbers(x)'
    BY <1>1, <1>2, <2>1 DEF FrameNumbers, OfSession
  <2>3. SessionNumbers(x)' /\ StashedBefore(x)' /\ Consecutive(x)'
    BY <1>1, <1>2 DEF SessionNumbers, StashedBefore, Consecutive
  <2> QED
    BY <1>3, <2>2, <2>3
<1>4. CASE relq # <<>> /\ net' = Append(net, Head(relq)) /\ relq' = Tail(relq) /\ prioq' = prioq
  <2>1. /\ 1 \in DOMAIN relq
        /\ \A i \in DOMAIN relq' : i \in Nat /\ i + 1 \in DOMAIN relq /\ i + 1 # 1 /\ relq'[i] = relq[i + 1]
        /\ \A i \in DOMAIN net' : \/ i = Len(net) + 1 /\ net'[i] = relq[1]
                                  \/ i \in DOMAIN net /\ net'[i] = net[i]
    BY <1>2, <1>4, HeadMoves
  <2>2. \A h \in Frame : Queued(x, h)' => Queued(x, h)
    BY <1>4, <2>1 DEF Queued
  <2>3. \A i \in DOMAIN prioq' : ~IsOpen(x, prioq'[i])
    BY <1>1, <1>4 DEF SingleOpen
  <2>4. \A i, j \in DOMAIN relq' : IsOpen(x, relq'[i]) /\ IsOpen(x, relq'[j]) => i = j
    <3>1. \A i, j \in DOMAIN relq' : IsOpen(x, relq'[i]) /\ IsOpen(x, relq'[j]) => i + 1 = j + 1
      BY <1>1, <2>1 DEF SingleOpen
    <3> QED
      BY <2>1, <3>1
  <2>5. \A i, j \in DOMAIN net' : IsOpen(x, net'[i]) /\ IsOpen(x, net'[j]) => i = j
    BY <1>1, <2>1 DEF SingleOpen
  <2>6. \A i \in DOMAIN relq', j \in DOMAIN net' : ~(IsOpen(x, relq'[i]) /\ IsOpen(x, net'[j]))
    BY <1>1, <2>1 DEF SingleOpen
  <2>7. got'[x] # <<>> => /\ \A i \in DOMAIN relq' : ~IsOpen(x, relq'[i])
                          /\ \A i \in DOMAIN net' : ~IsOpen(x, net'[i])
    BY <1>1, <1>2, <2>1 DEF SingleOpen
  <2>8. SingleOpen(x)'
    BY <2>3, <2>4, <2>5, <2>6, <2>7 DEF SingleOpen, IsOpen
  <2> QED
    BY <1>3, <2>2, <2>8
<1>5. CASE prioq # <<>> /\ net' = Append(net, Head(prioq)) /\ prioq' = Tail(prioq) /\ relq' = relq
  <2>1. /\ 1 \in DOMAIN prioq
        /\ \A i \in DOMAIN prioq' : i \in Nat /\ i + 1 \in DOMAIN prioq /\ i + 1 # 1 /\ prioq'[i] = prioq[i + 1]
        /\ \A i \in DOMAIN net' : \/ i = Len(net) + 1 /\ net'[i] = prioq[1]
                                  \/ i \in DOMAIN net /\ net'[i] = net[i]
    BY <1>2, <1>5, HeadMoves
  <2>2. \A h \in Frame : Queued(x, h)' => Queued(x, h)
    BY <1>5, <2>1 DEF Queued
  <2>3. ~IsOpen(x, prioq[1]) /\ \A i \in DOMAIN prioq' : ~IsOpen(x, prioq'[i])
    BY <1>1, <2>1 DEF SingleOpen
  <2>4. \A i \in DOMAIN net' : IsOpen(x, net'[i]) => i \in DOMAIN net /\ IsOpen(x, net[i])
    BY <2>1, <2>3
  <2>5. SingleOpen(x)'
    BY <1>1, <1>2, <1>5, <2>3, <2>4 DEF SingleOpen, IsOpen
  <2> QED
    BY <1>3, <2>2, <2>5
<1>6. CASE UNCHANGED <<relq, prioq, net>>
  <2>1. \A h \in Frame : Queued(x, h)' => Queued(x, h)
    BY <1>6 DEF Queued
  <2>2. SingleOpen(x)'
    BY <1>1, <1>2, <1>6 DEF SingleOpen, IsOpen
  <2> QED
    BY <1>3, <2>1, <2>2
<1> QED
  BY <1>4, <1>5, <1>6 DEF Moves

(* A release that starts where the delivered frames end. *)
LEMMA ReleaseConsecutive ==
  ASSUME DecoderTables, NEW f \in Frame, NEW st, Continues(st, f), Release(f.sid, st, <<f>>),
         Consecutive(f.sid), f.sseq = Len(got[f.sid])
  PROVE  Consecutive(f.sid)' /\ got'[f.sid] # <<>>
<1> DEFINE old == got[f.sid]
           b   == Batch(st, f)
<1>1. f.sid \in Sids /\ old \in Seq(Frame) /\ f.sseq \in Nat /\ got \in [Sids -> Seq(Frame)]
  BY FrameFields DEF DecoderTables
<1>2. /\ b \in Seq(Frame) /\ Len(b) >= 1
      /\ \A i \in 1 .. Len(b) : b[i].sseq = f.sseq + i - 1
  BY BatchIsConsecutive
<1>3. got'[f.sid] = old \o b
  <2>1. got' = [got EXCEPT ![f.sid] = (@ \o <<f>>) \o Ready(st)]
    BY DEF Release
  <2>2. got'[f.sid] = (old \o <<f>>) \o Ready(st)
    BY <1>1, <2>1
  <2> QED
    BY <1>1, <2>2, BatchAppended
<1>4. \A i \in DOMAIN old : old[i].sseq = i - 1
  BY DEF Consecutive
<1>5. f.sseq = Len(old)
  OBVIOUS
<1> HIDE DEF old, b
<1>6. PICK new : new = old \o b
  OBVIOUS
<1>7. /\ new \in Seq(Frame) /\ Len(new) = Len(old) + Len(b) /\ Len(old) \in Nat /\ Len(b) \in Nat
      /\ \A i \in 1 .. (Len(old) + Len(b)) :
           new[i] = IF i <= Len(old) THEN old[i] ELSE b[i - Len(old)]
  BY <1>1, <1>2, <1>6, ConcatProperties
<1>8. DOMAIN new = 1 .. (Len(old) + Len(b)) /\ DOMAIN old = 1 .. Len(old)
  BY <1>1, <1>7
<1>9. ASSUME NEW i \in DOMAIN new PROVE new[i].sseq = i - 1
  <2>1. CASE i <= Len(old)
    <3>1. i \in 1 .. Len(old) /\ new[i] = old[i]
      BY <1>7, <1>8, <2>1
    <3> QED
      BY <1>4, <1>8, <3>1
  <2>2. CASE ~(i <= Len(old))
    <3>1. i - Len(old) \in 1 .. Len(b) /\ new[i] = b[i - Len(old)]
      BY <1>7, <1>8, <2>2
    <3>2. b[i - Len(old)].sseq = f.sseq + (i - Len(old)) - 1
      BY <1>2, <3>1
    <3>3. f.sseq + (i - Len(old)) - 1 = i - 1
      BY <1>5, <1>7, <1>8
    <3> QED
      BY <3>1, <3>2, <3>3
  <2> QED
    BY <2>1, <2>2
<1>10. new # <<>>
  BY <1>2, <1>7
<1>11. got'[f.sid] = new
  BY <1>3, <1>6
<1> QED
  BY <1>9, <1>10, <1>11 DEF Consecutive

(* What feed does to the one session of a sid: it delivers nothing, or     *)
(* frames that continue what it delivered, starting with the Open.         *)
LEMMA FeedOne ==
  ASSUME OneSession, SenderTypes, DecoderTables, OneInv, NEW i, Arrives(i),
         NEW f, f = net[i]
  PROVE  \/ UNCHANGED <<states, preopen, got>>
         \/ /\ UNCHANGED got /\ f.ftype # "Open" /\ got[f.sid] = <<>>
            /\ preopen' = [preopen EXCEPT ![f.sid] = Append(@, f)] /\ UNCHANGED states
         \/ /\ UNCHANGED <<preopen, got>> /\ f.ftype # "Open" /\ got[f.sid] # <<>>
         \/ /\ \E st : Continues(st, f) /\ Release(f.sid, st, <<f>>)
            /\ f.sseq = Len(got[f.sid])
            /\ preopen' = preopen \/ preopen' = [preopen EXCEPT ![f.sid] = <<>>]
            /\ IF got[f.sid] = <<>>
               THEN f.ftype = "Open" /\ preopen' = [preopen EXCEPT ![f.sid] = <<>>]
               ELSE f.ftype # "Open" /\ preopen' = preopen
<1> DEFINE y == f.sid
           st == states[y]
<1>1. i \in DOMAIN net /\ f \in Frame /\ Feed(f)
  BY DEF Arrives
<1>2. /\ y \in Sids /\ IsSidReorder(st) /\ preopen[y] \in Seq(Frame) /\ got[y] \in Seq(Frame)
      /\ f.epoch # 0 /\ f.sseq \in Nat
  BY <1>1, FrameFields DEF DecoderTables
<1>3. Known(y, f) /\ OfSession(y, f)
  <2>1. Known(y, f)
    BY <1>1 DEF Known, Queued
  <2> QED
    BY <1>1, <1>2, <2>1 DEF OneInv, FrameNumbers
<1>4. /\ st = NoState <=> got[y] = <<>>
      /\ st.epoch = 0 => st = NoState
      /\ got[y] # <<>> => /\ got[y][Len(got[y])].epoch = st.epoch
                          /\ got[y][Len(got[y])].sseq + 1 = st.next
      /\ \A n \in DOMAIN st.buf : n > st.next /\ st.buf[n].sseq = n /\ st.buf[n].epoch = st.epoch
  BY <1>2 DEF DecoderTables, StateMatchesHistory
<1>n. NoState.epoch = 0
  BY DEF NoState
<1>5. got[y] # <<>> => st.epoch = f.epoch /\ st.next = Len(got[y]) /\ f.ftype # "Open"
  <2> SUFFICES ASSUME got[y] # <<>>
               PROVE  st.epoch = f.epoch /\ st.next = Len(got[y]) /\ f.ftype # "Open"
    OBVIOUS
  <2>1. PICK l : l = Len(got[y])
    OBVIOUS
  <2>2. l \in DOMAIN got[y] /\ l \in Nat /\ got[y][l] \in Frame
    BY <1>2, <2>1
  <2>3. got[y][l].sseq = l - 1
    BY <1>2, <2>2 DEF OneInv, Consecutive
  <2>4. got[y][l].epoch = session_tx[y].epoch
    <3>1. Known(y, got[y][l])
      BY <2>2 DEF Known, Stored
    <3> QED
      BY <1>2, <2>2, <3>1 DEF OneInv, FrameNumbers, OfSession
  <2>5. f.epoch = session_tx[y].epoch
    BY <1>3 DEF OfSession
  <2>6. l - 1 + 1 = st.next
    BY <1>4, <2>1, <2>3
  <2>7. st.next = l
    BY <2>2, <2>6
  <2>8. f.ftype # "Open"
    BY <1>1, <1>2 DEF OneInv, SingleOpen, IsOpen
  <2> QED
    BY <1>4, <2>1, <2>4, <2>5, <2>7, <2>8
<1>6. CASE FeedOpen(f)
  <2> DEFINE o == [Baseline(f) EXCEPT !.buf = Adopted(preopen[f.sid], f)]
  <2>1. o = [epoch |-> f.epoch, next |-> f.sseq + 1, buf |-> Adopted(preopen[f.sid], f)]
    BY DEF Baseline
  <2>2. o.epoch = f.epoch /\ o.next = f.sseq + 1 /\ o.buf = Adopted(preopen[f.sid], f)
    BY <2>1
  <2>3. IsSidReorder(o)
    BY <1>1, <1>2, <2>1, <2>2, AdoptedIsLater, FrameFields DEF IsSidReorder
  <2>4. Continues(o, f)
    BY <1>1, <1>2, <2>2, <2>3, AdoptedIsLater DEF Continues
  <2>5. Release(f.sid, o, <<f>>) /\ preopen' = [preopen EXCEPT ![f.sid] = <<>>] /\ f.ftype = "Open"
    BY <1>6 DEF FeedOpen
  <2>6. got[y] = <<>>
    BY <1>5, <2>5
  <2>7. f.sseq = 0 /\ Len(got[y]) = 0
    BY <1>3, <2>5, <2>6 DEF OfSession
  <2> HIDE DEF o
  <2> QED
    BY <2>4, <2>5, <2>6, <2>7
<1>7. CASE FeedDuplicate(f)
  BY <1>7 DEF FeedDuplicate, decoderVars
<1>8. CASE FeedExpected(f)
  <2> DEFINE o == [st EXCEPT !.next = @ + 1]
  <2>1. /\ Release(f.sid, o, <<f>>) /\ preopen' = preopen /\ st.epoch = f.epoch /\ f.sseq = st.next
        /\ f.ftype # "Open"
    BY <1>8 DEF FeedExpected
  <2>r. IsSidReorder(st)
    BY <1>2
  <2>2. o = [epoch |-> st.epoch, next |-> st.next + 1, buf |-> st.buf]
    BY <2>r DEF IsSidReorder
  <2>3. o.epoch = f.epoch /\ o.next = f.sseq + 1 /\ o.buf = st.buf
    BY <2>1, <2>2
  <2>4. IsSidReorder(o)
    BY <1>1, <1>2, <2>1, <2>2, <2>3, FrameFields DEF IsSidReorder
  <2>5. Continues(o, f)
    BY <1>4, <2>1, <2>3, <2>4, SMTT(30) DEF Continues
  <2>6. got[y] # <<>>
    BY <1>2, <1>4, <1>n, <2>1
  <2> HIDE DEF o
  <2> QED
    BY <1>5, <2>1, <2>5, <2>6
<1>9. CASE FeedAhead(f)
  <2>1. got[y] # <<>>
    BY <1>2, <1>4, <1>9, <1>n DEF FeedAhead
  <2> QED
    BY <1>9, <2>1 DEF FeedAhead
<1>10. CASE FeedOtherEpoch(f)
  <2>1. st # NoState /\ st.epoch # f.epoch
    BY <1>10 DEF FeedOtherEpoch
  <2> QED
    BY <1>4, <1>5, <2>1
<1>11. CASE FeedNoState(f)
  <2>1. st = NoState /\ ~DirAccept /\ f.ftype # "Open"
    BY <1>11 DEF FeedNoState, OneSession
  <2>2. /\ UNCHANGED <<states, got>>
        /\ preopen' = preopen \/ preopen' = [preopen EXCEPT ![f.sid] = Append(@, f)]
    BY <1>11, <2>1 DEF FeedNoState
  <2> QED
    BY <1>4, <2>1, <2>2
<1> QED
  BY <1>1, <1>6, <1>7, <1>8, <1>9, <1>10, <1>11 DEF Feed

(* An arrival keeps the invariant. *)
LEMMA OneInvArrives ==
  ASSUME OneSession, SenderTypes, DecoderTables, OneInv, NEW i, Arrives(i)
  PROVE  OneInv'
<1> SUFFICES ASSUME NEW x \in Sids
             PROVE  (SessionNumbers(x) /\ FrameNumbers(x) /\ SingleOpen(x) /\ StashedBefore(x) /\ Consecutive(x))'
  BY DEF OneInv
<1>1. SessionNumbers(x) /\ FrameNumbers(x) /\ SingleOpen(x) /\ StashedBefore(x) /\ Consecutive(x)
  BY DEF OneInv
<1>2. PICK f : f = net[i]
  OBVIOUS
<1>3. /\ i \in DOMAIN net /\ f \in Frame /\ Feed(f) /\ f.sid \in Sids /\ net \in Seq(Frame)
      /\ UNCHANGED <<session, session_tx, relq, prioq>>
      /\ net' = RemoveAt(net, i) \/ (net' = net /\ f.ftype # "Open")
      /\ preopen \in [Sids -> Seq(Frame)] /\ got \in [Sids -> Seq(Frame)]
  BY <1>2, FrameFields DEF Arrives, SenderTypes, DecoderTables
<1>4. /\ net' = RemoveAt(net, i) =>
           \A j \in DOMAIN net' : \E k \in DOMAIN net : k # i /\ net'[j] = net[k] /\ k = IF j < i THEN j ELSE j + 1
  <2> SUFFICES ASSUME net' = RemoveAt(net, i), NEW j \in DOMAIN net'
               PROVE  \E k \in DOMAIN net : k # i /\ net'[j] = net[k] /\ k = IF j < i THEN j ELSE j + 1
    OBVIOUS
  <2>1. /\ Len(net') = Len(net) - 1 /\ net' \in Seq(Frame) /\ Len(net) \in Nat
        /\ \A m \in 1 .. (Len(net) - 1) : net'[m] = IF m < i THEN net[m] ELSE net[m + 1]
    <3>1. PICK r : r = RemoveAt(net, i)
      OBVIOUS
    <3>2. i \in DOMAIN net /\ net \in Seq(Frame) /\ net' = r
      BY <1>3, <3>1
    <3>3. r \in Seq(Frame)
      BY <3>1, <3>2, RemoveAtType
    <3>4. /\ Len(r) = Len(net) - 1
          /\ \A m \in 1 .. (Len(net) - 1) : r[m] = IF m < i THEN net[m] ELSE net[m + 1]
      BY <3>1, <3>2, InRemoveAt
    <3> QED
      BY <3>2, <3>3, <3>4
  <2>2. DOMAIN net' = 1 .. (Len(net) - 1) /\ DOMAIN net = 1 .. Len(net)
    BY <1>3, <2>1
  <2>3. i \in 1 .. Len(net) /\ j \in 1 .. (Len(net) - 1)
    BY <1>3, <2>2
  <2>4. CASE j < i
    <3>1. j \in DOMAIN net /\ j # i /\ net'[j] = net[j]
      BY <2>1, <2>2, <2>3, <2>4
    <3> QED
      BY <2>4, <3>1
  <2>5. CASE ~(j < i)
    <3>1. j + 1 \in DOMAIN net /\ j + 1 # i /\ net'[j] = net[j + 1]
      BY <2>1, <2>2, <2>3, <2>5
    <3> QED
      BY <2>5, <3>1
  <2> QED
    BY <2>4, <2>5
<1>5. \A h \in Frame : Known(x, h)' => Known(x, h)
  <2>1. \A j \in DOMAIN net' : \E k \in DOMAIN net : net'[j] = net[k]
    BY <1>3, <1>4
  <2>2. \A h : Queued(x, h)' => Queued(x, h)
    BY <1>3, <2>1 DEF Queued
  <2>3. ASSUME NEW h \in Frame, Stored(x, h)' PROVE Known(x, h)
    <3>1. Stored(x, h) \/ (x = f.sid /\ h = f)
      BY <1>3, <2>3, FeedStores
    <3> QED
      BY <1>2, <1>3, <3>1 DEF Known, Queued
  <2> QED
    BY <2>2, <2>3 DEF Known
<1>6. FrameNumbers(x)'
  BY <1>1, <1>3, <1>5 DEF FrameNumbers, OfSession
<1>7. SessionNumbers(x)'
  BY <1>1, <1>3 DEF SessionNumbers
<1>8. /\ Consecutive(x)' /\ StashedBefore(x)'
      /\ got[x] # <<>> \/ got'[x] = <<>> \/ (x = f.sid /\ f.ftype = "Open")
  <2>1. CASE UNCHANGED <<states, preopen, got>>
    BY <1>1, <2>1 DEF Consecutive, StashedBefore
  <2>2. CASE /\ UNCHANGED got /\ f.ftype # "Open" /\ got[f.sid] = <<>>
             /\ preopen' = [preopen EXCEPT ![f.sid] = Append(@, f)]
    <3>1. got'[x] = got[x]
      BY <2>2
    <3>2. CASE x # f.sid
      <4>1. preopen'[x] = preopen[x]
        BY <1>3, <2>2, <3>2
      <4> QED
        BY <1>1, <3>1, <4>1 DEF Consecutive, StashedBefore
    <3>3. CASE x = f.sid
      <4>1. preopen'[x] = Append(preopen[x], f) /\ preopen[x] \in Seq(Frame)
        BY <1>3, <2>2, <3>3
      <4>2. \A j \in DOMAIN Append(preopen[x], f) :
              Append(preopen[x], f)[j] = f \/ \E k \in DOMAIN preopen[x] : Append(preopen[x], f)[j] = preopen[x][k]
        BY <1>3, <4>1, InAppend
      <4> QED
        BY <1>1, <2>2, <3>1, <3>3, <4>1, <4>2 DEF Consecutive, StashedBefore
    <3> QED
      BY <3>2, <3>3
  <2>3. CASE UNCHANGED <<preopen, got>>
    BY <1>1, <2>3 DEF Consecutive, StashedBefore
  <2>4. ASSUME NEW st, Continues(st, f), Release(f.sid, st, <<f>>),
               f.sseq = Len(got[f.sid]),
               preopen' = preopen \/ preopen' = [preopen EXCEPT ![f.sid] = <<>>],
               IF got[f.sid] = <<>>
               THEN f.ftype = "Open" /\ preopen' = [preopen EXCEPT ![f.sid] = <<>>]
               ELSE f.ftype # "Open" /\ preopen' = preopen
        PROVE  /\ Consecutive(x)' /\ StashedBefore(x)'
               /\ got[x] # <<>> \/ got'[x] = <<>> \/ (x = f.sid /\ f.ftype = "Open")
    <3>1. CASE x # f.sid
      <4>1. got'[x] = got[x]
        <5>1. got' = [got EXCEPT ![f.sid] = (@ \o <<f>>) \o Ready(st)]
          BY <2>4 DEF Release
        <5> QED
          BY <1>3, <3>1, <5>1
      <4>2. preopen'[x] = preopen[x]
        BY <1>3, <2>4, <3>1
      <4> QED
        BY <1>1, <4>1, <4>2 DEF Consecutive, StashedBefore
    <3>2. CASE x = f.sid
      <4>1. Consecutive(x)'
        BY <1>1, <1>3, <2>4, <3>2, ReleaseConsecutive
      <4>2. preopen'[x] = <<>> \/ (got[x] # <<>> /\ preopen'[x] = preopen[x])
        BY <1>3, <2>4, <3>2
      <4>3. DOMAIN <<>> = {}
        BY EmptySeq
      <4>4. preopen'[x] = <<>>
        BY <1>1, <4>2 DEF StashedBefore
      <4>5. StashedBefore(x)'
        BY <4>3, <4>4 DEF StashedBefore
      <4>6. got[x] # <<>> \/ (x = f.sid /\ f.ftype = "Open")
        BY <2>4, <3>2
      <4> QED
        BY <4>1, <4>5, <4>6
    <3> QED
      BY <3>1, <3>2
  <2> QED
    BY <1>2, <2>1, <2>2, <2>3, <2>4, FeedOne
<1>9. SingleOpen(x)'
  <2>1. \A i1 \in DOMAIN prioq' : ~IsOpen(x, prioq'[i1])
    BY <1>1, <1>3 DEF SingleOpen
  <2>2. \A i1, j \in DOMAIN relq' : IsOpen(x, relq'[i1]) /\ IsOpen(x, relq'[j]) => i1 = j
    BY <1>1, <1>3 DEF SingleOpen
  <2>3. \A j \in DOMAIN net' : \E k \in DOMAIN net : net'[j] = net[k]
    BY <1>3, <1>4
  <2>4. \A i1 \in DOMAIN relq', j \in DOMAIN net' : ~(IsOpen(x, relq'[i1]) /\ IsOpen(x, net'[j]))
    BY <1>1, <1>3, <2>3 DEF SingleOpen
  <2>5. ASSUME NEW m \in DOMAIN net', NEW n \in DOMAIN net', IsOpen(x, net'[m]), IsOpen(x, net'[n])
        PROVE  m = n
    <3>1. CASE net' = net
      BY <1>1, <2>5, <3>1 DEF SingleOpen
    <3>2. CASE net' = RemoveAt(net, i)
      <4>1. PICK k \in DOMAIN net : k # i /\ net'[m] = net[k] /\ k = IF m < i THEN m ELSE m + 1
        BY <1>4, <3>2
      <4>2. PICK l \in DOMAIN net : l # i /\ net'[n] = net[l] /\ l = IF n < i THEN n ELSE n + 1
        BY <1>4, <3>2
      <4>3. k = l
        BY <1>1, <2>5, <4>1, <4>2 DEF SingleOpen
      <4>4. net' \in Seq(Frame) /\ i \in Nat /\ k \in Nat
        BY <1>3, <3>2, RemoveAtType, SMTT(30)
      <4>5. m \in Nat /\ n \in Nat
        BY <4>4
      <4> QED
        BY <4>1, <4>2, <4>3, <4>4, <4>5
    <3> QED
      BY <1>3, <3>1, <3>2
  <2>6. ASSUME got'[x] # <<>>
        PROVE  /\ \A j \in DOMAIN relq' : ~IsOpen(x, relq'[j])
               /\ \A j \in DOMAIN net' : ~IsOpen(x, net'[j])
    <3>1. CASE got[x] # <<>>
      BY <1>1, <1>3, <2>3, <3>1 DEF SingleOpen
    <3>2. CASE x = f.sid /\ f.ftype = "Open"
      <4>1. IsOpen(x, net[i]) /\ net' = RemoveAt(net, i)
        BY <1>2, <1>3, <3>2 DEF IsOpen
      <4>2. \A j \in DOMAIN net : IsOpen(x, net[j]) => j = i
        BY <1>1, <1>3, <4>1 DEF SingleOpen
      <4>3. \A j \in DOMAIN net' : ~IsOpen(x, net'[j])
        BY <1>4, <4>1, <4>2
      <4> QED
        BY <1>1, <1>3, <4>1, <4>3 DEF SingleOpen
    <3> QED
      BY <1>8, <2>6, <3>1, <3>2
  <2> QED
    BY <2>1, <2>2, <2>4, <2>5, <2>6 DEF SingleOpen, IsOpen
<1> QED
  BY <1>6, <1>7, <1>8, <1>9

LEMMA OneInit == Init => OneInv
<1> SUFFICES ASSUME Init, NEW x \in Sids
             PROVE  SessionNumbers(x) /\ FrameNumbers(x) /\ SingleOpen(x) /\ StashedBefore(x) /\ Consecutive(x)
  BY DEF OneInv
<1>1. /\ relq = <<>> /\ prioq = <<>> /\ net = <<>> /\ preopen[x] = <<>>
      /\ got[x] = <<>> /\ states[x].buf = <<>> /\ DOMAIN <<>> = {}
  BY EmptySeq DEF Init, NoState
<1>2. \A f \in Frame : ~Known(x, f)
  BY <1>1 DEF Known, Queued, Stored
<1>3. SessionNumbers(x)
  BY DEF Init, SessionNumbers
<1> QED
  BY <1>1, <1>2, <1>3 DEF FrameNumbers, SingleOpen, StashedBefore, Consecutive

(* With one session on every sid the decoder never meets a second epoch:   *)
(* its place in the session, and what it holds back, are those of the      *)
(* encoder (multiplex.rs:383-434).                                         *)
THEOREM OneInvHolds == ASSUME OneSession PROVE Spec => []OneInv
<1>1. DecoderInv /\ OneInv /\ [Next]_vars => OneInv'
  <2> SUFFICES ASSUME SenderTypes, DecoderTables, OneInv, [Next]_vars PROVE OneInv'
    BY InvSplits
  <2> QED
    BY StepKinds, OneInvSends, OneInvMoves, OneInvArrives
<1> QED
  BY <1>1, OneInit, DecoderInvariant, PTL DEF Spec

(* The byte stream of the first session of a sid arrives as it was sent,   *)
(* whatever SRT does to the order of the messages and however often it     *)
(* delivers them, with UDP data overtaking on the priority queue: the      *)
(* stash, the reorder buffer and the duplicate test of feed together make  *)
(* the frames delivered a prefix of the frames sent.                       *)
THEOREM FirstSessionInOrder == ASSUME OneSession PROVE Spec => []SessionPrefix
<1>1. DecoderInv /\ OneInv => SessionPrefix
  <2> SUFFICES ASSUME DecoderTables, OneInv, NEW x \in Sids, NEW i \in DOMAIN got[x]
               PROVE  got[x][i].pos = Cardinality({j \in 1 .. (i - 1) : got[x][j].gen = got[x][i].gen})
    BY InvSplits DEF SessionPrefix
  <2>1. got[x] \in Seq(Frame)
    BY DEF DecoderTables
  <2>2. DOMAIN got[x] = 1 .. Len(got[x]) /\ Len(got[x]) \in Nat /\ i \in 1 .. Len(got[x])
    BY <2>1
  <2>3. \A j \in DOMAIN got[x] : got[x][j].gen = 1 /\ got[x][j].sseq = got[x][j].pos
    <3>1. \A j \in DOMAIN got[x] : got[x][j] \in Frame /\ Known(x, got[x][j])
      BY <2>1, ElementOfSeq DEF Known, Stored
    <3> QED
      BY <3>1 DEF OneInv, FrameNumbers, OfSession
  <2>4. got[x][i].pos = i - 1
    BY <2>3 DEF OneInv, Consecutive
  <2>5. {j \in 1 .. (i - 1) : got[x][j].gen = got[x][i].gen} = 1 .. (i - 1)
    <3>1. \A j \in 1 .. (i - 1) : j \in DOMAIN got[x]
      BY <2>2
    <3> QED
      BY <2>3, <3>1
  <2>6. Cardinality(1 .. (i - 1)) = i - 1
    <3>1. PICK b \in Nat : b = i - 1
      BY <2>2
    <3>2. Cardinality(1 .. b) = IF 1 > b THEN 0 ELSE b - 1 + 1
      BY FS_Interval
    <3>3. Cardinality(1 .. b) = b
      BY <3>2
    <3> QED
      BY <3>1, <3>3
  <2> QED
    BY <2>4, <2>5, <2>6
<1> QED
  BY <1>1, OneInvHolds, DecoderInvariant, PTL

-----------------------------------------------------------------------------
(* Nothing is lost while no limit is hit.                                  *)

(* No frame finds the stash or the reorder buffer of its sid full. *)
NeverFull == \A x \in Sids : RoomToBuffer(states[x]) /\ RoomToStash(preopen[x])

(* The frame at position p has been delivered, is buffered or stashed; and *)
(* every frame that was sent is one of these, or queued or in flight.      *)
At(x, p) ==
  \/ p < states[x].next
  \/ p \in DOMAIN states[x].buf
  \/ \E i \in DOMAIN preopen[x] : preopen[x][i].sseq = p
Covered ==
  \A x \in Sids : \A p \in 0 .. (session[x].pos - 1) :
    At(x, p) \/ \E f \in Frame : Queued(x, f) /\ f.sseq = p

(* A release moves its state on and forgets only what it delivers. *)
LEMMA ReleaseKeepsPositions ==
  ASSUME DecoderTables, NEW f \in Frame, NEW st, Continues(st, f), Release(f.sid, st, <<f>>),
         NEW p \in Nat, p < st.next \/ p \in DOMAIN st.buf
  PROVE  p < states'[f.sid].next \/ p \in DOMAIN states'[f.sid].buf
<1>1. f.sid \in Sids /\ states = [s \in Sids |-> states[s]]
  BY FrameFields DEF DecoderTables
<1>2. states'[f.sid] = Flushed(st)
  <2>1. states' = [states EXCEPT ![f.sid] = Flushed(st)]
    BY DEF Release
  <2> QED
    BY <1>1, <2>1
<1>3. FlushEnd(st) \in st.next .. SEQ_MASK /\ st.next \in Nat /\ FlushEnd(st) \in Nat
  BY FlushEndIsFirstMissing, FlushedIsState DEF Continues, IsSidReorder
<1>4. /\ Flushed(st).next = FlushEnd(st)
      /\ \A n \in DOMAIN st.buf : n >= FlushEnd(st) => n \in DOMAIN Flushed(st).buf
  BY DEF Flushed
<1>5. p < FlushEnd(st) \/ p >= FlushEnd(st)
  BY <1>3
<1>6. CASE p < FlushEnd(st)
  BY <1>2, <1>4, <1>6
<1>7. CASE p >= FlushEnd(st)
  <2>1. ~(p < st.next)
    BY <1>3, <1>7
  <2> QED
    BY <1>2, <1>4, <1>7, <2>1
<1> QED
  BY <1>5, <1>6, <1>7

(* feed keeps every position it has, and the one of the frame it is fed. *)
LEMMA FeedKeepsPositions ==
  ASSUME OneSession, SenderTypes, DecoderTables, OneInv, NeverFull, NEW i, Arrives(i),
         NEW f, f = net[i], NEW x \in Sids, NEW p \in Nat,
         At(x, p) \/ (x = f.sid /\ p = f.sseq)
  PROVE  At(x, p)'
<1> DEFINE y == f.sid
           st == states[y]
<1>1. i \in DOMAIN net /\ f \in Frame /\ Feed(f)
  BY DEF Arrives
<1>2. /\ y \in Sids /\ IsSidReorder(st) /\ preopen[y] \in Seq(Frame) /\ got[y] \in Seq(Frame)
      /\ f.epoch # 0 /\ f.sseq \in Nat /\ preopen \in [Sids -> Seq(Frame)]
      /\ states = [s \in Sids |-> states[s]]
  BY <1>1, FrameFields DEF DecoderTables
<1>r. IsSidReorder(st) /\ st.next \in Nat
  <2>1. IsSidReorder(st)
    BY <1>2
  <2> HIDE DEF st
  <2> QED
    BY <2>1 DEF IsSidReorder
<1>3. Known(y, f) /\ OfSession(y, f)
  <2>1. Known(y, f)
    BY <1>1 DEF Known, Queued
  <2> QED
    BY <1>1, <1>2, <2>1 DEF OneInv, FrameNumbers
<1>4. /\ st = NoState <=> got[y] = <<>>
      /\ \A n \in DOMAIN st.buf : n > st.next /\ st.buf[n].sseq = n /\ st.buf[n].epoch = st.epoch
  BY <1>2 DEF DecoderTables, StateMatchesHistory
<1>5. ASSUME UNCHANGED <<states, preopen>>, x = y => p < st.next \/ At(x, p) PROVE At(x, p)'
  BY <1>5 DEF At
<1>6. ASSUME NEW o, Continues(o, f), Release(f.sid, o, <<f>>),
             x # y => preopen'[x] = preopen[x],
             x = y => p < o.next \/ p \in DOMAIN o.buf
      PROVE  At(x, p)'
  <2>1. CASE x = y
    BY <1>1, <1>6, <2>1, ReleaseKeepsPositions DEF At
  <2>2. CASE x # y
    <3>1. states' = [states EXCEPT ![f.sid] = Flushed(o)]
      BY <1>6 DEF Release
    <3>2. states'[x] = states[x] /\ preopen'[x] = preopen[x] /\ At(x, p)
      BY <1>2, <1>6, <2>2, <3>1
    <3> QED
      BY <3>2 DEF At
  <2> QED
    BY <2>1, <2>2
<1>7. CASE FeedOpen(f)
  <2> DEFINE o == [Baseline(f) EXCEPT !.buf = Adopted(preopen[f.sid], f)]
  <2>1. o = [epoch |-> f.epoch, next |-> f.sseq + 1, buf |-> Adopted(preopen[f.sid], f)]
    BY DEF Baseline
  <2>2. o.epoch = f.epoch /\ o.next = f.sseq + 1 /\ o.buf = Adopted(preopen[f.sid], f)
    BY <2>1
  <2>3. IsSidReorder(o)
    BY <1>1, <1>2, <2>1, <2>2, AdoptedIsLater, FrameFields DEF IsSidReorder
  <2>4. Continues(o, f)
    BY <1>1, <1>2, <2>2, <2>3, AdoptedIsLater DEF Continues
  <2>5. Release(f.sid, o, <<f>>) /\ preopen' = [preopen EXCEPT ![f.sid] = <<>>] /\ f.ftype = "Open"
    BY <1>7 DEF FeedOpen
  <2>6. got[y] = <<>> /\ f.sseq = 0
    BY <1>1, <1>2, <1>3, <2>5 DEF OneInv, SingleOpen, IsOpen, OfSession
  <2>7. st.next = 0 /\ DOMAIN st.buf = {}
    <3>1. st = NoState
      BY <1>4, <2>6
    <3> QED
      BY <3>1, EmptySeq DEF NoState
  <2>8. ASSUME NEW j \in DOMAIN preopen[y], preopen[y][j].sseq = p PROVE p \in DOMAIN o.buf
    <3>1. preopen[y][j] \in Frame /\ Known(y, preopen[y][j])
      BY <1>2, ElementOfSeq DEF Known, Stored
    <3>2. OfSession(y, preopen[y][j]) /\ preopen[y][j].ftype # "Open"
      BY <1>2, <3>1 DEF OneInv, FrameNumbers, StashedBefore
    <3>3. preopen[y][j].epoch = f.epoch /\ preopen[y][j].sseq # 0
      BY <1>3, <3>2 DEF OfSession
    <3>4. preopen[y][j].sseq > f.sseq
      BY <2>6, <2>8, <3>3
    <3>5. Adopts(preopen[y], f, j)
      BY <3>3, <3>4 DEF Adopts
    <3>6. p \in {preopen[y][k].sseq : k \in {l \in DOMAIN preopen[y] : Adopts(preopen[y], f, l)}}
      BY <2>8, <3>5
    <3> QED
      BY <2>2, <3>6 DEF Adopted
  <2>9. x = y => p < o.next \/ p \in DOMAIN o.buf
    <3> SUFFICES ASSUME x = y PROVE p < o.next \/ p \in DOMAIN o.buf
      OBVIOUS
    <3>1. CASE p = f.sseq
      BY <1>2, <2>2, <3>1
    <3>2. CASE At(y, p)
      BY <2>7, <2>8, <3>2 DEF At
    <3> QED
      BY <3>1, <3>2
  <2>10. x # y => preopen'[x] = preopen[x]
    BY <1>2, <2>5
  <2> HIDE DEF o
  <2> QED
    BY <1>6, <2>4, <2>5, <2>9, <2>10
<1>8. CASE FeedDuplicate(f)
  <2>1. UNCHANGED <<states, preopen>> /\ f.sseq < st.next
    BY <1>8 DEF FeedDuplicate, decoderVars
  <2> QED
    BY <1>5, <2>1 DEF At
<1>9. CASE FeedExpected(f)
  <2> DEFINE o == [st EXCEPT !.next = @ + 1]
  <2>1. /\ Release(f.sid, o, <<f>>) /\ preopen' = preopen /\ st.epoch = f.epoch /\ f.sseq = st.next
    BY <1>9 DEF FeedExpected
  <2>2. o = [epoch |-> st.epoch, next |-> st.next + 1, buf |-> st.buf]
    BY <1>r DEF IsSidReorder
  <2>3. o.epoch = f.epoch /\ o.next = f.sseq + 1 /\ o.buf = st.buf
    BY <2>1, <2>2
  <2> HIDE DEF st
  <2>5. Continues(o, f)
    BY <1>1, <1>4, <1>r, <2>1, NextMoves
  <2> USE DEF st
  <2> HIDE DEF o
  <2>6. got[y] # <<>>
    <3>1. st # NoState
      BY <1>2, <2>1 DEF NoState
    <3> QED
      BY <1>4, <3>1
  <2>7. DOMAIN preopen[y] = {}
    BY <1>2, <2>6, EmptySeq DEF OneInv, StashedBefore
  <2>8. x = y => p < o.next \/ p \in DOMAIN o.buf
    <3> SUFFICES ASSUME x = y PROVE p < o.next \/ p \in DOMAIN o.buf
      OBVIOUS
    <3>1. p = f.sseq \/ p < st.next \/ p \in DOMAIN st.buf
      BY <2>7 DEF At
    <3> QED
      BY <1>2, <1>r, <2>1, <2>3, <3>1
  <2> QED
    BY <1>6, <2>1, <2>5, <2>8
<1>10. CASE FeedAhead(f)
  <2>1. RoomToBuffer(st)
    BY <1>2 DEF NeverFull
  <2> DEFINE B == [n \in DOMAIN st.buf \cup {f.sseq} |-> IF n = f.sseq THEN f ELSE st.buf[n]]
  <2>2. states' = [states EXCEPT ![f.sid].buf = B] /\ preopen' = preopen
    BY <1>10, <2>1 DEF FeedAhead
  <2>3. DOMAIN B = DOMAIN st.buf \cup {f.sseq}
    OBVIOUS
  <2> HIDE DEF B
  <2>4. /\ states'[y].buf = B /\ states'[y].next = st.next
        /\ x # y => states'[x] = states[x]
    <3>1. [st EXCEPT !.buf = B] = [epoch |-> st.epoch, next |-> st.next, buf |-> B]
      BY <1>r DEF IsSidReorder
    <3>2. states' = [states EXCEPT ![f.sid] = [st EXCEPT !.buf = B]]
      BY <2>2
    <3>3. states'[y] = [epoch |-> st.epoch, next |-> st.next, buf |-> B]
      BY <1>2, <3>1, <3>2
    <3>4. x # y => states'[x] = states[x]
      BY <1>2, <3>2
    <3> QED
      BY <3>3, <3>4
  <2>5. CASE x # y
    BY <2>2, <2>4, <2>5 DEF At
  <2>6. CASE x = y
    BY <2>2, <2>3, <2>4, <2>6 DEF At
  <2> QED
    BY <2>5, <2>6
<1>11. CASE FeedOtherEpoch(f)
  <2>1. st # NoState /\ st.epoch # f.epoch /\ got[y] # <<>>
    BY <1>4, <1>11 DEF FeedOtherEpoch
  <2>2. PICK l : l = Len(got[y])
    OBVIOUS
  <2>3. l \in DOMAIN got[y] /\ got[y][l] \in Frame
    BY <1>2, <2>1, <2>2
  <2>4. Known(y, got[y][l]) /\ got[y][l].epoch = st.epoch
    BY <1>2, <2>1, <2>2, <2>3 DEF Known, Stored, DecoderTables, StateMatchesHistory
  <2>5. OfSession(y, got[y][l])
    BY <1>2, <2>3, <2>4 DEF OneInv, FrameNumbers
  <2> QED
    BY <1>3, <2>1, <2>4, <2>5 DEF OfSession
<1>12. CASE FeedNoState(f)
  <2>1. ~DirAccept /\ RoomToStash(preopen[y])
    BY <1>2 DEF NeverFull, OneSession
  <2>2. states' = states /\ preopen' = [preopen EXCEPT ![f.sid] = Append(@, f)]
    BY <1>12, <2>1 DEF FeedNoState
  <2>3. preopen'[x] = IF x = y THEN Append(preopen[y], f) ELSE preopen[x]
    BY <1>2, <2>2
  <2>4. CASE x # y
    BY <2>2, <2>3, <2>4 DEF At
  <2>5. CASE x = y
    <3>1. PICK w : w = Append(preopen[y], f)
      OBVIOUS
    <3>2. /\ Len(preopen[y]) \in Nat /\ w[Len(preopen[y]) + 1] = f
          /\ Len(w) = Len(preopen[y]) + 1 /\ w \in Seq(Frame)
          /\ \A j \in 1 .. Len(preopen[y]) : w[j] = preopen[y][j]
      BY <1>1, <1>2, <3>1, InAppend
    <3>3. /\ Len(preopen[y]) + 1 \in DOMAIN w
          /\ \A j \in DOMAIN preopen[y] : j \in DOMAIN w /\ w[j] = preopen[y][j]
      <4>1. DOMAIN w = 1 .. (Len(preopen[y]) + 1) /\ DOMAIN preopen[y] = 1 .. Len(preopen[y])
        BY <1>2, <3>2
      <4>2. /\ Len(preopen[y]) + 1 \in 1 .. (Len(preopen[y]) + 1)
            /\ \A j \in 1 .. Len(preopen[y]) : j \in 1 .. (Len(preopen[y]) + 1)
        BY <3>2
      <4> QED
        BY <3>2, <4>1, <4>2
    <3>4. preopen'[x] = w
      BY <2>3, <2>5, <3>1
    <3>5. CASE p = f.sseq
      BY <3>2, <3>3, <3>4, <3>5 DEF At
    <3>6. CASE At(y, p)
      BY <2>2, <2>5, <3>3, <3>4, <3>6 DEF At
    <3> QED
      BY <2>5, <3>5, <3>6
  <2> QED
    BY <2>4, <2>5
<1> QED
  BY <1>1, <1>7, <1>8, <1>9, <1>10, <1>11, <1>12 DEF Feed

(* A step loses no queued frame, except the one that arrives. *)
LEMMA QueuedStays ==
  ASSUME SenderTypes, NEW x \in Sids, NEW h \in Frame, Queued(x, h),
         \/ \E sid \in Sids : \E m : Sends(sid, m)
         \/ Moves
         \/ \E i \in DOMAIN net : Arrives(i) /\ h # net[i]
  PROVE  Queued(x, h)'
<1>1. relq \in Seq(Frame) /\ prioq \in Seq(Frame) /\ net \in Seq(Frame) /\ h.sid = x
  BY DEF SenderTypes, Queued
<1>2. ASSUME NEW q \in Seq(Frame), NEW m \in Frame, NEW j \in DOMAIN q
      PROVE  j \in DOMAIN Append(q, m) /\ Append(q, m)[j] = q[j]
  <2>1. DOMAIN Append(q, m) = 1 .. (Len(q) + 1) /\ DOMAIN q = 1 .. Len(q) /\ Len(q) \in Nat
    BY InAppend
  <2>2. \A k \in 1 .. Len(q) : k \in 1 .. (Len(q) + 1)
    BY <2>1
  <2> QED
    BY <2>1, <2>2, InAppend
<1>3. ASSUME NEW q \in Seq(Frame), q # <<>>, NEW j \in DOMAIN q
      PROVE  q[j] = Head(q) \/ \E k \in DOMAIN Tail(q) : Tail(q)[k] = q[j]
  <2>1. /\ DOMAIN q = 1 .. Len(q) /\ DOMAIN Tail(q) = 1 .. (Len(q) - 1) /\ Len(q) \in Nat
        /\ \A i \in 1 .. (Len(q) - 1) : Tail(q)[i] = q[i + 1]
        /\ Head(q) = q[1]
    BY <1>3, InTail
  <2>2. j = 1 \/ (j - 1 \in 1 .. (Len(q) - 1) /\ (j - 1) + 1 = j)
    BY <2>1
  <2> QED
    BY <2>1, <2>2
<1>4. ASSUME NEW m \in Frame, NEW n, n = Append(net, m)
      PROVE  /\ \E k \in DOMAIN n : n[k] = m
             /\ \A j \in DOMAIN net : \E k \in DOMAIN n : n[k] = net[j]
  <2>1. \A j \in DOMAIN net : j \in DOMAIN n /\ n[j] = net[j]
    BY <1>1, <1>2, <1>4
  <2>2. /\ n \in Seq(Frame) /\ Len(n) = Len(net) + 1 /\ Len(net) \in Nat /\ n[Len(net) + 1] = m
    BY <1>1, <1>4, InAppend
  <2>3. Len(net) + 1 \in DOMAIN n
    BY <2>2
  <2> QED
    BY <2>1, <2>2, <2>3
<1>5. ASSUME NEW sid \in Sids, NEW m, Sends(sid, m) PROVE Queued(x, h)'
  <2>1. /\ m \in Frame /\ net' = net
        /\ \/ relq' = Append(relq, m) /\ prioq' = prioq
           \/ relq' = relq /\ prioq' = Append(prioq, m)
    BY <1>5 DEF Sends
  <2>2. CASE relq' = Append(relq, m) /\ prioq' = prioq
    <3>1. \A j \in DOMAIN relq : j \in DOMAIN relq' /\ relq'[j] = relq[j]
      BY <1>1, <1>2, <2>1, <2>2
    <3> QED
      BY <1>1, <2>1, <2>2, <3>1 DEF Queued
  <2>3. CASE relq' = relq /\ prioq' = Append(prioq, m)
    <3>1. \A j \in DOMAIN prioq : j \in DOMAIN prioq' /\ prioq'[j] = prioq[j]
      BY <1>1, <1>2, <2>1, <2>3
    <3> QED
      BY <1>1, <2>1, <2>3, <3>1 DEF Queued
  <2> QED
    BY <2>1, <2>2, <2>3
<1>6. CASE Moves
  <2>1. CASE relq # <<>> /\ net' = Append(net, Head(relq)) /\ relq' = Tail(relq) /\ prioq' = prioq
    <3>1. \A j \in DOMAIN relq : relq[j] = Head(relq) \/ \E k \in DOMAIN relq' : relq'[k] = relq[j]
      BY <1>1, <1>3, <2>1
    <3>2. /\ \E k \in DOMAIN net' : net'[k] = Head(relq)
          /\ \A j \in DOMAIN net : \E k \in DOMAIN net' : net'[k] = net[j]
      <4>1. Head(relq) \in Frame
        BY <1>1, <2>1, InTail
      <4>2. PICK n : n = Append(net, Head(relq))
        OBVIOUS
      <4>3. /\ \E k \in DOMAIN n : n[k] = Head(relq)
            /\ \A j \in DOMAIN net : \E k \in DOMAIN n : n[k] = net[j]
        BY <1>4, <4>1, <4>2
      <4> QED
        BY <2>1, <4>2, <4>3
    <3> QED
      BY <1>1, <2>1, <3>1, <3>2, ZenonT(30) DEF Queued
  <2>2. CASE prioq # <<>> /\ net' = Append(net, Head(prioq)) /\ prioq' = Tail(prioq) /\ relq' = relq
    <3>1. \A j \in DOMAIN prioq : prioq[j] = Head(prioq) \/ \E k \in DOMAIN prioq' : prioq'[k] = prioq[j]
      BY <1>1, <1>3, <2>2
    <3>2. /\ \E k \in DOMAIN net' : net'[k] = Head(prioq)
          /\ \A j \in DOMAIN net : \E k \in DOMAIN net' : net'[k] = net[j]
      <4>1. Head(prioq) \in Frame
        BY <1>1, <2>2, InTail
      <4>2. PICK n : n = Append(net, Head(prioq))
        OBVIOUS
      <4>3. /\ \E k \in DOMAIN n : n[k] = Head(prioq)
            /\ \A j \in DOMAIN net : \E k \in DOMAIN n : n[k] = net[j]
        BY <1>4, <4>1, <4>2
      <4> QED
        BY <2>2, <4>2, <4>3
    <3> QED
      BY <1>1, <2>2, <3>1, <3>2, ZenonT(30) DEF Queued
  <2>3. CASE UNCHANGED <<relq, prioq, net>>
    BY <2>3 DEF Queued
  <2> QED
    BY <1>6, <2>1, <2>2, <2>3 DEF Moves
<1>7. ASSUME NEW i \in DOMAIN net, Arrives(i), h # net[i] PROVE Queued(x, h)'
  <2>1. relq' = relq /\ prioq' = prioq /\ (net' = RemoveAt(net, i) \/ net' = net)
    BY <1>7 DEF Arrives
  <2>2. CASE net' = net
    BY <2>1, <2>2 DEF Queued
  <2>3. CASE net' = RemoveAt(net, i)
    <3>1. PICK r : r = RemoveAt(net, i)
      OBVIOUS
    <3>2. r \in Seq(Frame)
      BY <1>1, <3>1, RemoveAtType
    <3>3. /\ Len(r) = Len(net) - 1
          /\ \A m \in 1 .. (Len(net) - 1) : r[m] = IF m < i THEN net[m] ELSE net[m + 1]
      BY <1>1, <3>1, InRemoveAt
    <3>4. DOMAIN r = 1 .. (Len(net) - 1) /\ DOMAIN net = 1 .. Len(net) /\ Len(net) \in Nat
      BY <1>1, <3>2, <3>3
    <3>5. ASSUME NEW j \in DOMAIN net, j # i PROVE \E k \in DOMAIN r : r[k] = net[j]
      <4>1. CASE j < i
        <5>1. j \in 1 .. (Len(net) - 1)
          BY <3>4, <4>1
        <5> QED
          BY <3>3, <3>4, <4>1, <5>1
      <4>2. CASE ~(j < i)
        <5>1. j - 1 \in 1 .. (Len(net) - 1) /\ ~(j - 1 < i) /\ (j - 1) + 1 = j
          BY <3>4, <3>5, <4>2
        <5> QED
          BY <3>3, <3>4, <5>1
      <4> QED
        BY <4>1, <4>2
    <3>6. \A j \in DOMAIN net : j # i => \E k \in DOMAIN net' : net'[k] = net[j]
      BY <2>3, <3>1, <3>5
    <3> QED
      BY <1>1, <1>7, <2>1, <3>6 DEF Queued
  <2> QED
    BY <2>1, <2>2, <2>3
<1> QED
  BY <1>5, <1>6, <1>7

(* As long as no stash and no buffer is full. *)
LEMMA CoveredNext ==
  ASSUME OneSession, SenderTypes, DecoderTables, OneInv, NeverFull, Covered, [Next]_vars
  PROVE  Covered'
<1> SUFFICES ASSUME NEW x \in Sids, NEW p \in 0 .. (session'[x].pos - 1)
             PROVE  (At(x, p) \/ \E f \in Frame : Queued(x, f) /\ f.sseq = p)'
  BY DEF Covered
<1>1. \/ \E sid \in Sids : \E m : Sends(sid, m)
      \/ Moves
      \/ \E i \in DOMAIN net : Arrives(i)
  BY StepKinds
<1>p. p \in Nat /\ session[x].pos \in Nat
  BY DEF SenderTypes, SessionType
<1>2. ASSUME NEW sid \in Sids, NEW m, Sends(sid, m)
      PROVE  (At(x, p) \/ \E f \in Frame : Queued(x, f) /\ f.sseq = p)'
  <2>1. /\ m \in Frame /\ m.sid = sid /\ m.sseq = m.pos /\ m.pos = session[sid].pos
        /\ session'[sid].pos = m.pos + 1 /\ UNCHANGED <<states, preopen>>
        /\ x # sid => session'[x] = session[x]
    BY <1>2 DEF Sends, OfSession
  <2>2. CASE x = sid /\ p = m.pos
    <3>1. Queued(x, m)'
      <4>1. relq \in Seq(Frame) /\ prioq \in Seq(Frame)
        BY DEF SenderTypes
      <4>2. /\ \E k \in DOMAIN Append(relq, m) : m = Append(relq, m)[k]
            /\ \E k \in DOMAIN Append(prioq, m) : m = Append(prioq, m)[k]
        <5>1. ASSUME NEW q \in Seq(Frame) PROVE \E k \in DOMAIN Append(q, m) : m = Append(q, m)[k]
          <6>1. /\ Append(q, m) \in Seq(Frame) /\ Len(Append(q, m)) = Len(q) + 1 /\ Len(q) \in Nat
                /\ Append(q, m)[Len(q) + 1] = m
            BY <2>1, InAppend
          <6>2. Len(q) + 1 \in DOMAIN Append(q, m)
            BY <6>1
          <6> QED
            BY <6>1, <6>2
        <5> QED
          BY <4>1, <5>1
      <4>3. relq' = Append(relq, m) \/ prioq' = Append(prioq, m)
        BY <1>2 DEF Sends
      <4>4. (\E k \in DOMAIN relq' : m = relq'[k]) \/ (\E k \in DOMAIN prioq' : m = prioq'[k])
        BY <4>2, <4>3
      <4> QED
        BY <2>1, <2>2, <4>4 DEF Queued
    <3> QED
      BY <2>1, <2>2, <3>1
  <2>3. CASE ~(x = sid /\ p = m.pos)
    <3>1. p \in 0 .. (session[x].pos - 1)
      BY <1>p, <2>1, <2>3
    <3>2. CASE At(x, p)
      BY <2>1, <3>2 DEF At
    <3>3. ASSUME NEW f \in Frame, Queued(x, f), f.sseq = p PROVE Queued(x, f)'
      BY <1>2, <3>3, QueuedStays
    <3> QED
      BY <3>1, <3>2, <3>3 DEF Covered
  <2> QED
    BY <2>2, <2>3
<1>3. CASE Moves
  <2>1. UNCHANGED <<session, states, preopen>>
    BY <1>3 DEF Moves
  <2>2. CASE At(x, p)
    BY <2>1, <2>2 DEF At
  <2>3. ASSUME NEW f \in Frame, Queued(x, f), f.sseq = p PROVE Queued(x, f)'
    BY <1>3, <2>3, QueuedStays
  <2> QED
    BY <2>1, <2>2, <2>3 DEF Covered
<1>4. ASSUME NEW i \in DOMAIN net, Arrives(i)
      PROVE  (At(x, p) \/ \E f \in Frame : Queued(x, f) /\ f.sseq = p)'
  <2>1. session' = session
    BY <1>4 DEF Arrives
  <2>2. ASSUME At(x, p) \/ (x = net[i].sid /\ p = net[i].sseq) PROVE At(x, p)'
    BY <1>4, <1>p, <2>2, FeedKeepsPositions
  <2>3. ASSUME NEW f \in Frame, Queued(x, f), f.sseq = p, f # net[i] PROVE Queued(x, f)'
    BY <1>4, <2>3, QueuedStays
  <2>4. \A f \in Frame : Queued(x, f) => f.sid = x
    BY DEF Queued
  <2> QED
    BY <2>1, <2>2, <2>3, <2>4 DEF Covered
<1> QED
  BY <1>1, <1>2, <1>3, <1>4

(* Nothing is lost or held back: when nothing of a connection's first      *)
(* sessions is queued or in flight, the last frame each of them sent has   *)
(* been delivered, provided no stash and no reorder buffer was ever full.  *)
THEOREM NothingHeldBack ==
  ASSUME OneSession
  PROVE  Spec /\ []NeverFull => []QuietComplete
<1>1. Init => Covered
  BY DEF Init, Covered
<1>2. DecoderInv /\ OneInv /\ NeverFull /\ Covered /\ [Next]_vars => Covered'
  BY InvSplits, CoveredNext
<1>3. DecoderInv /\ OneInv /\ Covered => QuietComplete
  <2> SUFFICES ASSUME SenderTypes, DecoderTables, OneInv, Covered,
                      relq = <<>>, prioq = <<>>, net = <<>>,
                      NEW x \in Sids, session[x].pos > 0
               PROVE  Delivered(x, session[x].gen, session[x].pos - 1)
    BY InvSplits DEF QuietComplete
  <2>1. PICK n \in Nat : n = session[x].pos
    BY DEF SenderTypes, SessionType
  <2>2. n > 0 /\ session[x].gen \in Nat /\ SessionNumbers(x)
    BY <2>1 DEF SenderTypes, SessionType, OneInv
  <2>3. session[x].gen = 1
    <3>1. session[x].gen <= 1 /\ session[x].gen # 0
      BY <2>1, <2>2 DEF SessionNumbers
    <3> QED
      BY <2>2, <3>1
  <2>4. DOMAIN <<>> = {}
    BY EmptySeq
  <2>5. \A p \in 0 .. (n - 1) : At(x, p)
    <3>1. \A f \in Frame : ~Queued(x, f)
      BY <2>4 DEF Queued
    <3> QED
      BY <2>1, <3>1 DEF Covered
  <2>6. /\ got[x] \in Seq(Frame) /\ preopen[x] \in Seq(Frame) /\ IsSidReorder(states[x])
        /\ states[x].next \in Nat
        /\ states[x] = NoState <=> got[x] = <<>>
        /\ \A m \in DOMAIN states[x].buf : m > states[x].next
        /\ got[x] # <<>> => got[x][Len(got[x])].sseq + 1 = states[x].next
    BY DEF DecoderTables, StateMatchesHistory, IsSidReorder
  <2>7. got[x] # <<>>
    <3> SUFFICES ASSUME got[x] = <<>> PROVE FALSE
      OBVIOUS
    <3>1. states[x].next = 0 /\ DOMAIN states[x].buf = {}
      BY <2>4, <2>6 DEF NoState
    <3>2. At(x, 0)
      BY <2>2, <2>5
    <3>3. PICK i \in DOMAIN preopen[x] : preopen[x][i].sseq = 0
      BY <3>1, <3>2 DEF At
    <3>4. preopen[x][i] \in Frame /\ Known(x, preopen[x][i])
      BY <2>6, <3>3, ElementOfSeq DEF Known, Stored
    <3>5. OfSession(x, preopen[x][i]) /\ preopen[x][i].ftype # "Open"
      BY <3>3, <3>4 DEF OneInv, FrameNumbers, StashedBefore
    <3> QED
      BY <3>3, <3>5 DEF OfSession
  <2>8. states[x].next = Len(got[x])
    <3>1. PICK l : l = Len(got[x])
      OBVIOUS
    <3>2. l \in DOMAIN got[x] /\ l \in Nat
      BY <2>6, <2>7, <3>1
    <3>3. got[x][l].sseq = l - 1
      BY <3>2 DEF OneInv, Consecutive
    <3>4. l - 1 + 1 = states[x].next
      BY <2>6, <2>7, <3>1, <3>3
    <3> QED
      BY <3>1, <3>2, <3>4
  <2>9. ~(states[x].next \in 0 .. (n - 1))
    <3> SUFFICES ASSUME states[x].next \in 0 .. (n - 1) PROVE FALSE
      OBVIOUS
    <3>1. At(x, states[x].next)
      BY <2>5
    <3>2. preopen[x] = <<>>
      BY <2>7 DEF OneInv, StashedBefore
    <3>3. states[x].next \in DOMAIN states[x].buf
      BY <2>4, <2>6, <3>1, <3>2 DEF At
    <3> QED
      BY <2>6, <3>3
  <2>10. n \in DOMAIN got[x]
    <3>1. n <= Len(got[x])
      BY <2>2, <2>6, <2>8, <2>9
    <3>2. DOMAIN got[x] = 1 .. Len(got[x]) /\ Len(got[x]) \in Nat
      BY <2>6
    <3> QED
      BY <2>2, <3>1, <3>2
  <2>11. got[x][n].gen = 1 /\ got[x][n].pos = n - 1
    <3>1. got[x][n] \in Frame /\ Known(x, got[x][n])
      BY <2>6, <2>10, ElementOfSeq DEF Known, Stored
    <3>2. got[x][n].gen = 1 /\ got[x][n].sseq = got[x][n].pos
      BY <3>1 DEF OneInv, FrameNumbers, OfSession
    <3> QED
      BY <2>10, <3>2 DEF OneInv, Consecutive
  <2> QED
    BY <2>1, <2>3, <2>10, <2>11 DEF Delivered
<1> QED
  BY <1>1, <1>2, <1>3, OneInvHolds, DecoderInvariant, PTL DEF Spec
=============================================================================
