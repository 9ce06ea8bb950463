----------------------------- MODULE SrtConnProofs -----------------------------
(***************************************************************************)
(* For every pair of watermarks, every batch size and any number of        *)
(* senders and callers of close: the receive path of a connection loses,   *)
(* repeats and swaps nothing between srt_recvmsg and the dispatcher, and   *)
(* the backlog counter is exact whenever the receive thread looks at it.   *)
(***************************************************************************)
EXTENDS SrtConn, SequenceTheorems, TLAPS

-----------------------------------------------------------------------------
(* The variables of the receive path, which are all that the invariant is  *)
(* about.                                                                  *)
Message == 0 .. MaxMsgs
PathTypes ==
  /\ arrived \in 0 .. MaxMsgs /\ read \in 0 .. arrived
  /\ chan \in Seq(Message) /\ batch \in Seq(Message) /\ given \in Seq(1 .. MaxMsgs)
  /\ recv_len \in Int

(* The receive thread has not left its loop. *)
Looping == {"drain0", "count0", "head", "paused", "wait", "drain", "count"}

(* While it loops no empty message was sent, and the counter misses the    *)
(* message just sent and still has the message just taken.                 *)
Counting ==
  rt \in Looping =>
    /\ recv_len = Len(chan) + (IF cn \in {"sub1", "sub"} THEN 1 ELSE 0)
                            - (IF rt \in {"count0", "count"} THEN 1 ELSE 0)
    /\ \A i \in DOMAIN chan : chan[i] # 0
    /\ \A i \in DOMAIN batch : batch[i] # 0

(* A batch is being collected only between the first message and the       *)
(* return, and an empty message can only be its last.                      *)
Batching ==
  /\ cn \in {"first", "closed", "stopped"} => batch = <<>>
  /\ cn \in {"sub1", "more", "sub"} => batch # <<>>
  /\ cn = "sub1" => Len(batch) = 1
  /\ cn \in {"sub1", "sub"} => \A i \in 1 .. (Len(batch) - 1) : batch[i] # 0
  /\ cn = "more" => \A i \in DOMAIN batch : batch[i] # 0

(* NothingLost in three parts: what the k-th message is, in each of the    *)
(* three places a message can be.                                          *)
Nth(k, n) == IF k <= n THEN k ELSE 0
InSequence(g, b, c, n) ==
  /\ Len(g) + Len(b) + Len(c) >= n
  /\ \A i \in 1 .. Len(g) : g[i] = Nth(i, n)
  /\ \A i \in 1 .. Len(b) : b[i] = Nth(Len(g) + i, n)
  /\ \A i \in 1 .. Len(c) : c[i] = Nth(Len(g) + Len(b) + i, n)

ConnInv ==
  /\ PathTypes
  /\ Counting
  /\ Batching
  /\ ~dropped => InSequence(given, batch, chan, read)

-----------------------------------------------------------------------------
(* Sequences.                                                              *)

LEMMA Appended ==
  ASSUME NEW S, NEW q \in Seq(S), NEW x \in S
  PROVE  /\ Append(q, x) \in Seq(S) /\ Len(Append(q, x)) = Len(q) + 1 /\ Len(q) \in Nat
         /\ Append(q, x)[Len(q) + 1] = x /\ \A i \in 1 .. Len(q) : Append(q, x)[i] = q[i]
         /\ DOMAIN Append(q, x) = 1 .. (Len(q) + 1) /\ DOMAIN q = 1 .. Len(q)
  OBVIOUS

LEMMA Beheaded ==
  ASSUME NEW S, NEW q \in Seq(S), q # <<>>
  PROVE  /\ Tail(q) \in Seq(S) /\ Len(Tail(q)) = Len(q) - 1 /\ Len(q) \in Nat /\ Len(q) > 0
         /\ Head(q) = q[1] /\ Head(q) \in S
         /\ \A i \in 1 .. (Len(q) - 1) : Tail(q)[i] = q[i + 1]
         /\ DOMAIN Tail(q) = 1 .. (Len(q) - 1) /\ DOMAIN q = 1 .. Len(q)
  OBVIOUS

LEMMA Joined ==
  ASSUME NEW S, NEW g \in Seq(S), NEW b \in Seq(S)
  PROVE  /\ g \o b \in Seq(S) /\ Len(g \o b) = Len(g) + Len(b) /\ Len(g) \in Nat /\ Len(b) \in Nat
         /\ \A i \in 1 .. Len(g) : (g \o b)[i] = g[i]
         /\ \A i \in 1 .. Len(b) : (g \o b)[Len(g) + i] = b[i]
  OBVIOUS

(* A message read goes to the end of the channel. *)
LEMMA SequenceRead ==
  ASSUME NEW g \in Seq(Message), NEW b \in Seq(Message), NEW c \in Seq(Message), NEW n \in Nat,
         InSequence(g, b, c, n), n + 1 \in Message,
         \A i \in DOMAIN b : b[i] # 0, \A i \in DOMAIN c : c[i] # 0, \A i \in DOMAIN g : g[i] # 0
  PROVE  InSequence(g, b, Append(c, n + 1), n + 1)
<1> DEFINE lg == Len(g)
           lb == Len(b)
           lc == Len(c)
           d == Append(c, n + 1)
<1>1. lg \in Nat /\ lb \in Nat /\ lc \in Nat
  OBVIOUS
<1>2. DOMAIN g = 1 .. lg /\ DOMAIN b = 1 .. lb /\ DOMAIN c = 1 .. lc
  OBVIOUS
<1>3. Len(d) = lc + 1 /\ d[lc + 1] = n + 1 /\ \A i \in 1 .. lc : d[i] = c[i]
  BY Appended
<1>4. /\ lg + lb + lc >= n
      /\ \A i \in 1 .. lg : g[i] = Nth(i, n)
      /\ \A i \in 1 .. lb : b[i] = Nth(lg + i, n)
      /\ \A i \in 1 .. lc : c[i] = Nth(lg + lb + i, n)
  BY DEF InSequence
<1> HIDE DEF lg, lb, lc, d
<1>5. /\ \A i \in 1 .. lg : i <= n
      /\ \A i \in 1 .. lb : lg + i <= n
      /\ \A i \in 1 .. lc : lg + lb + i <= n
  BY <1>2, <1>4 DEF Nth
<1>6. lg + lb + lc = n
  <2>1. CASE lc > 0
    <3>1. lc \in 1 .. lc
      BY <1>1, <2>1
    <3>2. lg + lb + lc <= n
      BY <1>5, <3>1
    <3> QED
      BY <1>1, <1>4, <3>2
  <2>2. CASE lc = 0 /\ lb > 0
    <3>1. lb \in 1 .. lb
      BY <1>1, <2>2
    <3>2. lg + lb <= n
      BY <1>5, <3>1
    <3> QED
      BY <1>1, <1>4, <2>2, <3>2
  <2>3. CASE lc = 0 /\ lb = 0
    <3>1. lg > 0 => lg \in 1 .. lg
      BY <1>1
    <3>2. lg > 0 => lg <= n
      BY <1>5, <3>1
    <3> QED
      BY <1>1, <1>4, <2>3, <3>2
  <2> QED
    BY <1>1, <2>1, <2>2, <2>3
<1>7. /\ \A i \in 1 .. lg : g[i] = Nth(i, n + 1)
      /\ \A i \in 1 .. lb : b[i] = Nth(lg + i, n + 1)
      /\ \A i \in 1 .. lc : c[i] = Nth(lg + lb + i, n + 1)
  <2>1. \A k \in Int : k <= n => Nth(k, n) = Nth(k, n + 1)
    BY DEF Nth
  <2>2. /\ \A i \in 1 .. lg : i \in Int
        /\ \A i \in 1 .. lb : lg + i \in Int
        /\ \A i \in 1 .. lc : lg + lb + i \in Int
    BY <1>1
  <2> QED
    BY <1>4, <1>5, <2>1, <2>2
<1>8. \A i \in 1 .. (lc + 1) : d[i] = Nth(lg + lb + i, n + 1)
  <2> SUFFICES ASSUME NEW i \in 1 .. (lc + 1) PROVE d[i] = Nth(lg + lb + i, n + 1)
    OBVIOUS
  <2>1. CASE i = lc + 1
    <3>1. lg + lb + i = n + 1
      BY <1>1, <1>6, <2>1
    <3> QED
      BY <1>3, <2>1, <3>1 DEF Nth
  <2>2. CASE i \in 1 .. lc
    BY <1>3, <1>7, <2>2
  <2> QED
    BY <1>1, <2>1, <2>2
<1>9. lg + lb + (lc + 1) >= n + 1
  BY <1>1, <1>6
<1> QED
  BY <1>3, <1>7, <1>8, <1>9 DEF InSequence, lg, lb, lc, d

(* An empty message at the end of the channel changes nothing. *)
LEMMA SequenceEmpty ==
  ASSUME NEW g \in Seq(Message), NEW b \in Seq(Message), NEW c \in Seq(Message), NEW n \in Nat,
         InSequence(g, b, c, n), MaxMsgs \in Nat
  PROVE  InSequence(g, b, Append(c, 0), n)
<1> DEFINE lg == Len(g)
           lb == Len(b)
           lc == Len(c)
           d == Append(c, 0)
<1>1. lg \in Nat /\ lb \in Nat /\ lc \in Nat
  OBVIOUS
<1>3. Len(d) = lc + 1 /\ d[lc + 1] = 0 /\ \A i \in 1 .. lc : d[i] = c[i]
  <2>1. 0 \in Message
    BY DEF Message
  <2> QED
    BY <2>1, Appended
<1>4. /\ lg + lb + lc >= n
      /\ \A i \in 1 .. lg : g[i] = Nth(i, n)
      /\ \A i \in 1 .. lb : b[i] = Nth(lg + i, n)
      /\ \A i \in 1 .. lc : c[i] = Nth(lg + lb + i, n)
  BY DEF InSequence
<1> HIDE DEF lg, lb, lc, d
<1>8. \A i \in 1 .. (lc + 1) : d[i] = Nth(lg + lb + i, n)
  <2> SUFFICES ASSUME NEW i \in 1 .. (lc + 1) PROVE d[i] = Nth(lg + lb + i, n)
    OBVIOUS
  <2>1. CASE i = lc + 1
    <3>1. ~(lg + lb + i <= n)
      BY <1>1, <1>4, <2>1
    <3> QED
      BY <1>3, <2>1, <3>1 DEF Nth
  <2>2. CASE i \in 1 .. lc
    BY <1>3, <1>4, <2>2
  <2> QED
    BY <1>1, <2>1, <2>2
<1>9. lg + lb + (lc + 1) >= n
  BY <1>1, <1>4
<1> QED
  BY <1>3, <1>4, <1>8, <1>9 DEF InSequence, lg, lb, lc, d

(* The task takes a message from the channel into the batch. *)
LEMMA SequenceTake ==
  ASSUME NEW g \in Seq(Message), NEW b \in Seq(Message), NEW c \in Seq(Message), NEW n \in Nat,
         InSequence(g, b, c, n), c # <<>>
  PROVE  InSequence(g, Append(b, Head(c)), Tail(c), n)
<1> DEFINE lg == Len(g)
           lb == Len(b)
           lc == Len(c)
           e == Append(b, Head(c))
           d == Tail(c)
<1>1. lg \in Nat /\ lb \in Nat /\ lc \in Nat
  OBVIOUS
<1>2. /\ Len(d) = lc - 1 /\ lc > 0 /\ Head(c) = c[1] /\ Head(c) \in Message
      /\ \A i \in 1 .. (lc - 1) : d[i] = c[i + 1]
  BY Beheaded
<1>3. Len(e) = lb + 1 /\ e[lb + 1] = c[1] /\ \A i \in 1 .. lb : e[i] = b[i]
  BY <1>2, Appended
<1>4. /\ lg + lb + lc >= n
      /\ \A i \in 1 .. lg : g[i] = Nth(i, n)
      /\ \A i \in 1 .. lb : b[i] = Nth(lg + i, n)
      /\ \A i \in 1 .. lc : c[i] = Nth(lg + lb + i, n)
  BY DEF InSequence
<1> HIDE DEF lg, lb, lc, d, e
<1>5. \A i \in 1 .. (lb + 1) : e[i] = Nth(lg + i, n)
  <2> SUFFICES ASSUME NEW i \in 1 .. (lb + 1) PROVE e[i] = Nth(lg + i, n)
    OBVIOUS
  <2>1. CASE i = lb + 1
    <3>1. lg + i = lg + lb + 1 /\ 1 \in 1 .. lc
      BY <1>1, <1>2, <2>1
    <3>2. c[1] = Nth(lg + lb + 1, n)
      BY <1>4, <3>1
    <3> QED
      BY <1>3, <2>1, <3>1, <3>2
  <2>2. CASE i \in 1 .. lb
    BY <1>3, <1>4, <2>2
  <2> QED
    BY <1>1, <2>1, <2>2
<1>6. \A i \in 1 .. (lc - 1) : d[i] = Nth(lg + (lb + 1) + i, n)
  <2> SUFFICES ASSUME NEW i \in 1 .. (lc - 1) PROVE d[i] = Nth(lg + (lb + 1) + i, n)
    OBVIOUS
  <2>1. i + 1 \in 1 .. lc /\ lg + lb + (i + 1) = lg + (lb + 1) + i
    BY <1>1
  <2>2. c[i + 1] = Nth(lg + lb + (i + 1), n)
    BY <1>4, <2>1
  <2> QED
    BY <1>2, <2>1, <2>2
<1>7. lg + (lb + 1) + (lc - 1) >= n
  BY <1>1, <1>4
<1> QED
  BY <1>2, <1>3, <1>4, <1>5, <1>6, <1>7 DEF InSequence, lg, lb, lc, d, e

(* The batch is handed over. *)
LEMMA SequenceGive ==
  ASSUME NEW g \in Seq(Message), NEW b \in Seq(Message), NEW c \in Seq(Message), NEW n \in Nat,
         InSequence(g, b, c, n)
  PROVE  InSequence(g \o b, <<>>, c, n)
<1> DEFINE lg == Len(g)
           lb == Len(b)
           lc == Len(c)
           h == g \o b
<1>1. lg \in Nat /\ lb \in Nat /\ lc \in Nat /\ Len(<<>>) = 0
  OBVIOUS
<1>2. /\ Len(h) = lg + lb
      /\ \A i \in 1 .. lg : h[i] = g[i]
      /\ \A i \in 1 .. lb : h[lg + i] = b[i]
  BY Joined
<1>4. /\ lg + lb + lc >= n
      /\ \A i \in 1 .. lg : g[i] = Nth(i, n)
      /\ \A i \in 1 .. lb : b[i] = Nth(lg + i, n)
      /\ \A i \in 1 .. lc : c[i] = Nth(lg + lb + i, n)
  BY DEF InSequence
<1> HIDE DEF lg, lb, lc, h
<1>5. \A i \in 1 .. (lg + lb) : h[i] = Nth(i, n)
  <2> SUFFICES ASSUME NEW i \in 1 .. (lg + lb) PROVE h[i] = Nth(i, n)
    OBVIOUS
  <2>1. CASE i \in 1 .. lg
    BY <1>2, <1>4, <2>1
  <2>2. CASE ~(i \in 1 .. lg)
    <3>1. PICK k \in 1 .. lb : i = lg + k
      <4>1. i - lg \in 1 .. lb /\ i = lg + (i - lg)
        BY <1>1, <2>2
      <4> QED
        BY <4>1
    <3> QED
      BY <1>2, <1>4, <3>1
  <2> QED
    BY <2>1, <2>2
<1>6. \A i \in 1 .. lc : c[i] = Nth((lg + lb) + 0 + i, n)
  <2> SUFFICES ASSUME NEW i \in 1 .. lc PROVE c[i] = Nth((lg + lb) + 0 + i, n)
    OBVIOUS
  <2>1. (lg + lb) + 0 + i = lg + lb + i
    BY <1>1
  <2> QED
    BY <1>4, <2>1
<1>7. (lg + lb) + 0 + lc >= n /\ 1 .. 0 = {}
  BY <1>1, <1>4
<1> QED
  BY <1>1, <1>2, <1>5, <1>6, <1>7 DEF InSequence, lg, lb, lc, h

(* The empty message at the end of the batch is taken away. *)
LEMMA SequenceStrip ==
  ASSUME NEW g \in Seq(Message), NEW b \in Seq(Message), NEW c \in Seq(Message), NEW n \in Nat,
         InSequence(g, b, c, n), b # <<>>, b[Len(b)] = 0,
         NEW e \in Seq(Message), Len(e) = Len(b) - 1, \A i \in 1 .. (Len(b) - 1) : e[i] = b[i]
  PROVE  InSequence(g, e, c, n)
<1> DEFINE lg == Len(g)
           lb == Len(b)
           lc == Len(c)
<1>1. lg \in Nat /\ lb \in Nat /\ lc \in Nat /\ lb > 0
  OBVIOUS
<1>2. Len(e) = lb - 1 /\ (\A i \in 1 .. (lb - 1) : e[i] = b[i]) /\ b[lb] = 0
  OBVIOUS
<1>4. /\ lg + lb + lc >= n
      /\ \A i \in 1 .. lg : g[i] = Nth(i, n)
      /\ \A i \in 1 .. lb : b[i] = Nth(lg + i, n)
      /\ \A i \in 1 .. lc : c[i] = Nth(lg + lb + i, n)
  BY DEF InSequence
<1> HIDE DEF lg, lb, lc
<1>5. lg + lb > n
  <2>1. lb \in 1 .. lb
    BY <1>1
  <2>2. Nth(lg + lb, n) = 0
    BY <1>2, <1>4, <2>1
  <2> QED
    BY <1>1, <2>2 DEF Nth
<1>6. \A i \in 1 .. (lb - 1) : e[i] = Nth(lg + i, n)
  <2>1. \A i \in 1 .. (lb - 1) : i \in 1 .. lb
    BY <1>1
  <2> QED
    BY <1>2, <1>4, <2>1
<1>7. \A i \in 1 .. lc : c[i] = Nth(lg + (lb - 1) + i, n)
  BY <1>1, <1>4, <1>5 DEF Nth
<1>8. lg + (lb - 1) + lc >= n
  BY <1>1, <1>5
<1> QED
  BY <1>2, <1>4, <1>6, <1>7, <1>8 DEF InSequence, lg, lb, lc

(* What the dispatcher was given are messages too. *)
LEMMA GivenAreMessages ==
  ASSUME NEW g \in Seq(1 .. MaxMsgs), MaxMsgs \in Nat
  PROVE  g \in Seq(Message) /\ \A i \in DOMAIN g : g[i] # 0
<1>1. \A m \in 1 .. MaxMsgs : m \in Message /\ m # 0
  BY DEF Message
<1>2. Len(g) \in Nat /\ DOMAIN g = 1 .. Len(g) /\ \A i \in DOMAIN g : g[i] \in 1 .. MaxMsgs
  OBVIOUS
<1>3. g \in [1 .. Len(g) -> Message]
  BY <1>1, <1>2
<1> QED
  BY <1>1, <1>2, <1>3

(* Messages that are not empty. *)
LEMMA NonemptyMessages ==
  ASSUME NEW b \in Seq(Message), \A i \in DOMAIN b : b[i] # 0, MaxMsgs \in Nat
  PROVE  b \in Seq(1 .. MaxMsgs)
<1>1. \A m \in Message : m # 0 => m \in 1 .. MaxMsgs
  BY DEF Message
<1>2. Len(b) \in Nat /\ DOMAIN b = 1 .. Len(b) /\ \A i \in DOMAIN b : b[i] \in Message
  OBVIOUS
<1>3. b \in [1 .. Len(b) -> 1 .. MaxMsgs]
  BY <1>1, <1>2
<1> QED
  BY <1>2, <1>3

-----------------------------------------------------------------------------
(* The steps.                                                              *)

LEMMA ConnInit == Init => ConnInv
<1> SUFFICES ASSUME Init PROVE ConnInv
  OBVIOUS
<1>1. /\ chan = <<>> /\ batch = <<>> /\ given = <<>> /\ Len(<<>>) = 0 /\ DOMAIN <<>> = {}
      /\ \A S : <<>> \in Seq(S)
  BY EmptySeq DEF Init
<1>2. PathTypes
  BY <1>1, ConnAssumption DEF Init, PathTypes
<1>3. Counting /\ Batching
  BY <1>1 DEF Init, Counting, Batching, Looping
<1>4. InSequence(given, batch, chan, read)
  BY <1>1 DEF Init, InSequence
<1> QED
  BY <1>2, <1>3, <1>4 DEF ConnInv

(* Steps that touch nothing of the receive path. *)
LEMMA OutsideThePath ==
  ASSUME ConnInv, UNCHANGED <<arrived, read, rt, chan, recv_len, cn, batch, given>>,
         ~dropped' => ~dropped
  PROVE  ConnInv'
  BY DEF ConnInv, PathTypes, Counting, Batching, InSequence, Nth

(* Steps of the receive thread that move it and nothing else. *)
LEMMA ThreadMoves ==
  ASSUME ConnInv, UNCHANGED <<arrived, read, chan, recv_len, cn, batch, given, dropped>>,
         rt' \in Looping => rt \in Looping /\ rt \notin {"count0", "count"} /\ rt' \notin {"count0", "count"}
  PROVE  ConnInv'
<1>1. PathTypes' /\ Batching' /\ (~dropped => InSequence(given, batch, chan, read))'
  BY DEF ConnInv, PathTypes, Batching, InSequence, Nth
<1>2. Counting'
  BY DEF ConnInv, Counting
<1> QED
  BY <1>1, <1>2 DEF ConnInv

LEMMA ReadKeeps ==
  ASSUME ConnInv, ReadMessage
  PROVE  ConnInv'
<1>1. /\ rt \in {"drain0", "drain"} /\ read < arrived /\ read' = read + 1
      /\ UNCHANGED <<arrived, cn, batch, given, recv_len, dropped>>
      /\ dropped => rt' = "mark" /\ chan' = chan
      /\ ~dropped => /\ chan' = Append(chan, read + 1)
                     /\ rt' = IF rt = "drain0" THEN "count0" ELSE "count"
  BY DEF ReadMessage, RecvThread, sockVars, taskVars, sendVars, closeVars
<1>2. /\ arrived \in 0 .. MaxMsgs /\ read \in 0 .. arrived /\ MaxMsgs \in Nat
      /\ chan \in Seq(Message) /\ batch \in Seq(Message) /\ given \in Seq(1 .. MaxMsgs)
      /\ recv_len \in Int
  BY ConnAssumption DEF ConnInv, PathTypes
<1>3. PICK n : n = read
  OBVIOUS
<1>4. n \in Nat /\ n + 1 \in 0 .. arrived /\ n + 1 \in Message
  BY <1>1, <1>2, <1>3 DEF Message
<1>5. /\ Append(chan, n + 1) \in Seq(Message) /\ Len(Append(chan, n + 1)) = Len(chan) + 1 /\ Len(chan) \in Nat
      /\ Append(chan, n + 1)[Len(chan) + 1] = n + 1
      /\ \A i \in 1 .. Len(chan) : Append(chan, n + 1)[i] = chan[i]
      /\ DOMAIN Append(chan, n + 1) = 1 .. (Len(chan) + 1) /\ DOMAIN chan = 1 .. Len(chan)
  BY <1>2, <1>4, Appended
<1>6. PathTypes'
  BY <1>1, <1>2, <1>3, <1>4, <1>5 DEF PathTypes
<1>7. Batching'
  BY <1>1 DEF ConnInv, Batching
<1>8. CASE dropped
  <2>1. Counting'
    BY <1>1, <1>8 DEF Counting, Looping
  <2> QED
    BY <1>1, <1>6, <1>7, <1>8, <2>1 DEF ConnInv
<1>9. CASE ~dropped
  <2>1. chan' = Append(chan, n + 1) /\ rt' \in {"count0", "count"} /\ rt \in Looping
    BY <1>1, <1>3, <1>9 DEF Looping
  <2>2. /\ \A i \in DOMAIN chan : chan[i] # 0
        /\ \A i \in DOMAIN batch : batch[i] # 0
        /\ recv_len = Len(chan) + (IF cn \in {"sub1", "sub"} THEN 1 ELSE 0)
    <3>1. rt \notin {"count0", "count"}
      BY <1>1
    <3>2. PICK u \in {0, 1} : u = IF cn \in {"sub1", "sub"} THEN 1 ELSE 0
      OBVIOUS
    <3>3. /\ recv_len = Len(chan) + u - 0
          /\ \A i \in DOMAIN chan : chan[i] # 0
          /\ \A i \in DOMAIN batch : batch[i] # 0
      BY <2>1, <3>1, <3>2 DEF ConnInv, Counting
    <3>4. recv_len = Len(chan) + u
      BY <1>5, <3>3
    <3> QED
      BY <3>2, <3>3, <3>4
  <2>3. Counting'
    <3>1. \A i \in DOMAIN chan' : chan'[i] # 0
      <4>1. \A i \in 1 .. (Len(chan) + 1) : i = Len(chan) + 1 \/ i \in 1 .. Len(chan)
        BY <1>5
      <4>2. n + 1 # 0
        BY <1>4
      <4> QED
        BY <1>5, <2>1, <2>2, <4>1, <4>2
    <3>2. recv_len = Len(chan') + (IF cn \in {"sub1", "sub"} THEN 1 ELSE 0) - 1
      <4>1. PICK u \in {0, 1} : u = IF cn \in {"sub1", "sub"} THEN 1 ELSE 0
        OBVIOUS
      <4>2. PICK m \in Nat : m = Len(chan)
        BY <1>5
      <4>3. recv_len = m + u /\ Len(chan') = m + 1
        BY <1>5, <2>1, <2>2, <4>1, <4>2
      <4>4. recv_len = (m + 1) + u - 1
        BY <4>3
      <4> QED
        BY <4>1, <4>3, <4>4
    <3> QED
      BY <1>1, <2>1, <2>2, <3>1, <3>2 DEF Counting
  <2>4. InSequence(given, batch, Append(chan, n + 1), n + 1)
    <3>1. InSequence(given, batch, chan, n)
      BY <1>3, <1>9 DEF ConnInv
    <3>2. given \in Seq(Message) /\ \A i \in DOMAIN given : given[i] # 0
      BY <1>2, GivenAreMessages
    <3> QED
      BY <1>2, <1>4, <2>2, <3>1, <3>2, SequenceRead
  <2>5. InSequence(given, batch, chan, read)'
    BY <1>1, <1>3, <2>1, <2>4 DEF InSequence, Nth
  <2> QED
    BY <1>6, <1>7, <2>3, <2>5 DEF ConnInv
<1> QED
  BY <1>8, <1>9

LEMMA CountKeeps ==
  ASSUME ConnInv, CountMessage
  PROVE  ConnInv'
<1>1. /\ rt \in {"count0", "count"} /\ recv_len' = recv_len + 1 /\ rt' \in {"drain0", "drain"}
      /\ UNCHANGED <<arrived, read, chan, cn, batch, given, dropped>>
  BY DEF CountMessage, RecvThread, sockVars, taskVars, sendVars, closeVars
<1>2. PathTypes' /\ Batching' /\ (~dropped => InSequence(given, batch, chan, read))'
  BY <1>1 DEF ConnInv, PathTypes, Batching, InSequence, Nth
<1>3. Counting'
  <2>1. /\ recv_len = Len(chan) + (IF cn \in {"sub1", "sub"} THEN 1 ELSE 0) - 1
        /\ \A i \in DOMAIN chan : chan[i] # 0
        /\ \A i \in DOMAIN batch : batch[i] # 0
    BY <1>1 DEF ConnInv, Counting, Looping
  <2>2. Len(chan) \in Nat /\ recv_len \in Int
    BY DEF ConnInv, PathTypes
  <2>3. recv_len + 1 = Len(chan) + (IF cn \in {"sub1", "sub"} THEN 1 ELSE 0) - 0
    BY <2>1, <2>2
  <2> QED
    BY <1>1, <2>1, <2>3 DEF Counting
<1> QED
  BY <1>2, <1>3 DEF ConnInv

(* An empty message. *)
LEMMA EmptyKeeps ==
  ASSUME ConnInv, rt' \notin Looping, chan' = IF dropped THEN chan ELSE Append(chan, 0),
         UNCHANGED <<arrived, read, recv_len, cn, batch, given, dropped>>
  PROVE  ConnInv'
<1>1. /\ arrived \in 0 .. MaxMsgs /\ read \in 0 .. arrived /\ MaxMsgs \in Nat /\ read \in Nat
      /\ chan \in Seq(Message) /\ batch \in Seq(Message) /\ given \in Seq(1 .. MaxMsgs)
      /\ recv_len \in Int /\ 0 \in Message
  BY ConnAssumption DEF ConnInv, PathTypes, Message
<1>2. Append(chan, 0) \in Seq(Message)
  BY <1>1, Appended
<1>3. PathTypes' /\ Batching' /\ Counting'
  BY <1>1, <1>2 DEF ConnInv, PathTypes, Batching, Counting
<1>4. ~dropped => InSequence(given, batch, Append(chan, 0), read)
  BY <1>1, GivenAreMessages, SequenceEmpty DEF ConnInv
<1>5. (~dropped => InSequence(given, batch, chan, read))'
  BY <1>4 DEF InSequence, Nth
<1> QED
  BY <1>3, <1>5 DEF ConnInv

(* The task takes a message: the first of a batch or one more. *)
LEMMA TakeKeeps ==
  ASSUME ConnInv, TakeFirst \/ TakeMore
  PROVE  ConnInv'
<1>1. /\ arrived \in 0 .. MaxMsgs /\ read \in 0 .. arrived /\ MaxMsgs \in Nat /\ read \in Nat
      /\ chan \in Seq(Message) /\ batch \in Seq(Message) /\ given \in Seq(1 .. MaxMsgs)
      /\ recv_len \in Int
  BY ConnAssumption DEF ConnInv, PathTypes
<1>2. /\ chan # <<>> /\ chan' = Tail(chan)
      /\ UNCHANGED <<arrived, read, rt, recv_len, given, dropped>>
      /\ \/ cn = "first" /\ cn' = "sub1" /\ batch' = <<Head(chan)>>
         \/ cn = "more" /\ cn' = "sub" /\ batch' = Append(batch, Head(chan))
  BY DEF TakeFirst, TakeMore, Task, sockVars, sendVars, closeVars
<1>3. batch' = Append(batch, Head(chan)) /\ (cn = "first" => batch = <<>>)
  <2>1. cn = "first" => batch = <<>>
    BY DEF ConnInv, Batching
  <2>2. \A x : <<x>> = Append(<<>>, x)
    OBVIOUS
  <2> QED
    BY <1>2, <2>1, <2>2
<1>4. PICK x : x = Head(chan)
  OBVIOUS
<1>5. /\ Tail(chan) \in Seq(Message) /\ Len(Tail(chan)) = Len(chan) - 1
      /\ Len(chan) \in Nat /\ x = chan[1] /\ x \in Message /\ Len(chan) > 0
      /\ \A i \in 1 .. (Len(chan) - 1) : Tail(chan)[i] = chan[i + 1]
      /\ DOMAIN Tail(chan) = 1 .. (Len(chan) - 1) /\ DOMAIN chan = 1 .. Len(chan)
  BY <1>1, <1>2, <1>4, Beheaded
<1>6. /\ Append(batch, x) \in Seq(Message) /\ Len(Append(batch, x)) = Len(batch) + 1 /\ Len(batch) \in Nat
      /\ Append(batch, x)[Len(batch) + 1] = x
      /\ \A i \in 1 .. Len(batch) : Append(batch, x)[i] = batch[i]
      /\ DOMAIN Append(batch, x) = 1 .. (Len(batch) + 1) /\ DOMAIN batch = 1 .. Len(batch)
  BY <1>1, <1>5, Appended
<1>7. PathTypes'
  BY <1>1, <1>2, <1>3, <1>4, <1>5, <1>6 DEF PathTypes
<1>8. Batching'
  <2>1. PICK l \in Nat : l = Len(batch)
    BY <1>6
  <2>2. Len(batch') = l + 1 /\ batch' # <<>> /\ cn' \in {"sub1", "sub"}
    BY <1>2, <1>3, <1>4, <1>6, <2>1
  <2>3. cn' = "sub1" => Len(batch') = 1
    <3>1. cn' = "sub1" => batch = <<>>
      BY <1>2, <1>3
    <3>2. Len(<<>>) = 0
      OBVIOUS
    <3> QED
      BY <2>1, <2>2, <3>1, <3>2
  <2>4. \A i \in 1 .. l : batch'[i] # 0
    <3>1. CASE cn = "first"
      <4>1. l = 0
        BY <1>3, <2>1, <3>1
      <4> QED
        BY <4>1
    <3>2. CASE cn = "more"
      <4>1. \A i \in 1 .. l : batch[i] # 0
        BY <1>6, <2>1, <3>2 DEF ConnInv, Batching
      <4> QED
        BY <1>3, <1>4, <1>6, <2>1, <4>1
    <3> QED
      BY <1>2, <3>1, <3>2
  <2>5. 1 .. (Len(batch') - 1) = 1 .. l
    BY <2>1, <2>2
  <2> QED
    BY <2>2, <2>3, <2>4, <2>5 DEF Batching
<1>9. Counting'
  <2> SUFFICES ASSUME rt \in Looping PROVE Counting'
    BY <1>2 DEF Counting
  <2>1. PICK w \in {0, 1} : w = IF rt \in {"count0", "count"} THEN 1 ELSE 0
    OBVIOUS
  <2>2. PICK m \in Nat : m = Len(chan)
    BY <1>5
  <2>3. cn \notin {"sub1", "sub"} /\ cn' \in {"sub1", "sub"}
    BY <1>2
  <2>4. /\ recv_len = m + 0 - w
        /\ \A i \in DOMAIN chan : chan[i] # 0
        /\ \A i \in DOMAIN batch : batch[i] # 0
    BY <2>1, <2>2, <2>3 DEF ConnInv, Counting
  <2>5. Len(chan') = m - 1
    BY <1>2, <1>5, <2>2
  <2>6. recv_len = (m - 1) + 1 - w
    BY <2>4
  <2>7. \A i \in DOMAIN chan' : chan'[i] # 0
    <3>1. \A i \in 1 .. (Len(chan) - 1) : i + 1 \in 1 .. Len(chan)
      BY <1>5
    <3> QED
      BY <1>2, <1>5, <2>4, <3>1
  <2>8. \A i \in DOMAIN batch' : batch'[i] # 0
    <3>1. \A i \in 1 .. (Len(batch) + 1) : i = Len(batch) + 1 \/ i \in 1 .. Len(batch)
      BY <1>6
    <3>2. x # 0
      <4>1. 1 \in DOMAIN chan
        BY <1>5
      <4> QED
        BY <1>5, <2>4, <4>1
    <3> QED
      BY <1>3, <1>4, <1>6, <2>4, <3>1, <3>2
  <2> QED
    BY <1>2, <2>1, <2>3, <2>5, <2>6, <2>7, <2>8 DEF Counting
<1>10. ~dropped => InSequence(given, Append(batch, Head(chan)), Tail(chan), read)
  BY <1>1, <1>2, GivenAreMessages, SequenceTake DEF ConnInv
<1>11. (~dropped => InSequence(given, batch, chan, read))'
  BY <1>2, <1>3, <1>10 DEF InSequence, Nth
<1> QED
  BY <1>7, <1>8, <1>9, <1>11 DEF ConnInv

(* A message is counted and stays in the batch. *)
LEMMA KeptKeeps ==
  ASSUME ConnInv, cn \in {"sub1", "sub"}, cn' = "more", recv_len' = recv_len - 1,
         batch[Len(batch)] # 0,
         UNCHANGED <<arrived, read, rt, chan, batch, given, dropped>>
  PROVE  ConnInv'
<1>1. PathTypes' /\ (~dropped => InSequence(given, batch, chan, read))'
  BY DEF ConnInv, PathTypes, InSequence, Nth
<1>2. Batching'
  <2>1. batch # <<>> /\ \A i \in 1 .. (Len(batch) - 1) : batch[i] # 0
    BY DEF ConnInv, Batching
  <2>2. Len(batch) \in Nat /\ DOMAIN batch = 1 .. Len(batch)
    BY DEF ConnInv, PathTypes
  <2>3. \A i \in DOMAIN batch : i = Len(batch) \/ i \in 1 .. (Len(batch) - 1)
    BY <2>2
  <2>4. \A i \in DOMAIN batch : batch[i] # 0
    BY <2>1, <2>3
  <2> QED
    BY <2>1, <2>4 DEF Batching
<1>3. Counting'
  <2> SUFFICES ASSUME rt \in Looping PROVE Counting'
    BY DEF Counting
  <2>1. PICK w \in {0, 1} : w = IF rt \in {"count0", "count"} THEN 1 ELSE 0
    OBVIOUS
  <2>2. PICK m \in Nat : m = Len(chan)
    BY DEF ConnInv, PathTypes
  <2>4. /\ recv_len = m + 1 - w
        /\ \A i \in DOMAIN chan : chan[i] # 0
        /\ \A i \in DOMAIN batch : batch[i] # 0
    BY <2>1, <2>2 DEF ConnInv, Counting
  <2>5. recv_len - 1 = m + 0 - w
    BY <2>4
  <2>6. cn' \notin {"sub1", "sub"}
    OBVIOUS
  <2> QED
    BY <2>1, <2>2, <2>4, <2>5, <2>6 DEF Counting
<1> QED
  BY <1>1, <1>2, <1>3 DEF ConnInv

(* Part e of the batch is handed over, and nothing else of it counts. *)
LEMMA GiveKeeps ==
  ASSUME ConnInv, cn' \in {"first", "closed"}, batch' = <<>>,
         NEW e \in Seq(Message), \A i \in DOMAIN e : e[i] # 0, given' = given \o e,
         ~dropped => InSequence(given, e, chan, read),
         recv_len' \in Int, Counting',
         UNCHANGED <<arrived, read, chan, dropped>>
  PROVE  ConnInv'
<1>1. /\ arrived \in 0 .. MaxMsgs /\ read \in 0 .. arrived /\ MaxMsgs \in Nat /\ read \in Nat
      /\ chan \in Seq(Message) /\ given \in Seq(1 .. MaxMsgs) /\ <<>> \in Seq(Message)
  BY ConnAssumption DEF ConnInv, PathTypes
<1>2. e \in Seq(1 .. MaxMsgs)
  BY <1>1, NonemptyMessages
<1>3. given \o e \in Seq(1 .. MaxMsgs)
  BY <1>1, <1>2, Joined
<1>4. PathTypes'
  BY <1>1, <1>3 DEF PathTypes
<1>5. Batching'
  BY DEF Batching
<1>6. ~dropped => InSequence(given \o e, <<>>, chan, read)
  BY <1>1, GivenAreMessages, SequenceGive
<1>7. (~dropped => InSequence(given, batch, chan, read))'
  BY <1>6 DEF InSequence, Nth
<1> QED
  BY <1>4, <1>5, <1>7 DEF ConnInv

(* The empty message ends a batch. *)
LEMMA StripKeeps ==
  ASSUME ConnInv, cn \in {"sub1", "sub"}, cn' \in {"first", "closed"}, batch' = <<>>,
         batch[Len(batch)] = 0, recv_len' = recv_len - 1,
         given' = given \o SubSeq(batch, 1, Len(batch) - 1),
         UNCHANGED <<arrived, read, rt, chan, dropped>>
  PROVE  ConnInv'
<1>1. /\ arrived \in 0 .. MaxMsgs /\ read \in 0 .. arrived /\ MaxMsgs \in Nat /\ read \in Nat
      /\ chan \in Seq(Message) /\ batch \in Seq(Message) /\ given \in Seq(1 .. MaxMsgs)
      /\ recv_len \in Int
  BY ConnAssumption DEF ConnInv, PathTypes
<1>2. batch # <<>> /\ \A i \in 1 .. (Len(batch) - 1) : batch[i] # 0
  BY DEF ConnInv, Batching
<1>3. Len(batch) \in Nat /\ Len(batch) > 0 /\ DOMAIN batch = 1 .. Len(batch)
  BY <1>1, <1>2
<1>4. rt \notin Looping
  <2>1. Len(batch) \in DOMAIN batch
    BY <1>3
  <2> QED
    BY <2>1 DEF ConnInv, Counting
<1>5. Counting' /\ recv_len' \in Int
  BY <1>1, <1>4 DEF Counting
<1>6. PICK e : e = SubSeq(batch, 1, Len(batch) - 1)
  OBVIOUS
<1>7. /\ e \in Seq(Message) /\ Len(e) = Len(batch) - 1 /\ DOMAIN e = 1 .. (Len(batch) - 1)
      /\ \A i \in 1 .. (Len(batch) - 1) : e[i] = batch[i]
  <2>5. Len(batch) - 1 \in Nat
    BY <1>3
  <2>1. PICK m \in Nat : m = Len(batch) - 1
    BY <2>5
  <2>2. e = SubSeq(batch, 1, m) /\ \A i \in 1 .. m : i \in 1 .. Len(batch)
    BY <1>3, <1>6, <2>1
  <2>3. Len(e) = m /\ DOMAIN e = 1 .. m /\ \A i \in 1 .. m : e[i] = batch[i]
    BY <1>1, <1>3, <2>1, <2>2
  <2>4. e \in Seq(Message)
    BY <1>1, <2>2, <2>3, SubSeqProperties
  <2> QED
    BY <2>1, <2>3, <2>4
<1>8. ~dropped => InSequence(given, e, chan, read)
  BY <1>1, <1>2, <1>7, GivenAreMessages, SequenceStrip DEF ConnInv
<1>9. \A i \in DOMAIN e : e[i] # 0
  BY <1>2, <1>7
<1> QED
  BY <1>5, <1>6, <1>7, <1>8, <1>9, GiveKeeps

LEMMA CountFirstKeeps ==
  ASSUME ConnInv, CountFirst
  PROVE  ConnInv'
<1>1. /\ cn = "sub1" /\ recv_len' = recv_len - 1
      /\ UNCHANGED <<arrived, read, rt, chan, given, dropped>>
      /\ IF batch = <<0>> THEN batch' = <<>> /\ cn' = "closed" ELSE cn' = "more" /\ batch' = batch
  BY DEF CountFirst, Task, sockVars, sendVars, closeVars
<1>2. Len(batch) = 1 /\ batch \in Seq(Message) /\ given \in Seq(1 .. MaxMsgs)
  BY <1>1 DEF ConnInv, Batching, PathTypes
<1>3. batch = <<batch[1]>>
  BY <1>2
<1>4. CASE batch[1] = 0
  <2>1. batch = <<0>> /\ batch[Len(batch)] = 0
    BY <1>2, <1>3, <1>4
  <2>2. SubSeq(batch, 1, Len(batch) - 1) = <<>>
    BY <1>2
  <2>3. given \o <<>> = given
    BY <1>2, ConcatEmptySeq
  <2> QED
    BY <1>1, <2>1, <2>2, <2>3, StripKeeps
<1>5. CASE batch[1] # 0
  <2>1. batch # <<0>> /\ batch[Len(batch)] # 0
    BY <1>2, <1>5
  <2> QED
    BY <1>1, <2>1, KeptKeeps
<1> QED
  BY <1>4, <1>5

LEMMA CountMoreKeeps ==
  ASSUME ConnInv, CountMore
  PROVE  ConnInv'
<1>1. /\ cn = "sub" /\ recv_len' = recv_len - 1
      /\ UNCHANGED <<arrived, read, rt, chan, dropped>>
      /\ IF batch[Len(batch)] = 0
         THEN given' = given \o SubSeq(batch, 1, Len(batch) - 1) /\ batch' = <<>> /\ cn' = "first"
         ELSE cn' = "more" /\ batch' = batch /\ given' = given
  BY DEF CountMore, Task, sockVars, sendVars, closeVars
<1>2. CASE batch[Len(batch)] = 0
  BY <1>1, <1>2, StripKeeps
<1>3. CASE batch[Len(batch)] # 0
  BY <1>1, <1>3, KeptKeeps
<1> QED
  BY <1>2, <1>3

LEMMA ReturnKeeps ==
  ASSUME ConnInv, ReturnBatch
  PROVE  ConnInv'
<1>1. /\ cn = "more" /\ cn' = "first" /\ given' = given \o batch /\ batch' = <<>>
      /\ UNCHANGED <<arrived, read, rt, chan, recv_len, dropped>>
  BY DEF ReturnBatch, Task, sockVars, sendVars, closeVars
<1>2. batch \in Seq(Message) /\ recv_len \in Int
  BY DEF ConnInv, PathTypes
<1>3. \A i \in DOMAIN batch : batch[i] # 0
  BY <1>1 DEF ConnInv, Batching
<1>4. Counting'
  BY <1>1 DEF ConnInv, Counting
<1>5. ~dropped => InSequence(given, batch, chan, read)
  BY DEF ConnInv
<1> QED
  BY <1>1, <1>2, <1>3, <1>4, <1>5, GiveKeeps

(* The task stops or finds the channel closed. *)
LEMMA TaskEnds ==
  ASSUME ConnInv, FirstNone \/ TaskStops
  PROVE  ConnInv'
<1>1. /\ cn = "first" /\ cn' \in {"closed", "stopped"}
      /\ UNCHANGED <<arrived, read, rt, chan, recv_len, batch, given, dropped>>
  BY DEF FirstNone, TaskStops, Task, sockVars, sendVars, closeVars
<1>2. PathTypes' /\ (~dropped => InSequence(given, batch, chan, read))'
  BY <1>1 DEF ConnInv, PathTypes, InSequence, Nth
<1>3. Batching' /\ Counting'
  BY <1>1 DEF ConnInv, Batching, Counting
<1> QED
  BY <1>2, <1>3 DEF ConnInv

LEMMA ArriveKeeps ==
  ASSUME ConnInv, Arrive
  PROVE  ConnInv'
<1>1. /\ arrived' = arrived + 1 /\ arrived < MaxMsgs
      /\ UNCHANGED <<read, rt, chan, recv_len, cn, batch, given, dropped>>
  BY DEF Arrive, recvVars, taskVars, closeVars
<1>2. arrived + 1 \in 0 .. MaxMsgs /\ read \in 0 .. (arrived + 1)
  BY <1>1, ConnAssumption DEF ConnInv, PathTypes
<1>3. PathTypes'
  BY <1>1, <1>2 DEF ConnInv, PathTypes
<1>4. Counting' /\ Batching' /\ (~dropped => InSequence(given, batch, chan, read))'
  BY <1>1 DEF ConnInv, Counting, Batching, InSequence, Nth
<1> QED
  BY <1>3, <1>4 DEF ConnInv

LEMMA ConnNext == ConnInv /\ [Next]_vars => ConnInv'
<1> SUFFICES ASSUME ConnInv, [Next]_vars PROVE ConnInv'
  OBVIOUS
<1>1. CASE Arrive
  BY <1>1, ArriveKeeps
<1>2. CASE Break
  BY <1>2, OutsideThePath DEF Break, recvVars, taskVars, closeVars
<1>3. CASE RecvStep
  <2>1. CASE ReadMessage
    BY <2>1, ReadKeeps
  <2>2. CASE CountMessage
    BY <2>2, CountKeeps
  <2>3. CASE NothingToRead \/ LoopHead \/ PauseEnds \/ WaitReadable \/ WaitTimeout
    <3>1. /\ UNCHANGED <<arrived, read, chan, recv_len, cn, batch, given, dropped>>
          /\ rt \in {"drain0", "drain", "head", "paused", "wait"}
          /\ rt' \in {"exit", "head", "paused", "wait", "mark", "drain"}
      BY <2>3 DEF NothingToRead, LoopHead, PauseEnds, WaitReadable, WaitTimeout, RecvThread,
                  sockVars, taskVars, sendVars, closeVars
    <3> QED
      BY <3>1, ThreadMoves DEF Looping
  <2>4. CASE WaitErrorEvent \/ SendSentinel
    <3>1. /\ UNCHANGED <<arrived, read, recv_len, cn, batch, given, dropped>>
          /\ chan' = IF dropped THEN chan ELSE Append(chan, 0)
          /\ rt' \in {"exit", "mark"}
      BY <2>4 DEF WaitErrorEvent, SendSentinel, RecvThread, sockVars, taskVars, sendVars, closeVars
    <3>2. rt' \notin Looping
      BY <3>1 DEF Looping
    <3> QED
      BY <3>1, <3>2, EmptyKeeps
  <2>5. CASE WaitFails \/ RecvMarks \/ RecvReleases
    <3>1. /\ UNCHANGED <<arrived, read, chan, recv_len, cn, batch, given, dropped>>
          /\ rt' \in {"exit", "release", "done"}
      BY <2>5 DEF WaitFails, RecvMarks, RecvReleases, RecvThread,
                  sockVars, taskVars, sendVars, closeVars
    <3> QED
      BY <3>1, ThreadMoves DEF Looping
  <2> QED
    BY <1>3, <2>1, <2>2, <2>3, <2>4, <2>5 DEF RecvStep
<1>4. CASE TaskStep \/ TaskStops
  BY <1>4, TakeKeeps, TaskEnds, CountFirstKeeps, CountMoreKeeps, ReturnKeeps DEF TaskStep
<1>5. CASE \E s \in Senders : SendChecks(s) \/ SendQueues(s)
  <2>1. UNCHANGED <<arrived, read, rt, chan, recv_len, cn, batch, given, dropped>>
    BY <1>5 DEF SendChecks, SendQueues, sockVars, recvVars, taskVars, closeVars
  <2> QED
    BY <2>1, OutsideThePath
<1>6. CASE SendStep
  <2>1. UNCHANGED <<arrived, read, rt, chan, recv_len, cn, batch, given, dropped>>
    BY <1>6 DEF SendStep, SendTakes, SendDone, SendFails, SendDisconnected, SendMarks, SendThread,
                sockVars, recvVars, taskVars, closeVars
  <2> QED
    BY <2>1, OutsideThePath
<1>7. CASE \E k \in Callers : CloseSwap(k) \/ CloseStep(k)
  <2>1. UNCHANGED <<arrived, read, rt, chan, recv_len, cn, batch, given, dropped>>
    BY <1>7 DEF CloseSwap, CloseStep, CloseTakesSenders, CloseSocket, CloseJoins, Caller,
                recvVars, taskVars, sendVars
  <2> QED
    BY <2>1, OutsideThePath
<1>8. CASE FieldsDropped
  <2>1. UNCHANGED <<arrived, read, rt, chan, recv_len, cn, batch, given>> /\ ~dropped
    BY <1>8 DEF FieldsDropped, sockVars, recvVars, taskVars
  <2> QED
    BY <2>1, OutsideThePath
<1>9. CASE UNCHANGED vars
  BY <1>9, OutsideThePath DEF vars
<1> QED
  BY <1>1, <1>2, <1>3, <1>4, <1>5, <1>6, <1>7, <1>8, <1>9 DEF Next

(* The invariant of the receive path: what each place of the path holds,   *)
(* and what the counter says between the send and the fetch_add and        *)
(* between the receive and the fetch_sub.                                  *)
THEOREM ConnInvHolds == Spec => []ConnInv
  BY ConnInit, ConnNext, PTL DEF Spec

(* The three places, one behind the other. *)
LEMMA InSequenceMeans ==
  ASSUME NEW g \in Seq(Message), NEW b \in Seq(Message), NEW c \in Seq(Message), NEW n \in Nat,
         InSequence(g, b, c, n)
  PROVE  /\ Len(g \o b \o c) >= n
         /\ \A i \in DOMAIN (g \o b \o c) : (g \o b \o c)[i] = IF i <= n THEN i ELSE 0
<1>1. InSequence(g \o b, <<>>, c, n) /\ g \o b \in Seq(Message) /\ <<>> \in Seq(Message)
  BY SequenceGive, Joined
<1>2. PICK h : h = g \o b
  OBVIOUS
<1>3. PICK t : t = h \o c
  OBVIOUS
<1>4. /\ Len(h) \in Nat /\ Len(c) \in Nat /\ Len(t) = Len(h) + Len(c) /\ DOMAIN t = 1 .. (Len(h) + Len(c))
      /\ \A i \in 1 .. Len(h) : t[i] = h[i]
      /\ \A i \in 1 .. Len(c) : t[Len(h) + i] = c[i]
  <2>1. t \in Seq(Message) /\ Len(t) = Len(h) + Len(c)
    BY <1>1, <1>2, <1>3, Joined
  <2>2. DOMAIN t = 1 .. Len(t)
    BY <2>1
  <2> QED
    BY <1>1, <1>2, <1>3, <2>1, <2>2, Joined
<1>5. PICK l \in Nat : l = Len(h)
  BY <1>4
<1>6. /\ l + 0 + Len(c) >= n
      /\ \A i \in 1 .. l : h[i] = Nth(i, n)
      /\ \A i \in 1 .. Len(c) : c[i] = Nth(l + 0 + i, n)
  BY <1>1, <1>2, <1>5 DEF InSequence
<1>7. ASSUME NEW i \in 1 .. (l + Len(c)) PROVE t[i] = Nth(i, n)
  <2>1. CASE i \in 1 .. l
    BY <1>4, <1>5, <1>6, <2>1
  <2>2. CASE ~(i \in 1 .. l)
    <3>1. i - l \in 1 .. Len(c) /\ l + (i - l) = i /\ l + 0 + (i - l) = i
      BY <1>4, <2>2
    <3>2. t[l + (i - l)] = c[i - l] /\ c[i - l] = Nth(l + 0 + (i - l), n)
      BY <1>4, <1>5, <1>6, <3>1
    <3> QED
      BY <3>1, <3>2
  <2> QED
    BY <2>1, <2>2
<1>8. \A i \in DOMAIN t : t[i] = IF i <= n THEN i ELSE 0
  BY <1>4, <1>5, <1>7 DEF Nth
<1>9. Len(t) >= n
  BY <1>4, <1>5, <1>6
<1> QED
  BY <1>2, <1>3, <1>8, <1>9

(* No message is lost, repeated or swapped between srt_recvmsg and the     *)
(* dispatcher (run_recv_loop and recv_batch_async), for every batch size,  *)
(* every pair of watermarks and every moment at which the connection       *)
(* breaks or is closed.                                                    *)
THEOREM NothingIsLost == Spec => []NothingLost
<1>1. ConnInv => NothingLost
  <2> SUFFICES ASSUME ConnInv, ~dropped PROVE NothingLost
    BY DEF NothingLost
  <2>1. /\ given \in Seq(Message) /\ batch \in Seq(Message) /\ chan \in Seq(Message) /\ read \in Nat
        /\ InSequence(given, batch, chan, read)
    BY ConnAssumption, GivenAreMessages DEF ConnInv, PathTypes
  <2> QED
    BY <2>1, InSequenceMeans DEF NothingLost
<1> QED
  BY <1>1, ConnInvHolds, PTL

(* Whenever the receive thread compares the backlog counter with a         *)
(* watermark (connection.rs:915), it is exact up to the message the task   *)
(* has taken and not yet counted: never below zero, never drifted.         *)
THEOREM CounterIsSound == Spec => []CounterSound
<1>1. ConnInv => CounterSound
  <2> SUFFICES ASSUME ConnInv, rt \in {"head", "paused"} PROVE CounterSound
    BY DEF CounterSound
  <2>1. PICK u \in {0, 1} : u = IF cn \in {"sub1", "sub"} THEN 1 ELSE 0
    OBVIOUS
  <2>2. recv_len = Len(chan) + u - 0 /\ Len(chan) \in Nat
    BY <2>1 DEF ConnInv, Counting, Looping, PathTypes
  <2>3. recv_len = Len(chan) + u
    BY <2>2
  <2> QED
    BY <2>1, <2>3 DEF CounterSound
<1> QED
  BY <1>1, ConnInvHolds, PTL
=============================================================================
