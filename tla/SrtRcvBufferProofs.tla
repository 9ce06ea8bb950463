-------------------------- MODULE SrtRcvBufferProofs --------------------------
(***************************************************************************)
(* For every size of the buffer, every cut of the packets into messages    *)
(* and every order of arrivals, reads and drop requests: the circular      *)
(* array implements MsgBuffer, its count of packets that may be read out   *)
(* of order is exact, and a whole datagram is found.                       *)
(***************************************************************************)
EXTENDS SrtRcvBuffer, FiniteSetTheorems, WellFoundedInduction, TLAPS

Seqs == 0 .. (NPkts - 1)
Fillers == {ReadOut, Dropped}

(* The array as a function of sequence numbers: the window of Size         *)
(* positions from the start on, and nothing outside it.                    *)
Window(b) == b.startSeqNo .. (b.startSeqNo + Capacity)
PosOf(b, s) == IncPos(b.startPos, s - b.startSeqNo)
SeqOf(b, p) == b.startSeqNo + OffPos(b.startPos, p)
At(b, s) == IF s \in Window(b) THEN b.entries[PosOf(b, s)] ELSE Empty
NonOf(b) == SeqOf(b, b.nonreadPos)
StoredIn(b) == {s \in Seqs : At(b, s) = s}
Ooo(b) == {s \in StoredIn(b) : ~OrderFlag(s)}

Buffers ==
  [entries : [Positions -> {Empty, ReadOut, Dropped} \cup Seqs],
   startSeqNo : 0 .. NPkts, startPos : Positions, nonreadPos : Positions,
   maxPosOff : 0 .. Capacity, numOutOfOrder : Int, readableOOO : Positions \cup {-1}]

(* Where what lies: a packet at the position of its number and below       *)
(* maxPosOff, nothing at or after the end of the packets or the capacity.  *)
Placed(b) ==
  /\ b \in Buffers
  /\ \A s \in Window(b) :
       /\ At(b, s) >= 0 => At(b, s) = s /\ s < b.startSeqNo + b.maxPosOff
       /\ At(b, s) # Empty => s < NPkts /\ s < b.startSeqNo + Capacity

(* Up to the nonread position lie whole messages. *)
InOrder(b) ==
  /\ NonOf(b) <= b.startSeqNo + b.maxPosOff
  /\ \A s \in b.startSeqNo .. (NonOf(b) - 1) : At(b, s) = s
  /\ NonOf(b) # b.startSeqNo => IsFirst(b.startSeqNo) /\ IsLast(NonOf(b) - 1)

(* What is remembered as readable out of order is, and something is        *)
(* remembered if there is such a message, unless others come first.        *)
Remembered(b) ==
  b.readableOOO >= 0 =>
    LET s == b.entries[b.readableOOO]
    IN  s >= 0 /\ IsFirst(s) /\ MsgOf[s] \in dgram /\ Pkts(MsgOf[s]) \subseteq StoredIn(b)
Found(b) ==
  NonOf(b) = b.startSeqNo /\ (\E m \in dgram : Pkts(m) \subseteq StoredIn(b))
    => b.readableOOO >= 0

Keeps(b) ==
  /\ Placed(b) /\ InOrder(b) /\ Remembered(b) /\ Found(b)
  /\ At(b, b.startSeqNo) \notin Fillers
  /\ b.numOutOfOrder = Cardinality(Ooo(b))

BufInv == dgram \in Mixes /\ Keeps(buf)
-----------------------------------------------------------------------------
(* Least and greatest elements. *)

(* A nonempty set of naturals has a least element.                         *)
LEMMA LeastNat ==
  ASSUME NEW T, T \subseteq Nat, T # {}
  PROVE  \E x \in T : \A y \in T : x <= y
<1>1. PICK x \in T : \A y \in T : ~(<<y, x>> \in OpToRel(<, Nat))
  BY NatLessThanWellFounded, WFMin
<1>2. \A y \in T : <<y, x>> \in Nat \X Nat /\ (<<y, x>> \in OpToRel(<, Nat) <=> y < x)
  BY DEF OpToRel
<1>3. \A y \in T : ~(y < x)
  BY <1>1, <1>2, Zenon
<1> QED
  BY <1>3

(* Min of a nonempty set of naturals is its least element.                 *)
LEMMA MinIs ==
  ASSUME NEW T, T \subseteq Nat, T # {}
  PROVE  Min(T) \in T /\ \A y \in T : Min(T) <= y
<1>1. \E x \in T : \A y \in T : x <= y
  BY LeastNat
<1> QED
  BY <1>1, Zenon DEF Min

(* Max of a nonempty bounded set of naturals is its greatest element.      *)
LEMMA MaxIs ==
  ASSUME NEW k \in Nat, NEW T, T \subseteq 0 .. k, T # {}
  PROVE  Max(T) \in T /\ \A y \in T : Max(T) >= y
<1> DEFINE U == {k - i : i \in T}
<1>0. \A i \in T : i \in 0 .. k /\ k - i \in Nat
  OBVIOUS
<1>1. U \subseteq Nat /\ U # {}
  BY <1>0, Zenon
<1>2. PICK u \in U : \A y \in U : u <= y
  BY <1>1, LeastNat
<1>3. PICK i \in T : u = k - i
  BY <1>2
<1>4. \A j \in T : k - j \in U
  OBVIOUS
<1>5. \A j \in T : u <= k - j
  BY <1>2, <1>4, Zenon
<1>6. \A j \in T : i >= j
  BY <1>3, <1>5
<1>7. \E x \in T : \A y \in T : x >= y
  BY <1>6
<1> QED
  BY <1>7, Zenon DEF Max

(* The larger and the smaller of two. *)
LEMMA MaxOfTwo ==
  ASSUME NEW a \in Int, NEW b \in Int
  PROVE  Max({a, b}) = IF a >= b THEN a ELSE b
<1> DEFINE r == IF a >= b THEN a ELSE b
           P(x) == x \in {a, b} /\ \A y \in {a, b} : x >= y
<1>1. P(r)
  OBVIOUS
<1>2. \A x : P(x) => x = r
  OBVIOUS
<1>3. Max({a, b}) \in {a, b} /\ \A y \in {a, b} : Max({a, b}) >= y
  BY <1>1, Zenon DEF Max
<1> QED
  BY <1>2, <1>3

(* The smaller of two.                                                     *)
LEMMA MinOfTwo ==
  ASSUME NEW a \in Int, NEW b \in Int
  PROVE  Min({a, b}) = IF a <= b THEN a ELSE b
<1> DEFINE r == IF a <= b THEN a ELSE b
           P(x) == x \in {a, b} /\ \A y \in {a, b} : x <= y
<1>1. P(r)
  OBVIOUS
<1>2. \A x : P(x) => x = r
  OBVIOUS
<1>3. Min({a, b}) \in {a, b} /\ \A y \in {a, b} : Min({a, b}) <= y
  BY <1>1, Zenon DEF Min
<1> QED
  BY <1>2, <1>3
-----------------------------------------------------------------------------
(* Positions in the circle. *)

(* What is assumed of the constants, and the size of the array: one more   *)
(* than its capacity.                                                      *)
LEMMA Sizes ==
  /\ NPkts \in Nat \ {0} /\ Capacity \in Nat \ {0} /\ Size \in Nat \ {0}
  /\ Size = Capacity + 1 /\ Positions = 0 .. Capacity
  BY RcvBufferAssumption DEF Size, Positions

(* The remainder of a number that is less than a turn away.                *)
LEMMA Wraps ==
  ASSUME NEW n \in Nat \ {0}
  PROVE  /\ \A a \in Int : 0 <= a /\ a < n => a % n = a
         /\ \A a \in Int : n <= a /\ a < 2 * n => a % n = a - n
         /\ \A a \in Int : -n <= a /\ a < 0 => a % n = a + n
<1>1. ASSUME NEW a \in Int, 0 <= a, a < n
      PROVE  a % n = a
  BY <1>1
<1>2. ASSUME NEW a \in Int, n <= a, a < 2 * n
      PROVE  a % n = a - n
  BY <1>2, Z3
<1>3. ASSUME NEW a \in Int, -n <= a, a < 0
      PROVE  a % n = a + n
  BY <1>3, Z3
<1> QED
  BY <1>1, <1>2, <1>3

(* incPos and offPos, without the remainder. *)
LEMMA IncIs ==
  ASSUME NEW p \in Positions, NEW k \in 0 .. Size
  PROVE  /\ IncPos(p, k) \in Positions
         /\ IncPos(p, k) = IF p + k < Size THEN p + k ELSE p + k - Size
<1>1. PICK a : a = p + k
  OBVIOUS
<1>2. a \in Int /\ 0 <= a /\ a < 2 * Size
  BY <1>1, Sizes
<1>3. a < Size => a % Size = a
  BY <1>2, Sizes, Wraps
<1>4. Size <= a => a % Size = a - Size
  BY <1>2, Sizes, Wraps
<1>5. IncPos(p, k) = a % Size
  BY <1>1 DEF IncPos
<1> QED
  BY <1>1, <1>2, <1>3, <1>4, <1>5, Sizes

(* offPos: how far the second position is after the first.                 *)
LEMMA OffIs ==
  ASSUME NEW p \in Positions, NEW q \in Positions
  PROVE  /\ OffPos(p, q) \in 0 .. Capacity
         /\ OffPos(p, q) = IF p <= q THEN q - p ELSE q - p + Size
<1>1. PICK a : a = q - p
  OBVIOUS
<1>2. a \in Int /\ -Size <= a /\ a < Size /\ (p <= q <=> 0 <= a)
  BY <1>1, Sizes
<1>3. 0 <= a => a % Size = a
  BY <1>2, Sizes, Wraps
<1>4. a < 0 => a % Size = a + Size
  BY <1>2, Sizes, Wraps
<1>5. OffPos(p, q) = a % Size
  BY <1>1 DEF OffPos
<1> QED
  BY <1>1, <1>2, <1>3, <1>4, <1>5, Sizes

(* The types of the buffer's fields.                                       *)
LEMMA Fields ==
  ASSUME NEW b \in Buffers
  PROVE  /\ b.entries \in [Positions -> {Empty, ReadOut, Dropped} \cup Seqs]
         /\ b.startSeqNo \in 0 .. NPkts /\ b.startPos \in Positions /\ b.nonreadPos \in Positions
         /\ b.maxPosOff \in 0 .. Capacity /\ b.numOutOfOrder \in Int
         /\ b.readableOOO \in Positions \cup {-1}
  BY DEF Buffers

(* Two steps around the circle make one.                                   *)
LEMMA IncInc ==
  ASSUME NEW p \in Positions, NEW i \in 0 .. Size, NEW k \in 0 .. Size, i + k <= Size
  PROVE  IncPos(IncPos(p, i), k) = IncPos(p, i + k)
<1>1. PICK q : q = IncPos(p, i)
  OBVIOUS
<1>2. q \in Positions /\ q = IF p + i < Size THEN p + i ELSE p + i - Size
  BY <1>1, IncIs
<1>3. IncPos(q, k) = IF q + k < Size THEN q + k ELSE q + k - Size
  BY <1>2, IncIs
<1>4. i + k \in 0 .. Size
  BY Sizes
<1>5. IncPos(p, i + k) = IF p + (i + k) < Size THEN p + (i + k) ELSE p + (i + k) - Size
  BY <1>4, IncIs
<1> QED
  BY <1>1, <1>2, <1>3, <1>5, Sizes

(* A sequence number in the window has a position, and a position a        *)
(* sequence number in the window.                                          *)
LEMMA PosIs ==
  ASSUME NEW b \in Buffers, NEW s \in Window(b)
  PROVE  /\ PosOf(b, s) \in Positions
         /\ OffPos(b.startPos, PosOf(b, s)) = s - b.startSeqNo
         /\ SeqOf(b, PosOf(b, s)) = s
<1>1. PICK k : k = s - b.startSeqNo
  OBVIOUS
<1>2. k \in 0 .. Capacity /\ k \in 0 .. Size /\ s = b.startSeqNo + k /\ b.startPos \in Positions
  BY <1>1, Sizes, Fields DEF Window
<1>3. PICK q : q = PosOf(b, s)
  OBVIOUS
<1>4. q \in Positions /\ q = IF b.startPos + k < Size THEN b.startPos + k ELSE b.startPos + k - Size
  BY <1>1, <1>2, <1>3, IncIs DEF PosOf
<1>5. OffPos(b.startPos, q) = IF b.startPos <= q THEN q - b.startPos ELSE q - b.startPos + Size
  BY <1>2, <1>4, OffIs
<1>6. OffPos(b.startPos, q) = k
  BY <1>2, <1>4, <1>5, Sizes
<1> QED
  BY <1>1, <1>2, <1>3, <1>4, <1>6 DEF SeqOf

(* Every position holds what the window has at its sequence number.        *)
LEMMA SeqIs ==
  ASSUME NEW b \in Buffers, NEW p \in Positions
  PROVE  /\ SeqOf(b, p) \in Window(b) /\ PosOf(b, SeqOf(b, p)) = p
         /\ At(b, SeqOf(b, p)) = b.entries[p]
<1>1. PICK k : k = OffPos(b.startPos, p)
  OBVIOUS
<1>a. PICK B : B = b.startSeqNo
  OBVIOUS
<1>b. PICK q : q = b.startPos
  OBVIOUS
<1>c. B \in Int /\ q \in Positions
  BY <1>a, <1>b, Sizes, Fields
<1>2. /\ k \in 0 .. Capacity /\ k \in 0 .. Size
      /\ k = IF q <= p THEN p - q ELSE p - q + Size
  BY <1>1, <1>b, <1>c, Sizes, OffIs, SMTT(30)
<1>3. SeqOf(b, p) = B + k /\ (B + k) - B = k /\ B + k \in Window(b)
  BY <1>1, <1>a, <1>c, <1>2, Sizes DEF SeqOf, Window
<1>4. IncPos(q, k) = IF q + k < Size THEN q + k ELSE q + k - Size
  BY <1>c, <1>2, IncIs
<1>d. IncPos(q, k) = p
  BY <1>c, <1>2, <1>4, Sizes
<1>5. PosOf(b, SeqOf(b, p)) = p
  BY <1>a, <1>b, <1>3, <1>d DEF PosOf
<1> QED
  BY <1>3, <1>5 DEF At

(* What the entries may be. *)
LEMMA AtIs ==
  ASSUME NEW b \in Buffers, NEW s
  PROVE  /\ At(b, s) \in {Empty, ReadOut, Dropped} \cup Seqs
         /\ At(b, s) # Empty => s \in Window(b)
  BY PosIs, Fields DEF At

(* The positions ps are those of the sequence numbers T; x is written to   *)
(* the positions ps.                                                       *)
Covers(b, ps, T) == \A s \in Window(b) : PosOf(b, s) \in ps <=> s \in T
Writes(b, c, ps, x) == \A p \in Positions : c.entries[p] = IF p \in ps THEN x ELSE b.entries[p]

(* Some entries are set. *)
LEMMA AtSet ==
  ASSUME NEW b \in Buffers, NEW c \in Buffers, NEW T, T \subseteq Window(b), NEW ps, NEW x,
         c.startSeqNo = b.startSeqNo, c.startPos = b.startPos,
         Covers(b, ps, T), Writes(b, c, ps, x)
  PROVE  \A s : At(c, s) = IF s \in T THEN x ELSE At(b, s)
<1>1. Window(c) = Window(b) /\ \A s : PosOf(c, s) = PosOf(b, s)
  BY DEF Window, PosOf
<1>2. ASSUME NEW s \in Window(b)
      PROVE  c.entries[PosOf(b, s)] = IF s \in T THEN x ELSE b.entries[PosOf(b, s)]
  BY PosIs DEF Covers, Writes
<1>3. ASSUME NEW s, s \in Window(b)
      PROVE  At(c, s) = IF s \in T THEN x ELSE At(b, s)
  BY <1>1, <1>2, <1>3 DEF At
<1>4. ASSUME NEW s, s \notin Window(b)
      PROVE  At(c, s) = IF s \in T THEN x ELSE At(b, s)
  BY <1>1, <1>4 DEF At
<1> QED
  BY <1>3, <1>4

(* The start moves on. *)
LEMMA Shifted ==
  ASSUME NEW b \in Buffers, NEW c \in Buffers, NEW n \in 0 .. Capacity,
         c.startSeqNo = b.startSeqNo + n, c.startPos = IncPos(b.startPos, n)
  PROVE  /\ \A s \in Window(c) :
              IF s \in Window(b) THEN PosOf(c, s) = PosOf(b, s)
              ELSE /\ s - Size \in b.startSeqNo .. (c.startSeqNo - 1)
                   /\ s - Size \in Window(b) /\ PosOf(c, s) = PosOf(b, s - Size)
         /\ \A p \in Positions :
              SeqOf(c, p) = IF SeqOf(b, p) >= c.startSeqNo THEN SeqOf(b, p) ELSE SeqOf(b, p) + Size
<1>b. PICK B : B = b.startSeqNo
  OBVIOUS
<1>c. PICK C : C = c.startSeqNo
  OBVIOUS
<1>1. B \in Nat /\ C = B + n /\ b.startPos \in Positions /\ c.startPos \in Positions /\ C \in Nat
  BY <1>b, <1>c, Fields
<1>w. Window(b) = B .. (B + Capacity) /\ Window(c) = C .. (C + Capacity)
  BY <1>b, <1>c DEF Window
<1> HIDE DEF Window
<1>2. ASSUME NEW s \in Window(c), s \in Window(b)
      PROVE  PosOf(c, s) = PosOf(b, s)
  <2>1. PICK k : k = s - C
    OBVIOUS
  <2>2. k \in 0 .. Size /\ n \in 0 .. Size /\ n + k <= Size /\ n + k = s - B
    BY <1>1, <1>2, <2>1, <1>w, Sizes
  <2>3. IncPos(IncPos(b.startPos, n), k) = IncPos(b.startPos, n + k)
    BY <1>1, <2>2, IncInc
  <2> QED
    BY <2>1, <2>2, <2>3, <1>b, <1>c DEF PosOf
<1>3. ASSUME NEW s \in Window(c), s \notin Window(b)
      PROVE  /\ s - Size \in B .. (C - 1) /\ s - Size \in Window(b)
             /\ PosOf(c, s) = PosOf(b, s - Size)
  <2>1. PICK k : k = s - C
    OBVIOUS
  <2>2. PICK j : j = s - Size - B
    OBVIOUS
  <2>e. s \in Int /\ s >= C /\ s <= C + Capacity /\ C = B + n /\ B \in Nat /\ s > B + Capacity
    BY <1>1, <1>3, <1>w, Sizes
  <2>f. Size = Capacity + 1 /\ Capacity \in Nat /\ n \in Nat /\ n <= Capacity
    BY Sizes
  <2>g. s - Size \in Window(b)
    BY <2>e, <2>f, <1>w
  <2>3. /\ k \in 0 .. Size /\ n \in 0 .. Size /\ j = n + k - Size /\ j \in 0 .. (n - 1)
        /\ j \in 0 .. Size /\ s - Size \in B .. (C - 1) /\ s - Size \in Window(b)
    BY <2>1, <2>2, <2>e, <2>f, <2>g
  <2>4. PICK q : q = c.startPos
    OBVIOUS
  <2>5. q \in Positions /\ q = IF b.startPos + n < Size THEN b.startPos + n ELSE b.startPos + n - Size
    BY <1>1, <2>3, <2>4, IncIs
  <2>6. IncPos(q, k) = IF q + k < Size THEN q + k ELSE q + k - Size
    BY <2>3, <2>5, IncIs
  <2>7. IncPos(b.startPos, j) = IF b.startPos + j < Size THEN b.startPos + j ELSE b.startPos + j - Size
    BY <1>1, <2>3, IncIs
  <2>a. PICK r : r = b.startPos
    OBVIOUS
  <2>b. /\ r \in Nat /\ r < Size /\ Size \in Nat /\ n \in Nat /\ n < Size /\ k \in Nat /\ k < Size
        /\ j = n + k - Size
        /\ q = IF r + n < Size THEN r + n ELSE r + n - Size
    BY <1>1, <2>3, <2>5, <2>a, Sizes
  <2>c. IncPos(b.startPos, j) = IF r + j < Size THEN r + j ELSE r + j - Size
    BY <2>7, <2>a
  <2>d. (IF q + k < Size THEN q + k ELSE q + k - Size) = (IF r + j < Size THEN r + j ELSE r + j - Size)
    BY <2>b, <2>3
  <2>8. IncPos(q, k) = IncPos(b.startPos, j)
    BY <2>6, <2>c, <2>d, Zenon
  <2> QED
    BY <2>1, <2>2, <2>3, <2>4, <2>8, <1>b, <1>c DEF PosOf
<1>4. ASSUME NEW p \in Positions
      PROVE  SeqOf(c, p) = IF SeqOf(b, p) >= C THEN SeqOf(b, p) ELSE SeqOf(b, p) + Size
  <2>1. PICK u : u = SeqOf(b, p)
    OBVIOUS
  <2>2. u \in Window(b) /\ PosOf(b, u) = p
    BY <2>1, SeqIs
  <2>3. CASE u >= C
    <3>1. u \in Window(c)
      BY <1>1, <2>2, <2>3, <1>w, Sizes
    <3>2. PosOf(c, u) = p
      BY <1>2, <2>2, <3>1
    <3> QED
      BY <2>1, <2>3, <3>1, <3>2, PosIs
  <2>4. CASE ~(u >= C)
    <3>1. PICK w : w = u + Size
      OBVIOUS
    <3>2. w \in Window(c) /\ w \notin Window(b) /\ w - Size = u
      BY <1>1, <2>2, <2>4, <3>1, <1>w, Sizes, SMTT(30)
    <3>3. PosOf(c, w) = p
      BY <1>3, <2>2, <3>2
    <3> QED
      BY <2>1, <2>4, <3>1, <3>2, <3>3, PosIs
  <2> QED
    BY <2>3, <2>4
<1> QED
  BY <1>2, <1>3, <1>4, <1>b, <1>c

(* The start moves on and the positions it leaves are emptied: nothing     *)
(* else changes (releaseNextFillerEntries).                                *)
LEMMA AtCut ==
  ASSUME NEW b \in Buffers, NEW c \in Buffers, NEW n \in 0 .. Capacity, NEW ps,
         c.startSeqNo = b.startSeqNo + n, c.startPos = IncPos(b.startPos, n),
         Covers(b, ps, {s \in Int : s < c.startSeqNo}), Writes(b, c, ps, Empty)
  PROVE  \A s \in Int : At(c, s) = IF s < c.startSeqNo THEN Empty ELSE At(b, s)
<1>1. SUFFICES ASSUME NEW s \in Int
               PROVE  At(c, s) = IF s < c.startSeqNo THEN Empty ELSE At(b, s)
  OBVIOUS
<1>2. b.startSeqNo \in Nat /\ c.startSeqNo \in Nat
  BY Fields
<1>3. CASE s \notin Window(c)
  <2>1. s < c.startSeqNo \/ s \notin Window(b)
    BY <1>2, <1>3, Sizes DEF Window
  <2> QED
    BY <1>3, <2>1 DEF At
<1>4. CASE s \in Window(c) /\ s \in Window(b)
  <2>1. PosOf(c, s) = PosOf(b, s) /\ PosOf(b, s) \in Positions
    BY <1>4, Shifted, PosIs
  <2>2. s >= c.startSeqNo /\ ~(s < c.startSeqNo)
    BY <1>2, <1>4 DEF Window
  <2>3. c.entries[PosOf(b, s)] = b.entries[PosOf(b, s)]
    BY <1>4, <2>1, <2>2 DEF Covers, Writes
  <2> QED
    BY <1>4, <2>1, <2>2, <2>3, Zenon DEF At
<1>5. CASE s \in Window(c) /\ s \notin Window(b)
  <2>1. PICK r : r = s - Size
    OBVIOUS
  <2>2. r \in b.startSeqNo .. (c.startSeqNo - 1) /\ r \in Window(b) /\ PosOf(c, s) = PosOf(b, r)
    BY <1>5, <2>1, Shifted
  <2>3. r < c.startSeqNo /\ s >= c.startSeqNo /\ ~(s < c.startSeqNo)
    BY <1>2, <1>5, <2>2 DEF Window
  <2>4. c.entries[PosOf(b, r)] = Empty
    BY <2>2, <2>3, PosIs DEF Covers, Writes
  <2> QED
    BY <1>5, <2>2, <2>3, <2>4, Zenon DEF At
<1> QED
  BY <1>3, <1>4, <1>5
-----------------------------------------------------------------------------
(* Messages. *)

FirstOf(m) == Min(Pkts(m))
LastOf(m) == Max(Pkts(m))
Past(s, F) == Layout!PastFillers(s, F)
Extended(n, st) == Layout!Extended(n, st)

(* The boundary flags and the packets of a message, spelled out.           *)
LEMMA Ends ==
  /\ \A s : IsFirst(s) <=> s = 0 \/ MsgOf[s - 1] # MsgOf[s]
  /\ \A s : IsLast(s) <=> s = NPkts - 1 \/ MsgOf[s + 1] # MsgOf[s]
  /\ \A m : Pkts(m) = {s \in Seqs : MsgOf[s] = m}
  /\ \A s : s \in Seqs <=> s \in Int /\ 0 <= s /\ s < NPkts
  BY Sizes DEF IsFirst, IsLast, Pkts, Layout!IsFirst, Layout!IsLast, Layout!Pkts, Layout!Seqs, Seqs

(* The packets of a message are consecutive. *)
LEMMA Consecutive ==
  ASSUME NEW s \in Seqs, NEW t \in Seqs, NEW u \in Seqs,
         s <= t, t <= u, MsgOf[s] = MsgOf[u]
  PROVE  MsgOf[t] = MsgOf[s]
<1>1. MsgOf[s] <= MsgOf[t] /\ MsgOf[t] <= MsgOf[u] /\ MsgOf[s] \in Nat /\ MsgOf[t] \in Nat
  BY RcvBufferAssumption DEF Seqs
<1> QED
  BY <1>1

(* The packets of a message are those from its PB_FIRST to its PB_LAST.    *)
LEMMA MsgSpan ==
  ASSUME NEW m, Pkts(m) # {}
  PROVE  /\ FirstOf(m) \in Seqs /\ LastOf(m) \in Seqs /\ FirstOf(m) <= LastOf(m)
         /\ Pkts(m) = FirstOf(m) .. LastOf(m)
         /\ \A s \in Pkts(m) : MsgOf[s] = m /\ s \in Seqs
         /\ \A s \in Pkts(m) : IsFirst(s) <=> s = FirstOf(m)
         /\ \A s \in Pkts(m) : IsLast(s) <=> s = LastOf(m)
<1> DEFINE f == FirstOf(m)
           l == LastOf(m)
<1>1. Pkts(m) \subseteq Seqs /\ \A s \in Seqs : s \in Pkts(m) <=> MsgOf[s] = m
  BY Ends
<1>2. NPkts - 1 \in Nat /\ Seqs = 0 .. (NPkts - 1) /\ Seqs \subseteq Nat
  BY Sizes DEF Seqs
<1>a. \A s : s \in Seqs <=> s \in Int /\ 0 <= s /\ s < NPkts
  BY Ends
<1>3. l \in Pkts(m) /\ \A y \in Pkts(m) : l >= y
  BY <1>1, <1>2, MaxIs DEF LastOf
<1>4. f \in Pkts(m) /\ \A y \in Pkts(m) : f <= y
  BY <1>1, <1>2, MinIs DEF FirstOf
<1> HIDE DEF f, l
<1>5. f \in Seqs /\ l \in Seqs /\ f <= l /\ MsgOf[f] = m /\ MsgOf[l] = m
  BY <1>1, <1>3, <1>4
<1>6. ASSUME NEW t \in f .. l
      PROVE  t \in Pkts(m)
  <2>1. t \in Seqs /\ f <= t /\ t <= l
    BY <1>5, <1>2
  <2> QED
    BY <1>1, <1>5, <2>1, Consecutive
<1>7. Pkts(m) = f .. l
  <2>1. ASSUME NEW t \in Pkts(m)
        PROVE  t \in f .. l
    BY <1>1, <1>a, <1>3, <1>4, <1>5, <2>1
  <2> QED
    BY <1>6, <2>1
<1>8. ASSUME NEW s \in Pkts(m)
      PROVE  IsFirst(s) <=> s = f
  <2>1. s \in Nat /\ f \in Nat /\ l \in Nat /\ s < NPkts
    BY <1>1, <1>a, <1>5
  <2>2. s = f /\ s # 0 => MsgOf[s - 1] # MsgOf[s]
    <3>1. s = f /\ s # 0 => s - 1 \in Seqs /\ ~(f <= s - 1)
      BY <2>1, <1>2, Sizes
    <3> QED
      BY <1>1, <1>4, <1>5, <3>1
  <2>3. s # f => s # 0 /\ s - 1 \in f .. l
    BY <1>7, <2>1
  <2>4. s # f => MsgOf[s - 1] = MsgOf[s]
    BY <1>1, <1>6, <2>3
  <2> QED
    BY <2>2, <2>3, <2>4, Ends
<1>9. ASSUME NEW s \in Pkts(m)
      PROVE  IsLast(s) <=> s = l
  <2>1. s \in Nat /\ f \in Nat /\ l \in Nat /\ s < NPkts
    BY <1>1, <1>a, <1>5
  <2>2. s = l /\ s # NPkts - 1 => MsgOf[s + 1] # MsgOf[s]
    <3>1. s = l /\ s # NPkts - 1 => s + 1 \in Seqs /\ ~(l >= s + 1)
      BY <2>1, <1>2, Sizes
    <3> QED
      BY <1>1, <1>3, <1>5, <3>1
  <2>3. s # l => s # NPkts - 1 /\ s + 1 \in f .. l
    BY <1>7, <2>1, <1>2, <1>5
  <2>4. s # l => MsgOf[s + 1] = MsgOf[s]
    BY <1>1, <1>6, <2>3
  <2> QED
    BY <2>2, <2>3, <2>4, Ends
<1> QED
  BY <1>1, <1>5, <1>7, <1>8, <1>9 DEF f, l

(* releaseNextFillerEntries stops at the first position that is no filler. *)
LEMMA PastIs ==
  ASSUME NEW s \in 0 .. NPkts, NEW F, F \subseteq Seqs
  PROVE  /\ Past(s, F) \in s .. NPkts
         /\ Past(s, F) \notin F
         /\ \A t \in s .. (Past(s, F) - 1) : t \in F
<1> DEFINE T == {t \in s .. NPkts : t \notin F}
<1>1. NPkts \in Nat /\ NPkts \notin F /\ NPkts \in s .. NPkts
  BY Sizes DEF Seqs
<1>2. T \subseteq Nat /\ T # {}
  BY <1>1
<1>3. Past(s, F) = Min(T)
  BY Zenon DEF Past, Layout!PastFillers, Layout!Min, Min
<1>4. Min(T) \in T /\ \A y \in T : Min(T) <= y
  BY <1>2, MinIs
<1> QED
  BY <1>1, <1>3, <1>4

(* That says where it stops. *)
LEMMA PastOnly ==
  ASSUME NEW s \in 0 .. NPkts, NEW F, F \subseteq Seqs, NEW e \in s .. NPkts,
         e \notin F, \A t \in s .. (e - 1) : t \in F
  PROVE  Past(s, F) = e
<1>1. PICK u : u = Past(s, F)
  OBVIOUS
<1>2. u \in s .. NPkts /\ u \notin F /\ \A t \in s .. (u - 1) : t \in F
  BY <1>1, PastIs
<1>3. s \in Int /\ NPkts \in Int
  BY Sizes
<1>4. ~(u < e) /\ ~(e < u)
  BY <1>2, <1>3
<1> QED
  BY <1>1, <1>2, <1>3, <1>4

(* updateNonreadPos moves over whole messages that are stored, and as far  *)
(* as it can.                                                              *)
LEMMA ExtendedIs ==
  ASSUME NEW n \in 0 .. NPkts, NEW st
  PROVE  /\ Extended(n, st) \in n .. NPkts
         /\ n .. (Extended(n, st) - 1) \subseteq st
         /\ Extended(n, st) = n \/ (IsFirst(n) /\ IsLast(Extended(n, st) - 1))
         /\ \A e \in n .. NPkts :
              n .. (e - 1) \subseteq st /\ IsFirst(n) /\ IsLast(e - 1) => e <= Extended(n, st)
<1> DEFINE T == {e \in n .. NPkts :
                   e = n \/ (n .. (e - 1) \subseteq st /\ IsFirst(n) /\ IsLast(e - 1))}
<1>1. NPkts \in Nat
  BY Sizes
<1>2. T \subseteq 0 .. NPkts /\ n \in T
  BY <1>1
<1>3. Extended(n, st) = Max(T)
  BY Zenon DEF Extended, Layout!Extended, IsFirst, IsLast, Layout!Max, Max
<1>4. Max(T) \in T /\ \A y \in T : Max(T) >= y
  BY <1>1, <1>2, MaxIs
<1>5. \A e \in T : e \in n .. NPkts /\ n .. (e - 1) \subseteq st
  BY <1>1
<1> QED
  BY <1>1, <1>3, <1>4, <1>5
-----------------------------------------------------------------------------
(* Entries and sequence numbers. *)

(* A packet is stored exactly where its sequence number is.                *)
LEMMA StoredIs ==
  ASSUME NEW b, Placed(b), NEW s
  PROVE  /\ At(b, s) >= 0 <=> s \in StoredIn(b)
         /\ s \in StoredIn(b) => /\ At(b, s) = s /\ s \in Seqs /\ s \in Window(b)
                                 /\ s < b.startSeqNo + b.maxPosOff /\ b.startSeqNo <= s
<1>1. b \in Buffers
  BY DEF Placed
<1>2. /\ At(b, s) \in {Empty, ReadOut, Dropped} \cup Seqs
      /\ At(b, s) # Empty => s \in Window(b)
  BY <1>1, AtIs
<1>3. At(b, s) >= 0 <=> At(b, s) \in Seqs
  BY <1>2, Ends DEF Empty, ReadOut, Dropped
<1>4. At(b, s) >= 0 => s \in Window(b)
  BY <1>2 DEF Empty
<1>5. At(b, s) >= 0 => At(b, s) = s /\ s < b.startSeqNo + b.maxPosOff
  BY <1>4 DEF Placed
<1>6. s \in Window(b) => b.startSeqNo <= s
  BY <1>1, Sizes, Fields DEF Window
<1> QED
  BY <1>3, <1>4, <1>5, <1>6 DEF StoredIn

(* The offset k from the start is the sequence number k after it.          *)
LEMMA EntryIs ==
  ASSUME NEW b \in Buffers, NEW k \in 0 .. Capacity
  PROVE  /\ b.startSeqNo + k \in Window(b)
         /\ IncPos(b.startPos, k) = PosOf(b, b.startSeqNo + k)
         /\ IncPos(b.startPos, k) \in Positions
         /\ b.entries[IncPos(b.startPos, k)] = At(b, b.startSeqNo + k)
<1>1. PICK B : B = b.startSeqNo
  OBVIOUS
<1>2. B \in Int /\ (B + k) - B = k /\ B + k \in Window(b)
  BY <1>1, Sizes, Fields DEF Window
<1>3. PosOf(b, B + k) = IncPos(b.startPos, k)
  BY <1>1, <1>2 DEF PosOf
<1>4. PosOf(b, B + k) \in Positions
  BY <1>2, PosIs
<1> QED
  BY <1>1, <1>2, <1>3, <1>4 DEF At

(* Sets of packets are finite.                                             *)
LEMMA StoredFinite ==
  ASSUME NEW T, T \subseteq Seqs
  PROVE  IsFiniteSet(T) /\ Cardinality(T) \in Nat
<1>1. NPkts - 1 \in Int /\ 0 \in Int
  BY Sizes
<1>2. IsFiniteSet(Seqs)
  BY <1>1, FS_Interval DEF Seqs
<1> QED
  BY <1>2, FS_Subset, FS_CardinalityType

(* Packets are as many as their positions. *)
LEMMA CountAt ==
  ASSUME NEW b \in Buffers, NEW T, T \subseteq Window(b), T \subseteq Seqs
  PROVE  Cardinality({PosOf(b, s) : s \in T}) = Cardinality(T)
<1> DEFINE P == {PosOf(b, s) : s \in T}
           g == [s \in T |-> PosOf(b, s)]
<1>1. IsFiniteSet(T)
  BY StoredFinite
<1>2. \A s, t \in T : PosOf(b, s) = PosOf(b, t) => s = t
  <2>1. \A s \in T : SeqOf(b, PosOf(b, s)) = s
    BY PosIs
  <2> QED
    BY <2>1, Zenon
<1>3. g \in [T -> P]
  BY Zenon
<1>4. g \in Injection(T, P)
  BY <1>2, <1>3 DEF Injection, IsInjective
<1>5. g \in Surjection(T, P)
  BY <1>3 DEF Surjection
<1>6. ExistsBijection(T, P)
  BY <1>4, <1>5, Zenon DEF ExistsBijection, Bijection
<1> QED
  BY <1>1, <1>6, FS_Bijection
-----------------------------------------------------------------------------
(* The helpers of CRcvBuffer. *)

(* Only nonreadPos, the count and what is remembered may differ. *)
SameData(b, c) ==
  /\ c \in Buffers
  /\ c.entries = b.entries /\ c.startSeqNo = b.startSeqNo /\ c.startPos = b.startPos
  /\ c.maxPosOff = b.maxPosOff

(* Buffers with the same entries and start hold the same.                  *)
LEMMA SameShape ==
  ASSUME NEW b, NEW c, c.entries = b.entries, c.startSeqNo = b.startSeqNo, c.startPos = b.startPos
  PROVE  /\ StoredIn(c) = StoredIn(b) /\ Ooo(c) = Ooo(b) /\ Window(c) = Window(b)
         /\ \A s : At(c, s) = At(b, s)
         /\ \A p : SeqOf(c, p) = SeqOf(b, p)
         /\ \A s : PosOf(c, s) = PosOf(b, s)
<1>1. Window(c) = Window(b) /\ \A s : PosOf(c, s) = PosOf(b, s)
  BY DEF Window, PosOf
<1>2. \A s : At(c, s) = At(b, s)
  BY <1>1 DEF At
<1>3. \A p : SeqOf(c, p) = SeqOf(b, p)
  BY DEF SeqOf
<1>4. StoredIn(c) = StoredIn(b)
  BY <1>2 DEF StoredIn
<1>5. Ooo(c) = Ooo(b)
  BY <1>4 DEF Ooo
<1> QED
  BY <1>1, <1>2, <1>3, <1>4, <1>5

(* Nothing of where the packets are depends on the nonread position, the   *)
(* count or what is remembered.                                            *)
LEMMA Same ==
  ASSUME NEW b, NEW c, Placed(b), SameData(b, c)
  PROVE  /\ Placed(c) /\ StoredIn(c) = StoredIn(b) /\ Ooo(c) = Ooo(b)
         /\ \A s : At(c, s) = At(b, s)
         /\ \A p : SeqOf(c, p) = SeqOf(b, p)
         /\ \A s : PosOf(c, s) = PosOf(b, s)
<1>1. /\ StoredIn(c) = StoredIn(b) /\ Ooo(c) = Ooo(b) /\ Window(c) = Window(b)
      /\ \A s : At(c, s) = At(b, s)
      /\ \A p : SeqOf(c, p) = SeqOf(b, p)
      /\ \A s : PosOf(c, s) = PosOf(b, s)
  BY SameShape DEF SameData
<1>2. Placed(c)
  BY <1>1 DEF Placed, SameData
<1> QED
  BY <1>1, <1>2

(* There is something to read in order when the nonread position has a     *)
(* later sequence number than the start.                                   *)
LEMMA InorderIs ==
  ASSUME NEW b \in Buffers
  PROVE  /\ HasReadableInorderPkts(b) <=> NonOf(b) # b.startSeqNo
         /\ NonOf(b) \in Window(b) /\ PosOf(b, NonOf(b)) = b.nonreadPos
         /\ PosOf(b, b.startSeqNo) = b.startPos /\ b.startSeqNo \in Window(b)
<1>1. PICK q : q = b.startPos
  OBVIOUS
<1>2. q \in Positions /\ 0 \in 0 .. Size /\ q + 0 = q /\ q < Size /\ 0 \in 0 .. Capacity
  BY <1>1, Fields, Sizes
<1>3. IncPos(q, 0) = q
  BY <1>2, IncIs
<1>4. b.startSeqNo + 0 = b.startSeqNo
  BY Fields
<1>5. PosOf(b, b.startSeqNo) = b.startPos /\ b.startSeqNo \in Window(b)
  BY <1>1, <1>2, <1>3, <1>4, EntryIs
<1>6. NonOf(b) \in Window(b) /\ PosOf(b, NonOf(b)) = b.nonreadPos
  BY SeqIs, Fields DEF NonOf
<1>7. b.nonreadPos = b.startPos => NonOf(b) = b.startSeqNo
  BY <1>5, PosIs DEF NonOf
<1> QED
  BY <1>5, <1>6, <1>7 DEF HasReadableInorderPkts

(* updateNonreadPos moves the position over as many whole messages as are  *)
(* stored, although it counts positions in the circle                      *)
(* (buffer_rcv.cpp:825-858).                                               *)
LEMMA UpdateNonreadPosIs ==
  ASSUME NEW b, Placed(b), NonOf(b) <= b.startSeqNo + b.maxPosOff, NonOf(b) <= NPkts,
         NEW c, c = UpdateNonreadPos(b)
  PROVE  /\ SameData(b, c) /\ c.numOutOfOrder = b.numOutOfOrder /\ c.readableOOO = b.readableOOO
         /\ NonOf(c) = Extended(NonOf(b), StoredIn(b))
         /\ NonOf(c) <= b.startSeqNo + b.maxPosOff
<1> DEFINE span == OffPos(b.nonreadPos, IncPos(b.startPos, b.maxPosOff))
           reach == {n \in 1 .. span : /\ Run(b, b.nonreadPos, n)
                                       /\ IsFirst(b.entries[b.nonreadPos])
                                       /\ IsLast(b.entries[IncPos(b.nonreadPos, n - 1)])}
<1>1. b \in Buffers
  BY DEF Placed
<1>2. PICK S : S = b.startSeqNo
  OBVIOUS
<1>3. PICK N : N = NonOf(b)
  OBVIOUS
<1>4. PICK M : M = b.maxPosOff
  OBVIOUS
<1>5. /\ S \in Nat /\ M \in 0 .. Capacity /\ N \in Int /\ S <= N /\ N <= S + M /\ N <= NPkts /\ N \in Nat
      /\ Capacity \in Nat /\ NPkts \in Nat /\ Size = Capacity + 1
  BY <1>1, <1>2, <1>3, <1>4, Fields, InorderIs, Sizes DEF Window
<1>6. PICK d : d = N - S
  OBVIOUS
<1>7. d \in 0 .. Capacity /\ d <= M /\ S + d = N
  BY <1>5, <1>6
<1>8. IncPos(b.startPos, d) = b.nonreadPos /\ b.nonreadPos \in Positions /\ b.startPos \in Positions
  BY <1>1, <1>2, <1>3, <1>7, EntryIs, InorderIs, Fields
<1>9. \A j \in 0 .. (M - d) : IncPos(b.nonreadPos, j) = IncPos(b.startPos, d + j) /\ d + j \in 0 .. Capacity
  <2>1. SUFFICES ASSUME NEW j \in 0 .. (M - d)
                 PROVE  IncPos(b.nonreadPos, j) = IncPos(b.startPos, d + j) /\ d + j \in 0 .. Capacity
    OBVIOUS
  <2>2. j \in 0 .. Size /\ d \in 0 .. Size /\ d + j <= Size /\ d + j \in 0 .. Capacity
    BY <1>5, <1>7
  <2> QED
    BY <1>8, <2>2, IncInc
<1>10. \A j \in 0 .. (M - d) : b.entries[IncPos(b.nonreadPos, j)] = At(b, N + j)
  <2>1. SUFFICES ASSUME NEW j \in 0 .. (M - d)
                 PROVE  b.entries[IncPos(b.nonreadPos, j)] = At(b, N + j)
    OBVIOUS
  <2>2. d + j \in 0 .. Capacity /\ S + (d + j) = N + j
    BY <1>5, <1>7, <1>9
  <2> QED
    BY <1>1, <1>2, <1>9, <2>2, EntryIs
<1>11. span = M - d
  <2>1. PICK e : e = M - d
    OBVIOUS
  <2>2. e \in 0 .. (M - d) /\ e \in 0 .. Capacity /\ d + e = M
    BY <1>5, <1>7, <2>1
  <2>3. IncPos(b.nonreadPos, e) = IncPos(b.startPos, M)
    BY <1>9, <2>2
  <2>4. PICK q : q = b.nonreadPos
    OBVIOUS
  <2>5. q \in Positions /\ e \in 0 .. Size
    BY <1>5, <1>8, <2>2, <2>4
  <2>6. PICK r : r = IncPos(q, e)
    OBVIOUS
  <2>7. r \in Positions /\ r = IF q + e < Size THEN q + e ELSE q + e - Size
    BY <2>5, <2>6, IncIs
  <2>8. OffPos(q, r) = IF q <= r THEN r - q ELSE r - q + Size
    BY <2>5, <2>7, OffIs
  <2>9. OffPos(q, r) = e
    BY <1>5, <2>2, <2>5, <2>7, <2>8, Sizes
  <2> QED
    BY <1>4, <2>1, <2>3, <2>4, <2>6, <2>9
<1> HIDE DEF span
<1>12. ASSUME NEW n \in 1 .. (M - d)
       PROVE  Run(b, b.nonreadPos, n) <=> N .. (N + n - 1) \subseteq StoredIn(b)
  <2>1. ASSUME NEW k \in 0 .. (n - 1)
        PROVE  HasUnit(b, IncPos(b.nonreadPos, k)) <=> N + k \in StoredIn(b)
    <3>1. k \in 0 .. (M - d)
      BY <1>5, <1>7
    <3>2. b.entries[IncPos(b.nonreadPos, k)] = At(b, N + k)
      BY <1>10, <3>1
    <3> QED
      BY <3>2, StoredIs DEF HasUnit
  <2>2. ASSUME Run(b, b.nonreadPos, n), NEW t \in N .. (N + n - 1)
        PROVE  t \in StoredIn(b)
    <3>1. t - N \in 0 .. (n - 1) /\ N + (t - N) = t
      BY <1>5
    <3> QED
      BY <2>1, <2>2, <3>1 DEF Run
  <2>3. ASSUME N .. (N + n - 1) \subseteq StoredIn(b), NEW k \in 0 .. (n - 1)
        PROVE  HasUnit(b, IncPos(b.nonreadPos, k))
    <3>1. N + k \in N .. (N + n - 1)
      BY <1>5
    <3> QED
      BY <2>1, <2>3, <3>1
  <2> QED
    BY <2>2, <2>3, Zenon DEF Run
<1> DEFINE X(e) == N .. (e - 1) \subseteq StoredIn(b) /\ IsFirst(N) /\ IsLast(e - 1)
<1>13. ASSUME NEW n \in 1 .. (M - d)
       PROVE  n \in reach <=> X(N + n)
  <2>1. 0 \in 0 .. (M - d) /\ n - 1 \in 0 .. (M - d) /\ N + 0 = N /\ N + (n - 1) = N + n - 1
    BY <1>5, <1>7
  <2>2. b.entries[IncPos(b.nonreadPos, 0)] = At(b, N) /\ IncPos(b.nonreadPos, 0) = b.nonreadPos
    <3>1. d + 0 = d
      BY <1>7
    <3> QED
      BY <1>8, <1>9, <1>10, <2>1, <3>1
  <2>3. b.entries[IncPos(b.nonreadPos, n - 1)] = At(b, N + n - 1)
    BY <1>10, <2>1
  <2>4. n \in reach <=> /\ N .. (N + n - 1) \subseteq StoredIn(b)
                        /\ IsFirst(At(b, N)) /\ IsLast(At(b, N + n - 1))
    BY <1>11, <1>12, <2>2, <2>3
  <2>5. N \in N .. (N + n - 1) /\ N + n - 1 \in N .. (N + n - 1)
    BY <1>5
  <2>6. N .. (N + n - 1) \subseteq StoredIn(b) => At(b, N) = N /\ At(b, N + n - 1) = N + n - 1
    BY <2>5, StoredIs
  <2>7. N + n - 1 = (N + n) - 1
    BY <1>5
  <2> HIDE DEF reach
  <2> QED
    BY <2>4, <2>6, <2>7, Zenon
<1> HIDE DEF reach
<1>14. PICK E : E = Extended(N, StoredIn(b))
  OBVIOUS
<1>15. /\ E \in N .. NPkts /\ N .. (E - 1) \subseteq StoredIn(b) /\ (E = N \/ X(E))
       /\ \A e \in N .. NPkts : X(e) => e <= E
  <2>1. N \in 0 .. NPkts
    BY <1>5
  <2> QED
    BY <2>1, <1>14, ExtendedIs
<1> HIDE DEF X
<1>16. ASSUME NEW e \in (N + 1) .. NPkts, X(e)
       PROVE  e - N \in 1 .. (M - d) /\ e - N \in reach
  <2>1. e - 1 \in N .. (e - 1)
    BY <1>5
  <2>2. e - 1 \in StoredIn(b)
    BY <1>16, <2>1 DEF X
  <2>3. e - 1 < S + M
    BY <1>2, <1>4, <2>2, StoredIs
  <2>4. e - N \in 1 .. (M - d) /\ N + (e - N) = e
    BY <1>5, <1>6, <1>7, <2>3
  <2> QED
    BY <1>13, <1>16, <2>4
<1>17. reach \subseteq 1 .. (M - d)
  BY <1>11 DEF reach
<1>18. CASE reach = {}
  <2>1. E = N
    <3>1. SUFFICES ASSUME E # N PROVE FALSE
      OBVIOUS
    <3>2. E \in (N + 1) .. NPkts /\ X(E)
      BY <1>5, <1>15, <3>1
    <3> QED
      BY <1>16, <1>18, <3>2
  <2>2. c = b
    BY <1>18 DEF UpdateNonreadPos, reach, span
  <2> QED
    BY <1>1, <1>2, <1>3, <1>4, <1>5, <1>14, <2>1, <2>2 DEF SameData
<1>19. CASE reach # {}
  <2>1. PICK x : x = Max(reach)
    OBVIOUS
  <2>2. M - d \in Nat /\ reach \subseteq 0 .. (M - d)
    BY <1>5, <1>7, <1>17
  <2>3. x \in reach /\ \A y \in reach : x >= y
    BY <1>19, <2>1, <2>2, MaxIs
  <2>4. x \in 1 .. (M - d) /\ M # 0
    BY <1>5, <1>7, <1>17, <2>3
  <2>5. X(N + x)
    BY <1>13, <2>3, <2>4
  <2>6. N + x <= NPkts
    <3>1. N + x - 1 \in N .. (N + x - 1)
      BY <1>5, <2>4
    <3>a. N + x - 1 = (N + x) - 1
      BY <1>5, <2>4
    <3>2. N .. (N + x - 1) \subseteq StoredIn(b)
      BY <2>5, <3>a, Zenon DEF X
    <3>3. N + x - 1 \in Seqs
      BY <3>1, <3>2, StoredIs
    <3> QED
      BY <1>5, <2>4, <3>3, Ends
  <2>7. N + x <= E /\ E # N
    BY <1>5, <1>15, <2>4, <2>5, <2>6
  <2>8. E - N \in reach
    BY <1>5, <1>15, <1>16, <2>7
  <2>9. E = N + x
    BY <1>5, <1>15, <2>3, <2>4, <2>7, <2>8
  <2>10. c = [b EXCEPT !.nonreadPos = IncPos(b.nonreadPos, x)]
    BY <1>4, <1>19, <2>1, <2>4 DEF UpdateNonreadPos, reach, span
  <2>11. x \in 0 .. (M - d) /\ d + x \in 0 .. Capacity /\ S + (d + x) = E
    BY <1>5, <1>7, <2>4, <2>9
  <2>12. IncPos(b.nonreadPos, x) = PosOf(b, E) /\ E \in Window(b) /\ PosOf(b, E) \in Positions
    BY <1>1, <1>2, <1>9, <2>11, EntryIs
  <2>13. PICK q \in Positions : q = PosOf(b, E)
    BY <2>12
  <2>14. c = [b EXCEPT !.nonreadPos = q]
    BY <2>10, <2>12, <2>13
  <2>15. c \in Buffers
    BY <1>1, <2>14 DEF Buffers
  <2>16. SameData(b, c) /\ c.nonreadPos = q /\ c.numOutOfOrder = b.numOutOfOrder /\ c.readableOOO = b.readableOOO
    BY <1>1, <2>14, <2>15 DEF SameData, Buffers
  <2>17. NonOf(c) = E
    <3>1. SeqOf(b, q) = E
      BY <1>1, <2>12, <2>13, PosIs
    <3> QED
      BY <2>16, <3>1, Same DEF NonOf
  <2>18. E <= S + M
    BY <1>5, <1>6, <2>4, <2>9
  <2> QED
    BY <1>2, <1>3, <1>4, <1>14, <2>16, <2>17, <2>18
<1> QED
  BY <1>18, <1>19

(* releaseNextFillerEntries *)
FillersOf(b) == {s \in Seqs : At(b, s) \in Fillers}

(* releaseNextFillerEntries empties the fillers at the start and nothing   *)
(* else, and does not go around the array (buffer_rcv.cpp:809-823).        *)
LEMMA ReleaseIs ==
  ASSUME NEW b \in Buffers,
         \A s \in Window(b) : At(b, s) # Empty => s < NPkts /\ s < b.startSeqNo + Capacity,
         NEW c, c = ReleaseNextFillerEntries(b),
         NEW e, e = Past(b.startSeqNo, FillersOf(b))
  PROVE  /\ c \in Buffers /\ c.startSeqNo = e
         /\ e \in b.startSeqNo .. NPkts /\ e <= b.startSeqNo + Capacity
         /\ \A s \in Int : At(c, s) = IF s < e THEN Empty ELSE At(b, s)
         /\ At(c, e) \notin Fillers
         /\ c.maxPosOff = IF b.maxPosOff > e - b.startSeqNo THEN b.maxPosOff - (e - b.startSeqNo) ELSE 0
         /\ c.nonreadPos = b.nonreadPos /\ c.numOutOfOrder = b.numOutOfOrder
         /\ c.readableOOO = b.readableOOO
         /\ c.startPos = IncPos(b.startPos, e - b.startSeqNo)
<1> DEFINE K == {k \in 0 .. Size : k = Size \/ b.entries[IncPos(b.startPos, k)] \notin {ReadOut, Dropped}}
<1>1. PICK S : S = b.startSeqNo
  OBVIOUS
<1>2. S \in 0 .. NPkts /\ S \in Nat /\ NPkts \in Nat /\ Capacity \in Nat /\ Capacity # 0 /\ Size = Capacity + 1
  BY <1>1, Fields, Sizes
<1>3. \A k \in 0 .. Capacity : /\ S + k \in Window(b) /\ IncPos(b.startPos, k) \in Positions
                               /\ IncPos(b.startPos, k) = PosOf(b, S + k)
                               /\ b.entries[IncPos(b.startPos, k)] = At(b, S + k)
  BY <1>1, EntryIs
<1>4. Capacity \in K
  <2>1. Capacity \in 0 .. Capacity /\ ~(S + Capacity < S + Capacity) /\ Capacity \in 0 .. Size
    BY <1>2
  <2>2. At(b, S + Capacity) = Empty
    BY <1>1, <1>3, <2>1
  <2> QED
    BY <1>3, <2>1, <2>2 DEF Empty, ReadOut, Dropped
<1>5. K \subseteq Nat /\ K # {}
  BY <1>2, <1>4
<1>6. PICK n : n = Min(K)
  OBVIOUS
<1>7. n \in K /\ \A y \in K : n <= y
  BY <1>5, <1>6, MinIs
<1>8. n \in 0 .. Capacity /\ n \in Nat /\ n # Size
  BY <1>2, <1>4, <1>5, <1>7
<1>9. At(b, S + n) \notin Fillers
  BY <1>3, <1>7, <1>8 DEF Fillers
<1>10. ASSUME NEW k \in 0 .. (n - 1)
       PROVE  At(b, S + k) \in Fillers /\ S + k \in Seqs
  <2>1. k \in 0 .. Size /\ k \in 0 .. Capacity /\ ~(n <= k) /\ k \in Nat
    BY <1>2, <1>8
  <2>2. k \notin K
    BY <1>7, <2>1
  <2>3. At(b, S + k) \in Fillers
    BY <1>3, <2>1, <2>2 DEF Fillers
  <2>4. S + k < NPkts
    BY <1>1, <1>3, <2>1, <2>3 DEF Fillers, Empty, ReadOut, Dropped
  <2> QED
    BY <1>2, <2>1, <2>3, <2>4, Ends
<1>11. S + n \in S .. NPkts
  <2>1. CASE n = 0
    BY <1>2, <2>1
  <2>2. CASE n # 0
    <3>1. n - 1 \in 0 .. (n - 1)
      BY <1>8, <2>2
    <3>2. S + (n - 1) \in Seqs
      BY <1>10, <3>1
    <3> QED
      BY <1>2, <1>8, <3>2, Ends
  <2> QED
    BY <2>1, <2>2
<1>12. e = S + n
  <2>1. S + n \notin FillersOf(b) /\ FillersOf(b) \subseteq Seqs
    BY <1>9 DEF FillersOf
  <2>2. ASSUME NEW t \in S .. ((S + n) - 1)
        PROVE  t \in FillersOf(b)
    <3>1. t - S \in 0 .. (n - 1) /\ S + (t - S) = t
      BY <1>2, <1>8
    <3> QED
      BY <1>10, <3>1 DEF FillersOf
  <2> QED
    BY <1>1, <1>2, <1>11, <2>1, <2>2, PastOnly
<1>13. e - S = n /\ e \in S .. NPkts /\ e <= S + Capacity /\ e \in 0 .. NPkts
  BY <1>2, <1>8, <1>11, <1>12
<1> DEFINE freed == {IncPos(b.startPos, k) : k \in 0 .. (n - 1)}
<1>14. c = [b EXCEPT !.entries = [p \in Positions |-> IF p \in freed THEN Empty ELSE b.entries[p]],
                     !.startSeqNo = b.startSeqNo + n, !.startPos = IncPos(b.startPos, n),
                     !.maxPosOff = IF b.maxPosOff > n THEN b.maxPosOff - n ELSE 0]
  BY <1>6, Zenon DEF ReleaseNextFillerEntries
<1>15. PICK ent : ent = [p \in Positions |-> IF p \in freed THEN Empty ELSE b.entries[p]]
  OBVIOUS
<1>16. PICK sp : sp = IncPos(b.startPos, n)
  OBVIOUS
<1>17. PICK mx : mx = IF b.maxPosOff > n THEN b.maxPosOff - n ELSE 0
  OBVIOUS
<1>18. c = [b EXCEPT !.entries = ent, !.startSeqNo = e, !.startPos = sp, !.maxPosOff = mx]
  BY <1>1, <1>12, <1>14, <1>15, <1>16, <1>17
<1>19. /\ ent \in [Positions -> {Empty, ReadOut, Dropped} \cup Seqs]
       /\ sp \in Positions /\ mx \in 0 .. Capacity
  <2>1. sp \in Positions
    BY <1>3, <1>8, <1>16
  <2>2. mx \in 0 .. Capacity
    <3>1. PICK mo : mo = b.maxPosOff
      OBVIOUS
    <3>2. mo \in 0 .. Capacity
      BY <3>1, Fields
    <3> QED
      BY <1>2, <1>8, <1>17, <3>1, <3>2
  <2>3. \A p \in Positions : b.entries[p] \in {Empty, ReadOut, Dropped} \cup Seqs
    BY Fields
  <2> HIDE DEF freed
  <2>4. ent \in [Positions -> {Empty, ReadOut, Dropped} \cup Seqs]
    BY <1>15, <2>3
  <2> QED
    BY <2>1, <2>2, <2>4
<1>20. /\ c \in Buffers /\ c.entries = ent /\ c.startSeqNo = e /\ c.startPos = sp /\ c.maxPosOff = mx
       /\ c.nonreadPos = b.nonreadPos /\ c.numOutOfOrder = b.numOutOfOrder
       /\ c.readableOOO = b.readableOOO
  BY <1>13, <1>18, <1>19 DEF Buffers
<1>21. Covers(b, freed, {s \in Int : s < c.startSeqNo})
  <2>0. \A s \in Window(b) : s \in Int
    BY <1>1, <1>2 DEF Window
  <2>1. SUFFICES ASSUME NEW s \in Window(b)
                 PROVE  PosOf(b, s) \in freed <=> s < S + n
    BY <1>12, <1>20, <2>0, Zenon DEF Covers
  <2>2. PICK k : k = s - S
    OBVIOUS
  <2>3. k \in 0 .. Capacity /\ S + k = s /\ (k < n <=> s < S + n)
    BY <1>1, <1>2, <1>8, <2>2 DEF Window
  <2>4. IncPos(b.startPos, k) = PosOf(b, s)
    BY <1>3, <2>3
  <2>5. k < n => PosOf(b, s) \in freed
    <3>1. k < n => k \in 0 .. (n - 1)
      BY <1>8, <2>3
    <3> QED
      BY <2>4, <3>1
  <2>6. ASSUME NEW j \in 0 .. (n - 1), PosOf(b, s) = IncPos(b.startPos, j)
        PROVE  k < n
    <3>1. j \in 0 .. Capacity
      BY <1>2, <1>8
    <3>2. S + j \in Window(b) /\ PosOf(b, s) = PosOf(b, S + j)
      BY <1>3, <2>6, <3>1
    <3>3. s = S + j
      BY <3>2, PosIs
    <3> QED
      BY <1>2, <1>8, <2>3, <3>3
  <2> QED
    BY <2>3, <2>5, <2>6
<1>22. \A s \in Int : At(c, s) = IF s < c.startSeqNo THEN Empty ELSE At(b, s)
  <2> HIDE DEF freed
  <2>1. Writes(b, c, freed, Empty)
    BY <1>15, <1>20 DEF Writes
  <2>2. n \in 0 .. Capacity /\ c \in Buffers
        /\ c.startSeqNo = b.startSeqNo + n /\ c.startPos = IncPos(b.startPos, n)
    BY <1>1, <1>8, <1>12, <1>16, <1>20
  <2> QED
    BY <1>21, <2>1, <2>2, AtCut
<1>23. At(c, e) \notin Fillers
  <2>1. e \in Int /\ ~(e < e)
    BY <1>13
  <2> QED
    BY <1>9, <1>12, <1>20, <1>22, <2>1
<1> QED
  BY <1>1, <1>13, <1>16, <1>17, <1>20, <1>22, <1>23

(* The scans to the right and to the left of a packet find its message     *)
(* when all of it is stored, wherever the packet is in it.                 *)
LEMMA WholeIs ==
  ASSUME NEW b, Placed(b), NEW s \in StoredIn(b), NEW m, m = MsgOf[s],
         NEW p, p = PosOf(b, s)
  PROVE  /\ s \in Pkts(m)
         /\ Whole(b, p) = IF Pkts(m) \subseteq StoredIn(b) THEN PosOf(b, FirstOf(m)) ELSE -1
<1>1. PICK S : S = b.startSeqNo
  OBVIOUS
<1>2. PICK M : M = b.maxPosOff
  OBVIOUS
<1>3. b \in Buffers
  BY DEF Placed
<1>4. S \in Nat /\ M \in 0 .. Capacity /\ M \in Nat /\ Capacity \in Nat /\ NPkts \in Nat
  BY <1>1, <1>2, <1>3, Fields, Sizes
<1>5. /\ s \in Seqs /\ s \in Window(b) /\ S <= s /\ s < S + M /\ s \in Nat
      /\ \A t \in StoredIn(b) : t \in Seqs /\ S <= t /\ t < S + M /\ t \in Int
  BY <1>1, <1>2, StoredIs, Ends
<1>6. s \in Pkts(m) /\ Pkts(m) # {}
  BY <1>5, Ends
<1>7. PICK f : f = FirstOf(m)
  OBVIOUS
<1>8. PICK l : l = LastOf(m)
  OBVIOUS
<1>9. /\ f \in Seqs /\ l \in Seqs /\ Pkts(m) = f .. l /\ f \in Int /\ l \in Int /\ f <= s /\ s <= l
      /\ \A t \in Pkts(m) : (IsFirst(t) <=> t = f) /\ (IsLast(t) <=> t = l) /\ MsgOf[t] = m
      /\ \A t \in Seqs : MsgOf[t] = m => t \in Pkts(m)
  <2>1. /\ f \in Seqs /\ l \in Seqs /\ Pkts(m) = f .. l /\ f \in Int /\ l \in Int
        /\ \A t \in Pkts(m) : (IsFirst(t) <=> t = f) /\ (IsLast(t) <=> t = l) /\ MsgOf[t] = m
    BY <1>6, <1>7, <1>8, MsgSpan, Ends
  <2>2. f <= s /\ s <= l
    BY <1>6, <2>1
  <2>3. \A t \in Seqs : MsgOf[t] = m => t \in Pkts(m)
    BY Ends
  <2> QED
    BY <2>1, <2>2, <2>3
<1> DEFINE off == OffPos(b.startPos, p)
           ent(k) == b.entries[IncPos(b.startPos, k)]
           SameAt(k) == ent(k) >= 0 /\ MsgOf[ent(k)] = MsgOf[b.entries[p]]
           firsts == {k \in 0 .. off : (\A j \in k .. off : SameAt(j)) /\ IsFirst(ent(k))}
           lasts == {k \in off .. (b.maxPosOff - 1) : (\A j \in off .. k : SameAt(j)) /\ IsLast(ent(k))}
<1>10. Whole(b, p) = IF firsts # {} /\ lasts # {} THEN IncPos(b.startPos, Max(firsts)) ELSE -1
  BY Zenon DEF Whole
<1>a. b.entries[p] = s
  BY <1>3, <1>5, StoredIs DEF At
<1>11. off = s - S /\ off \in 0 .. Capacity /\ S + off = s /\ off < M
  <2>1. off = s - S
    BY <1>1, <1>3, <1>5, PosIs
  <2> QED
    BY <1>4, <1>5, <2>1
<1>12. ASSUME NEW k \in 0 .. Capacity
       PROVE  /\ ent(k) = At(b, S + k)
              /\ SameAt(k) <=> S + k \in StoredIn(b) /\ S + k \in Pkts(m)
  <2>1. ent(k) = At(b, S + k)
    BY <1>1, <1>3, EntryIs
  <2>2. ent(k) >= 0 <=> S + k \in StoredIn(b)
    BY <2>1, StoredIs
  <2>3. S + k \in StoredIn(b) => ent(k) = S + k /\ S + k \in Seqs
    BY <2>1, StoredIs
  <2> QED
    BY <1>9, <1>a, <2>1, <2>2, <2>3
<1>b. /\ firsts = {k \in 0 .. off : (\A j \in k .. off : SameAt(j)) /\ IsFirst(ent(k))}
      /\ lasts = {k \in off .. (M - 1) : (\A j \in off .. k : SameAt(j)) /\ IsLast(ent(k))}
  BY <1>2
<1> HIDE DEF off, ent, SameAt, firsts, lasts
<1>13. ASSUME NEW k \in firsts
       PROVE  S + k = f /\ f .. s \subseteq StoredIn(b)
  <2>1. k \in 0 .. off /\ (\A j \in k .. off : SameAt(j)) /\ IsFirst(ent(k)) /\ k \in 0 .. Capacity
    BY <1>4, <1>11, <1>b
  <2>2. SameAt(k)
    BY <1>11, <2>1
  <2>3. S + k \in StoredIn(b) /\ S + k \in Pkts(m) /\ ent(k) = S + k
    BY <1>12, <2>1, <2>2, StoredIs
  <2>4. S + k = f
    BY <1>9, <2>1, <2>3
  <2>5. ASSUME NEW t \in f .. s PROVE t \in StoredIn(b)
    <3>1. t - S \in k .. off /\ t - S \in 0 .. Capacity /\ S + (t - S) = t
      BY <1>4, <1>5, <1>9, <1>11, <2>1, <2>4
    <3> QED
      BY <1>12, <2>1, <3>1
  <2> QED
    BY <2>4, <2>5
<1>14. ASSUME NEW k \in lasts
       PROVE  s .. l \subseteq StoredIn(b)
  <2>1. k \in off .. (M - 1) /\ (\A j \in off .. k : SameAt(j)) /\ IsLast(ent(k)) /\ k \in 0 .. Capacity
    BY <1>4, <1>11, <1>b
  <2>2. SameAt(k)
    BY <1>4, <1>11, <2>1
  <2>3. S + k \in StoredIn(b) /\ S + k \in Pkts(m) /\ ent(k) = S + k
    BY <1>12, <2>1, <2>2, StoredIs
  <2>4. S + k = l
    BY <1>9, <2>1, <2>3
  <2>5. ASSUME NEW t \in s .. l PROVE t \in StoredIn(b)
    <3>1. t - S \in off .. k /\ t - S \in 0 .. Capacity /\ S + (t - S) = t
      BY <1>4, <1>5, <1>9, <1>11, <2>1, <2>4
    <3> QED
      BY <1>12, <2>1, <3>1
  <2> QED
    BY <2>5
<1>15. ASSUME Pkts(m) \subseteq StoredIn(b)
       PROVE  f - S \in firsts /\ l - S \in lasts /\ f - S \in 0 .. Capacity
  <2>1. f \in StoredIn(b) /\ l \in StoredIn(b) /\ f \in Pkts(m) /\ l \in Pkts(m)
    BY <1>5, <1>9, <1>15
  <2>2. /\ f - S \in 0 .. off /\ f - S \in 0 .. Capacity /\ S + (f - S) = f
        /\ l - S \in off .. (M - 1) /\ l - S \in 0 .. Capacity /\ S + (l - S) = l
    BY <1>4, <1>5, <1>9, <1>11, <2>1
  <2>3. ent(f - S) = f /\ ent(l - S) = l
    BY <1>12, <2>1, <2>2, StoredIs
  <2>4. IsFirst(f) /\ IsLast(l)
    BY <1>9, <2>1
  <2>5. ASSUME NEW j \in (f - S) .. (l - S) PROVE SameAt(j)
    <3>1. j \in 0 .. Capacity /\ S + j \in f .. l
      BY <1>4, <1>9, <2>2
    <3> QED
      BY <1>9, <1>12, <1>15, <3>1
  <2>6. (\A j \in (f - S) .. off : SameAt(j)) /\ (\A j \in off .. (l - S) : SameAt(j))
    <3>1. /\ \A j \in (f - S) .. off : j \in (f - S) .. (l - S)
          /\ \A j \in off .. (l - S) : j \in (f - S) .. (l - S)
      BY <1>4, <1>9, <1>11, <2>2
    <3> QED
      BY <2>5, <3>1
  <2> QED
    BY <1>b, <2>2, <2>3, <2>4, <2>6
<1>16. CASE Pkts(m) \subseteq StoredIn(b)
  <2>1. PICK k : k = Max(firsts)
    OBVIOUS
  <2>2. Capacity \in Nat /\ firsts \subseteq 0 .. Capacity
    BY <1>4, <1>11, <1>b
  <2>3. firsts # {} /\ lasts # {}
    BY <1>15, <1>16
  <2>4. k \in firsts
    BY <2>1, <2>2, <2>3, MaxIs
  <2>5. S + k = f /\ k \in 0 .. Capacity
    BY <1>13, <2>2, <2>4
  <2>6. IncPos(b.startPos, k) = PosOf(b, f)
    BY <1>1, <1>3, <2>5, EntryIs
  <2> QED
    BY <1>6, <1>7, <1>10, <1>16, <2>1, <2>3, <2>6
<1>17. CASE ~(Pkts(m) \subseteq StoredIn(b))
  <2>1. PICK t : t \in f .. l /\ t \notin StoredIn(b)
    BY <1>9, <1>17
  <2>2. t \in f .. s \/ t \in s .. l
    BY <1>5, <1>9, <2>1
  <2>3. firsts = {} \/ lasts = {}
    BY <1>13, <1>14, <2>1, <2>2
  <2> QED
    BY <1>6, <1>10, <1>17, <2>3
<1> QED
  BY <1>16, <1>17

(* A packet begins a readable message when the scan from it comes back to  *)
(* it.                                                                     *)
LEMMA WholeHere ==
  ASSUME NEW b, Placed(b), NEW s \in StoredIn(b), NEW m, m = MsgOf[s]
  PROVE  /\ Whole(b, PosOf(b, s)) = PosOf(b, s) <=> Pkts(m) \subseteq StoredIn(b) /\ IsFirst(s)
         /\ PosOf(b, s) \in Positions
<1>1. b \in Buffers /\ s \in Window(b) /\ PosOf(b, s) \in Positions /\ PosOf(b, s) # -1
  <2>1. b \in Buffers /\ s \in Window(b)
    BY StoredIs DEF Placed
  <2>2. PosOf(b, s) \in Positions
    BY <2>1, PosIs
  <2> QED
    BY <2>1, <2>2, Sizes
<1>2. PICK p : p = PosOf(b, s)
  OBVIOUS
<1>3. /\ s \in Pkts(m)
      /\ Whole(b, p) = IF Pkts(m) \subseteq StoredIn(b) THEN PosOf(b, FirstOf(m)) ELSE -1
  BY <1>2, WholeIs
<1>4. FirstOf(m) \in Pkts(m) /\ (IsFirst(s) <=> s = FirstOf(m))
  <2>1. Pkts(m) # {}
    BY <1>3
  <2>2. /\ FirstOf(m) \in Int /\ LastOf(m) \in Int /\ FirstOf(m) <= LastOf(m)
        /\ Pkts(m) = FirstOf(m) .. LastOf(m) /\ (IsFirst(s) <=> s = FirstOf(m))
    BY <1>3, <2>1, MsgSpan, Ends
  <2> QED
    BY <2>2
<1>5. Pkts(m) \subseteq StoredIn(b) => FirstOf(m) \in Window(b)
  BY <1>4, StoredIs
<1>6. Pkts(m) \subseteq StoredIn(b) => (PosOf(b, FirstOf(m)) = p <=> FirstOf(m) = s)
  BY <1>1, <1>2, <1>5, PosIs
<1> QED
  BY <1>1, <1>2, <1>3, <1>4, <1>6

(* What is remembered, by its first packet. *)
ReadsAt(b, f) ==
  /\ f \in StoredIn(b) /\ IsFirst(f) /\ MsgOf[f] \in dgram /\ Pkts(MsgOf[f]) \subseteq StoredIn(b)

(* A remembered position of a readable message is right.                   *)
LEMMA RememberedAt ==
  ASSUME NEW b, Placed(b), NEW f, ReadsAt(b, f), b.readableOOO = PosOf(b, f)
  PROVE  Remembered(b) /\ b.readableOOO >= 0
<1>1. b \in Buffers /\ f \in Window(b) /\ At(b, f) = f /\ f >= 0
  BY StoredIs, Ends DEF Placed, ReadsAt
<1>2. PosOf(b, f) \in Positions /\ b.entries[PosOf(b, f)] = f
  BY <1>1, PosIs DEF At
<1>3. PosOf(b, f) >= 0
  BY <1>2, Sizes
<1> QED
  BY <1>1, <1>2, <1>3 DEF Remembered, ReadsAt

(* A position with a packet holds the packet of its sequence number.       *)
LEMMA EntryStored ==
  ASSUME NEW b, Placed(b), NEW p \in Positions, b.entries[p] >= 0
  PROVE  b.entries[p] \in StoredIn(b) /\ PosOf(b, b.entries[p]) = p
<1>1. b \in Buffers
  BY DEF Placed
<1>2. PICK s : s = SeqOf(b, p)
  OBVIOUS
<1>3. At(b, s) = b.entries[p] /\ PosOf(b, s) = p
  BY <1>1, <1>2, SeqIs
<1>4. s \in StoredIn(b) /\ At(b, s) = s
  BY <1>3, StoredIs
<1> QED
  BY <1>3, <1>4

(* What is remembered is the position of a readable message's first        *)
(* packet.                                                                 *)
LEMMA RememberedIs ==
  ASSUME NEW b, Placed(b), Remembered(b), b.readableOOO >= 0
  PROVE  ReadsAt(b, b.entries[b.readableOOO])
         /\ b.readableOOO = PosOf(b, b.entries[b.readableOOO]) /\ b.readableOOO \in Positions
<1>1. b.readableOOO \in Positions
  <2>1. b.readableOOO \in Positions \cup {-1}
    BY Fields DEF Placed
  <2> QED
    BY <2>1
<1>2. PICK s : s = b.entries[b.readableOOO]
  OBVIOUS
<1>3. s >= 0 /\ IsFirst(s) /\ MsgOf[s] \in dgram /\ Pkts(MsgOf[s]) \subseteq StoredIn(b)
  BY <1>2 DEF Remembered
<1>4. s \in StoredIn(b) /\ PosOf(b, s) = b.readableOOO
  BY <1>1, <1>2, <1>3, EntryStored
<1> QED
  BY <1>1, <1>2, <1>3, <1>4 DEF ReadsAt

(* A datagram has a first packet. *)
LEMMA DgramIs ==
  ASSUME dgram \in Mixes, NEW b, Placed(b), NEW m \in dgram, Pkts(m) \subseteq StoredIn(b)
  PROVE  /\ ReadsAt(b, FirstOf(m)) /\ Ooo(b) # {} /\ MsgOf[FirstOf(m)] = m
         /\ FirstOf(m) \in Pkts(m)
<1>1. Pkts(m) # {}
  <2>1. \E s \in 0 .. (NPkts - 1) : MsgOf[s] = m
    BY RcvBufferAssumption
  <2> QED
    BY <2>1, Ends DEF Seqs
<1>2. PICK f : f = FirstOf(m)
  OBVIOUS
<1>3. /\ f \in Int /\ LastOf(m) \in Int /\ f <= LastOf(m) /\ Pkts(m) = f .. LastOf(m)
  BY <1>1, <1>2, MsgSpan, Ends
<1>4. f \in Pkts(m)
  BY <1>3
<1>5. MsgOf[f] = m /\ IsFirst(f)
  BY <1>1, <1>2, <1>4, MsgSpan
<1>6. ReadsAt(b, f) /\ f \in Ooo(b)
  BY <1>4, <1>5 DEF ReadsAt, Ooo, OrderFlag
<1> QED
  BY <1>2, <1>4, <1>5, <1>6

(* The count is a natural number, and zero only if there are none.         *)
LEMMA OooCount ==
  ASSUME NEW b
  PROVE  /\ IsFiniteSet(Ooo(b)) /\ Cardinality(Ooo(b)) \in Nat
         /\ Cardinality(Ooo(b)) <= 0 => Ooo(b) = {}
<1>1. Ooo(b) \subseteq Seqs
  BY DEF Ooo, StoredIn
<1>2. IsFiniteSet(Ooo(b)) /\ Cardinality(Ooo(b)) \in Nat
  BY <1>1, StoredFinite
<1> QED
  BY <1>2, FS_EmptySet

(* Only what is remembered differs. *)
SameButFound(b, c) == SameData(b, c) /\ c.nonreadPos = b.nonreadPos /\ c.numOutOfOrder = b.numOutOfOrder

(* Setting what is remembered leaves the rest.                             *)
LEMMA Remember ==
  ASSUME NEW b \in Buffers, NEW q \in Positions \cup {-1}, NEW c, c = [b EXCEPT !.readableOOO = q]
  PROVE  SameButFound(b, c) /\ c.readableOOO = q
<1>1. c \in Buffers
  BY DEF Buffers
<1>2. /\ c.entries = b.entries /\ c.startSeqNo = b.startSeqNo /\ c.startPos = b.startPos
      /\ c.maxPosOff = b.maxPosOff /\ c.nonreadPos = b.nonreadPos
      /\ c.numOutOfOrder = b.numOutOfOrder /\ c.readableOOO = q
  BY DEF Buffers
<1> QED
  BY <1>1, <1>2 DEF SameButFound, SameData

(* Which messages can be read does not depend on what is remembered.       *)
LEMMA ReadsAtSame ==
  ASSUME NEW b, NEW c, Placed(b), SameButFound(b, c), NEW f
  PROVE  /\ ReadsAt(b, f) <=> ReadsAt(c, f)
         /\ NonOf(c) = NonOf(b) /\ Placed(c) /\ PosOf(c, f) = PosOf(b, f)
  BY Same DEF SameButFound, ReadsAt, NonOf

(* updateFirstReadableOutOfOrder finds a datagram if there is one. *)
LEMMA UpdateFirstIs ==
  ASSUME dgram \in Mixes, NEW b, Placed(b), Remembered(b),
         b.numOutOfOrder = Cardinality(Ooo(b)),
         NEW c, c = UpdateFirstReadableOutOfOrder(b)
  PROVE  SameButFound(b, c) /\ Remembered(c) /\ Found(c)
<1> DEFINE found == {k \in 0 .. (b.maxPosOff - 1) :
                       LET p == IncPos(b.startPos, k)
                       IN  HasUnit(b, p) /\ ~OrderFlag(b.entries[p]) /\ Whole(b, p) = p}
           rest == HasReadableInorderPkts(b) \/ b.numOutOfOrder <= 0 \/ b.readableOOO >= 0
<1>1. b \in Buffers
  BY DEF Placed
<1>2. PICK S : S = b.startSeqNo
  OBVIOUS
<1>3. PICK M : M = b.maxPosOff
  OBVIOUS
<1>4. S \in Nat /\ M \in 0 .. Capacity /\ Capacity \in Nat
  BY <1>1, <1>2, <1>3, Fields, Sizes
<1>5. ASSUME NEW k \in 0 .. (M - 1)
      PROVE  k \in found <=> ReadsAt(b, S + k)
  <2>1. k \in 0 .. Capacity
    BY <1>4
  <2>2. PICK p : p = IncPos(b.startPos, k)
    OBVIOUS
  <2>3. p = PosOf(b, S + k) /\ b.entries[p] = At(b, S + k)
    BY <1>1, <1>2, <2>1, <2>2, EntryIs
  <2>4. k \in found <=> HasUnit(b, p) /\ ~OrderFlag(b.entries[p]) /\ Whole(b, p) = p
    BY <1>3, <2>2
  <2>5. HasUnit(b, p) <=> S + k \in StoredIn(b)
    BY <2>3, StoredIs DEF HasUnit
  <2>6. S + k \in StoredIn(b) => b.entries[p] = S + k
    BY <2>3, StoredIs
  <2>7. S + k \in StoredIn(b) =>
          (Whole(b, p) = p <=> Pkts(MsgOf[S + k]) \subseteq StoredIn(b) /\ IsFirst(S + k))
    BY <2>3, WholeHere
  <2> HIDE DEF found
  <2> QED
    BY <2>4, <2>5, <2>6, <2>7 DEF OrderFlag, ReadsAt
<1>6. found \subseteq 0 .. (M - 1)
  BY <1>3
<1>7. c = IF rest \/ found = {} THEN b ELSE [b EXCEPT !.readableOOO = IncPos(b.startPos, Min(found))]
  BY Zenon DEF UpdateFirstReadableOutOfOrder
<1> HIDE DEF found
<1>8. CASE rest \/ found = {}
  <2>1. c = b
    BY <1>7, <1>8
  <2>2. SameButFound(b, b)
    BY <1>1 DEF SameButFound, SameData
  <2>3. ASSUME NonOf(b) = S, NEW m \in dgram, Pkts(m) \subseteq StoredIn(b)
        PROVE  b.readableOOO >= 0
    <3>1. PICK f : f = FirstOf(m)
      OBVIOUS
    <3>2. ReadsAt(b, f) /\ Ooo(b) # {}
      BY <2>3, <3>1, DgramIs
    <3>3. ~(b.numOutOfOrder <= 0)
      BY <3>2, OooCount
    <3>4. ~HasReadableInorderPkts(b)
      BY <1>1, <1>2, <2>3, InorderIs
    <3>5. f \in StoredIn(b)
      BY <3>2 DEF ReadsAt
    <3>6. S <= f /\ f < S + M /\ f \in Int
      BY <1>2, <1>3, <3>5, StoredIs, Ends
    <3>7. f - S \in 0 .. (M - 1) /\ S + (f - S) = f
      BY <1>4, <3>6
    <3>8. f - S \in found
      BY <1>5, <3>2, <3>7
    <3> QED
      BY <1>8, <3>3, <3>4, <3>8
  <2> QED
    BY <1>2, <2>1, <2>2, <2>3 DEF Found
<1>9. CASE ~(rest \/ found = {})
  <2>1. PICK k : k = Min(found)
    OBVIOUS
  <2>2. found \subseteq Nat
    BY <1>4, <1>6
  <2>3. k \in found /\ k \in 0 .. (M - 1) /\ k \in 0 .. Capacity
    <3>1. k \in found
      BY <1>9, <2>1, <2>2, MinIs
    <3> QED
      BY <1>4, <1>6, <3>1
  <2>4. ReadsAt(b, S + k)
    BY <1>5, <2>3
  <2>5. PICK q : q = IncPos(b.startPos, k)
    OBVIOUS
  <2>6. q = PosOf(b, S + k) /\ q \in Positions
    BY <1>1, <1>2, <2>3, <2>5, EntryIs
  <2>7. c = [b EXCEPT !.readableOOO = q]
    BY <1>7, <1>9, <2>1, <2>5
  <2>8. SameButFound(b, c) /\ c.readableOOO = q
    BY <1>1, <2>6, <2>7, Remember
  <2>9. ReadsAt(c, S + k) /\ Placed(c) /\ c.readableOOO = PosOf(c, S + k)
    BY <2>4, <2>6, <2>8, ReadsAtSame
  <2>10. Remembered(c) /\ c.readableOOO >= 0
    BY <2>9, RememberedAt
  <2> QED
    BY <2>8, <2>10 DEF Found
<1> QED
  BY <1>8, <1>9

(* checkFirstReadableOutOfOrder keeps only what is there. *)
LEMMA CheckedIs ==
  ASSUME NEW b, Placed(b), NEW c, c = CheckedFirstReadable(b)
  PROVE  SameButFound(b, c) /\ Remembered(c)
<1>1. b \in Buffers /\ b.readableOOO \in Positions \cup {-1} /\ b.numOutOfOrder \in Int
  BY Fields DEF Placed
<1>2. CASE c = [b EXCEPT !.readableOOO = -1]
  <2>1. SameButFound(b, c) /\ c.readableOOO = -1
    BY <1>1, <1>2, Remember
  <2> QED
    BY <2>1 DEF Remembered
<1>3. CASE c # [b EXCEPT !.readableOOO = -1]
  <2>1. /\ c = b /\ ~(b.readableOOO < 0) /\ HasUnit(b, b.readableOOO)
        /\ ~OrderFlag(b.entries[b.readableOOO]) /\ Whole(b, b.readableOOO) = b.readableOOO
    BY <1>3, Zenon DEF CheckedFirstReadable
  <2>2. PICK p : p = b.readableOOO
    OBVIOUS
  <2>3. p \in Positions
    BY <1>1, <2>1, <2>2
  <2>4. PICK s : s = b.entries[p]
    OBVIOUS
  <2>5. s \in StoredIn(b) /\ PosOf(b, s) = p
    BY <2>1, <2>2, <2>3, <2>4, EntryStored DEF HasUnit
  <2>6. Pkts(MsgOf[s]) \subseteq StoredIn(b) /\ IsFirst(s)
    BY <2>1, <2>2, <2>5, WholeHere
  <2>7. ReadsAt(b, s)
    BY <2>1, <2>2, <2>4, <2>5, <2>6 DEF ReadsAt, OrderFlag
  <2>8. SameButFound(b, b)
    BY <1>1 DEF SameButFound, SameData
  <2> QED
    BY <2>1, <2>2, <2>5, <2>7, <2>8, RememberedAt
<1> QED
  BY <1>2, <1>3

(* onInsertNotInOrderPacket *)
LEMMA OnInsertIs ==
  ASSUME NEW b, Placed(b), Remembered(b), NEW s \in StoredIn(b), MsgOf[s] \in dgram,
         NEW c, c = OnInsertNotInOrderPacket(b, PosOf(b, s))
  PROVE  /\ SameButFound(b, c) /\ Remembered(c)
         /\ b.readableOOO >= 0 => c.readableOOO >= 0
         /\ Pkts(MsgOf[s]) \subseteq StoredIn(b) => c.readableOOO >= 0
<1>1. b \in Buffers /\ b.readableOOO \in Positions \cup {-1}
  BY Fields DEF Placed
<1>2. CASE b.readableOOO >= 0
  <2>1. SameButFound(b, b)
    BY <1>1 DEF SameButFound, SameData
  <2> QED
    BY <1>2, <2>1 DEF OnInsertNotInOrderPacket
<1>3. CASE ~(b.readableOOO >= 0)
  <2>1. PICK m : m = MsgOf[s]
    OBVIOUS
  <2>2. PICK q : q = Whole(b, PosOf(b, s))
    OBVIOUS
  <2>3. c = [b EXCEPT !.readableOOO = q]
    BY <1>3, <2>2 DEF OnInsertNotInOrderPacket
  <2>4. q = IF Pkts(m) \subseteq StoredIn(b) THEN PosOf(b, FirstOf(m)) ELSE -1
    BY <2>1, <2>2, WholeIs
  <2>5. CASE Pkts(m) \subseteq StoredIn(b)
    <3>1. PICK f : f = FirstOf(m)
      OBVIOUS
    <3>2. s \in Pkts(m)
      BY <2>1, WholeIs
    <3>3. /\ f \in Int /\ LastOf(m) \in Int /\ f <= LastOf(m) /\ Pkts(m) = f .. LastOf(m)
      BY <3>1, <3>2, MsgSpan, Ends
    <3>4. f \in Pkts(m)
      BY <3>3
    <3>5. MsgOf[f] = m /\ IsFirst(f)
      BY <3>1, <3>4, MsgSpan
    <3>6. ReadsAt(b, f)
      BY <2>1, <2>5, <3>4, <3>5 DEF ReadsAt
    <3>7. q = PosOf(b, f) /\ q \in Positions
      BY <1>1, <2>4, <2>5, <3>1, <3>4, StoredIs, PosIs
    <3>8. SameButFound(b, c) /\ c.readableOOO = q
      BY <1>1, <2>3, <3>7, Remember
    <3>9. ReadsAt(c, f) /\ Placed(c) /\ c.readableOOO = PosOf(c, f)
      BY <3>6, <3>7, <3>8, ReadsAtSame
    <3>10. Remembered(c) /\ c.readableOOO >= 0
      BY <3>9, RememberedAt
    <3> QED
      BY <3>8, <3>10
  <2>6. CASE ~(Pkts(m) \subseteq StoredIn(b))
    <3>1. SameButFound(b, c) /\ c.readableOOO = -1
      BY <1>1, <2>3, <2>4, <2>6, Remember
    <3> QED
      BY <1>3, <2>1, <2>6, <3>1 DEF Remembered
  <2> QED
    BY <2>5, <2>6
<1> QED
  BY <1>2, <1>3

(* The packets before the nonread position are stored and whole messages.  *)
LEMMA NonIs ==
  ASSUME NEW b, Placed(b), InOrder(b), NEW S, S = b.startSeqNo, NEW N, N = NonOf(b)
  PROVE  /\ N \in Int /\ S <= N /\ N <= S + b.maxPosOff /\ N <= NPkts
         /\ \A t \in S .. (N - 1) : t \in StoredIn(b)
         /\ N # S => IsFirst(S) /\ IsLast(N - 1)
<1>0. b \in Buffers
  BY DEF Placed
<1>a. S \in Nat /\ S <= NPkts /\ NPkts \in Nat
  <2>1. S \in 0 .. NPkts
    BY <1>0, Fields
  <2> QED
    BY <2>1, Sizes
<1>1. /\ N <= S + b.maxPosOff /\ \A t \in S .. (N - 1) : At(b, t) = t
      /\ N # S => IsFirst(S) /\ IsLast(N - 1)
  BY DEF InOrder
<1>2. N \in Int /\ S <= N
  BY <1>0, <1>a, InorderIs DEF Window
<1>3. \A t \in S .. (N - 1) : t \in StoredIn(b)
  <2>1. \A t \in S .. (N - 1) : At(b, t) >= 0
    BY <1>a, <1>1
  <2> QED
    BY <2>1, StoredIs
<1>4. N # S => N - 1 \in S .. (N - 1)
  BY <1>a, <1>2
<1>5. N # S => N - 1 \in Seqs
  BY <1>3, <1>4 DEF StoredIn
<1>6. N <= NPkts
  BY <1>a, <1>2, <1>5, Ends
<1> QED
  BY <1>1, <1>2, <1>3, <1>6
-----------------------------------------------------------------------------
(* insert *)

(* insert puts the packet where its sequence number is, moves the nonread  *)
(* position over what is whole now and remembers a datagram that is        *)
(* complete (buffer_rcv.cpp:151-207).                                      *)
LEMMA InsertIs ==
  ASSUME BufInv, NEW s \in Seqs, Insert(s), NEW c, c = buf'
  PROVE  /\ Keeps(c) /\ c.startSeqNo = buf.startSeqNo
         /\ buf.startSeqNo <= s /\ s < buf.startSeqNo + Capacity /\ At(buf, s) = Empty
         /\ \A t : At(c, t) = IF t = s THEN s ELSE At(buf, t)
         /\ NonOf(c) = Extended(NonOf(buf), StoredIn(c))
<1>1. PICK b : b = buf
  OBVIOUS
<1>2. PICK S : S = b.startSeqNo
  OBVIOUS
<1>3. PICK M : M = b.maxPosOff
  OBVIOUS
<1>4. PICK off : off = s - S
  OBVIOUS
<1>5. PICK pos : pos = IncPos(b.startPos, off)
  OBVIOUS
<1>6. /\ dgram \in Mixes /\ Placed(b) /\ InOrder(b) /\ Remembered(b) /\ Found(b)
      /\ At(b, S) \notin Fillers /\ b.numOutOfOrder = Cardinality(Ooo(b)) /\ b \in Buffers
  BY <1>1, <1>2 DEF BufInv, Keeps, Placed
<1>7. /\ S \in Nat /\ S \in 0 .. NPkts /\ M \in 0 .. Capacity /\ M \in Nat /\ Capacity \in Nat /\ NPkts \in Nat
      /\ s \in Int /\ 0 <= s /\ s < NPkts /\ off \in Int
  <2>1. S \in 0 .. NPkts /\ M \in 0 .. Capacity
    BY <1>2, <1>3, <1>6, Fields
  <2>2. s \in Int /\ 0 <= s /\ s < NPkts
    BY Ends
  <2> QED
    BY <1>4, <2>1, <2>2, Sizes
<1>8. InsertResult(s) = IF off < 0 THEN -2 ELSE IF off >= Capacity THEN -3
                        ELSE IF b.entries[pos] # Empty THEN -1 ELSE 0
  BY <1>1, <1>2, <1>4, <1>5, Zenon DEF InsertResult
<1>9. off \in 0 .. (Capacity - 1) /\ b.entries[pos] = Empty /\ off \in 0 .. Capacity
  <2>1. InsertResult(s) = 0
    BY DEF Insert
  <2>2. ~(off < 0) /\ ~(off >= Capacity) /\ b.entries[pos] = Empty
    BY <1>8, <2>1
  <2> QED
    BY <1>7, <2>2
<1>10. /\ S <= s /\ s < S + Capacity /\ S + off = s /\ s \in Window(b)
       /\ pos = PosOf(b, s) /\ pos \in Positions /\ At(b, s) = Empty
  <2>1. S <= s /\ s < S + Capacity /\ S + off = s
    BY <1>4, <1>7, <1>9
  <2> QED
    BY <1>2, <1>5, <1>6, <1>9, <2>1, EntryIs
<1>11. PICK ent : ent = [b.entries EXCEPT ![pos] = s]
  OBVIOUS
<1>12. PICK mx : mx = Max({M, off + 1})
  OBVIOUS
<1>13. /\ ent \in [Positions -> {Empty, ReadOut, Dropped} \cup Seqs]
       /\ ent = [p \in Positions |-> IF p \in {pos} THEN s ELSE b.entries[p]]
       /\ mx = (IF M >= off + 1 THEN M ELSE off + 1) /\ mx \in 0 .. Capacity
  <2>1. b.entries \in [Positions -> {Empty, ReadOut, Dropped} \cup Seqs]
    BY <1>6, Fields
  <2>2. ent \in [Positions -> {Empty, ReadOut, Dropped} \cup Seqs]
    BY <1>10, <1>11, <2>1
  <2>3. ent = [p \in Positions |-> IF p \in {pos} THEN s ELSE b.entries[p]]
    BY <1>10, <1>11, <2>1
  <2>4. off + 1 \in Int /\ M \in Int
    BY <1>7
  <2>5. mx = IF M >= off + 1 THEN M ELSE off + 1
    BY <1>12, <2>4, MaxOfTwo
  <2>6. mx \in 0 .. Capacity
    BY <1>7, <1>9, <2>5
  <2> QED
    BY <2>2, <2>3, <2>5, <2>6
<1>14. PICK put : put = [b EXCEPT !.entries = ent, !.maxPosOff = mx]
  OBVIOUS
<1>15. /\ put \in Buffers /\ put.entries = ent /\ put.startSeqNo = S /\ put.startPos = b.startPos
       /\ put.maxPosOff = mx /\ put.nonreadPos = b.nonreadPos
       /\ put.numOutOfOrder = b.numOutOfOrder /\ put.readableOOO = b.readableOOO
  BY <1>2, <1>6, <1>13, <1>14 DEF Buffers
<1>16. PICK k : k = IF OrderFlag(s) THEN put
                    ELSE OnInsertNotInOrderPacket([put EXCEPT !.numOutOfOrder = @ + 1], pos)
  OBVIOUS
<1>17. c = UpdateNonreadPos(k)
  BY <1>1, <1>2, <1>3, <1>4, <1>5, <1>11, <1>12, <1>14, <1>16 DEF Insert
<1>18. \A t : At(put, t) = IF t = s THEN s ELSE At(b, t)
  <2>1. \A t \in Window(b) : PosOf(b, t) \in {pos} <=> t \in {s}
    <3>1. SUFFICES ASSUME NEW t \in Window(b), PosOf(b, t) = PosOf(b, s) PROVE t = s
      BY <1>10
    <3>2. SeqOf(b, PosOf(b, t)) = t /\ SeqOf(b, PosOf(b, s)) = s
      BY <1>6, <1>10, PosIs
    <3> QED
      BY <3>1, <3>2
  <2>2. {s} \subseteq Window(b)
    BY <1>10
  <2>3. PICK ps, T : ps = {pos} /\ T = {s}
    OBVIOUS
  <2>4. Covers(b, ps, T) /\ T \subseteq Window(b) /\ Writes(b, put, ps, s)
    BY <1>13, <1>15, <2>1, <2>2, <2>3 DEF Covers, Writes
  <2>5. \A t : At(put, t) = IF t \in T THEN s ELSE At(b, t)
    <3>1. b \in Buffers /\ put \in Buffers /\ put.startSeqNo = b.startSeqNo /\ put.startPos = b.startPos
      BY <1>2, <1>6, <1>15
    <3> QED
      BY <2>4, <3>1, AtSet
  <2> QED
    BY <2>3, <2>5
<1>19. Window(put) = Window(b) /\ \A t : PosOf(put, t) = PosOf(b, t) /\ SeqOf(put, t) = SeqOf(b, t)
  BY <1>2, <1>15 DEF Window, PosOf, SeqOf
<1>20. Placed(put)
  <2>1. SUFFICES ASSUME NEW t \in Window(b)
                 PROVE  /\ At(put, t) >= 0 => At(put, t) = t /\ t < S + mx
                        /\ At(put, t) # Empty => t < NPkts /\ t < S + Capacity
    BY <1>15, <1>19 DEF Placed
  <2>2. CASE t = s
    BY <1>4, <1>7, <1>9, <1>10, <1>13, <1>18, <2>2
  <2>3. CASE t # s
    <3>1. /\ At(b, t) >= 0 => At(b, t) = t /\ t < S + M
          /\ At(b, t) # Empty => t < NPkts /\ t < S + Capacity
      BY <1>2, <1>3, <1>6 DEF Placed
    <3>2. t \in Int
      BY <1>2, <1>7 DEF Window
    <3>3. t < S + M => t < S + mx
      BY <1>7, <1>9, <1>13, <3>2
    <3> QED
      BY <1>18, <2>3, <3>1, <3>3
  <2> QED
    BY <2>2, <2>3
<1>21. StoredIn(put) = StoredIn(b) \cup {s} /\ s \notin StoredIn(b)
  <2>1. s \notin StoredIn(b)
    BY <1>7, <1>10 DEF StoredIn, Empty
  <2> QED
    BY <1>18, <2>1 DEF StoredIn
<1>22. Remembered(put)
  <2>1. CASE b.readableOOO >= 0
    <3>1. PICK f : f = b.entries[b.readableOOO]
      OBVIOUS
    <3>2. ReadsAt(b, f) /\ b.readableOOO = PosOf(b, f)
      BY <1>6, <2>1, <3>1, RememberedIs
    <3>3. ReadsAt(put, f) /\ put.readableOOO = PosOf(put, f)
      BY <1>15, <1>19, <1>21, <3>2 DEF ReadsAt
    <3> QED
      BY <1>20, <3>3, RememberedAt
  <2>2. CASE ~(b.readableOOO >= 0)
    BY <1>15, <2>2 DEF Remembered
  <2> QED
    BY <2>1, <2>2
<1>23. /\ SameData(put, k) /\ k.nonreadPos = b.nonreadPos /\ Remembered(k)
       /\ k.numOutOfOrder = Cardinality(Ooo(put))
       /\ b.readableOOO >= 0 => k.readableOOO >= 0
       /\ MsgOf[s] \in dgram /\ Pkts(MsgOf[s]) \subseteq StoredIn(put) => k.readableOOO >= 0
  <2>1. CASE OrderFlag(s)
    <3>1. k = put
      BY <1>16, <2>1
    <3>2. Ooo(put) = Ooo(b)
      BY <1>21, <2>1 DEF Ooo
    <3> QED
      BY <1>6, <1>15, <1>22, <2>1, <3>1, <3>2 DEF SameData, OrderFlag
  <2>2. CASE ~OrderFlag(s)
    <3>1. PICK num : num = b.numOutOfOrder + 1
      OBVIOUS
    <3>2. num \in Int /\ num = Cardinality(Ooo(put))
      <4>1. Ooo(put) = Ooo(b) \cup {s} /\ s \notin Ooo(b)
        BY <1>21, <2>2 DEF Ooo
      <4>2. IsFiniteSet(Ooo(b)) /\ Cardinality(Ooo(b)) \in Nat
        BY OooCount
      <4>3. Cardinality(Ooo(put)) = Cardinality(Ooo(b)) + 1
        BY <4>1, <4>2, FS_AddElement
      <4> QED
        BY <1>6, <3>1, <4>2, <4>3
    <3>3. PICK two : two = [put EXCEPT !.numOutOfOrder = num]
      OBVIOUS
    <3>4. /\ SameData(put, two) /\ two.nonreadPos = b.nonreadPos /\ two.numOutOfOrder = num
          /\ two.readableOOO = put.readableOOO
      <4>1. two \in Buffers
        BY <1>15, <3>2, <3>3 DEF Buffers
      <4> QED
        BY <1>15, <3>2, <3>3, <4>1 DEF SameData, Buffers
    <3>5. k = OnInsertNotInOrderPacket(two, pos)
      BY <1>15, <1>16, <2>2, <3>1, <3>3
    <3>6. /\ Placed(two) /\ StoredIn(two) = StoredIn(put) /\ \A t : PosOf(two, t) = PosOf(put, t)
      BY <1>20, <3>4, Same
    <3>7. Remembered(two)
      BY <1>22, <3>4, <3>6 DEF Remembered, SameData
    <3>8. s \in StoredIn(two) /\ MsgOf[s] \in dgram /\ pos = PosOf(two, s)
      BY <1>10, <1>19, <1>21, <2>2, <3>6 DEF OrderFlag
    <3>9. /\ SameButFound(two, k) /\ Remembered(k)
          /\ two.readableOOO >= 0 => k.readableOOO >= 0
          /\ Pkts(MsgOf[s]) \subseteq StoredIn(two) => k.readableOOO >= 0
      BY <3>5, <3>6, <3>7, <3>8, OnInsertIs
    <3>10. SameData(put, k) /\ k.nonreadPos = b.nonreadPos /\ k.numOutOfOrder = num
      BY <3>4, <3>9 DEF SameButFound, SameData
    <3> QED
      BY <1>15, <3>2, <3>4, <3>6, <3>9, <3>10
  <2> QED
    BY <2>1, <2>2
<1>24. PICK N : N = NonOf(b)
  OBVIOUS
<1>25. /\ N \in Int /\ S <= N /\ N <= S + M /\ N <= NPkts
       /\ \A t \in S .. (N - 1) : t \in StoredIn(b)
       /\ N # S => IsFirst(S) /\ IsLast(N - 1)
  BY <1>2, <1>3, <1>6, <1>24, NonIs
<1>26. Placed(k) /\ StoredIn(k) = StoredIn(put) /\ NonOf(k) = N /\ k.startSeqNo = S /\ k.maxPosOff = mx
       /\ (\A t : At(k, t) = At(put, t)) /\ Ooo(k) = Ooo(put)
  <2>1. NonOf(k) = SeqOf(put, b.nonreadPos)
    BY <1>20, <1>23, Same DEF NonOf
  <2>2. NonOf(k) = N
    BY <1>19, <1>24, <2>1 DEF NonOf
  <2> QED
    BY <1>15, <1>20, <1>23, <2>2, Same DEF SameData
<1>27. NonOf(k) <= k.startSeqNo + k.maxPosOff /\ NonOf(k) <= NPkts
  BY <1>7, <1>9, <1>13, <1>25, <1>26
<1>28. /\ SameData(k, c) /\ c.numOutOfOrder = k.numOutOfOrder /\ c.readableOOO = k.readableOOO
       /\ NonOf(c) = Extended(N, StoredIn(put)) /\ NonOf(c) <= S + mx
  BY <1>17, <1>26, <1>27, UpdateNonreadPosIs
<1>29. /\ Placed(c) /\ StoredIn(c) = StoredIn(put) /\ Ooo(c) = Ooo(put)
       /\ c.startSeqNo = S /\ c.maxPosOff = mx /\ \A t : At(c, t) = At(put, t)
  BY <1>26, <1>28, Same DEF SameData
<1>30. PICK E : E = NonOf(c)
  OBVIOUS
<1>31. /\ E \in N .. NPkts /\ N .. (E - 1) \subseteq StoredIn(put)
       /\ E = N \/ (IsFirst(N) /\ IsLast(E - 1))
  <2>1. N \in 0 .. NPkts
    BY <1>7, <1>25
  <2> QED
    BY <1>28, <1>30, <2>1, ExtendedIs
<1>32. InOrder(c)
  <2>1. ASSUME NEW t \in S .. (E - 1) PROVE At(c, t) = t
    <3>1. t \in S .. (N - 1) \/ t \in N .. (E - 1)
      BY <1>7, <1>25, <1>31
    <3>2. t \in StoredIn(put)
      BY <1>21, <1>25, <1>31, <3>1
    <3> QED
      BY <1>20, <1>29, <3>2, StoredIs
  <2>2. ASSUME E # S PROVE IsFirst(S) /\ IsLast(E - 1)
    BY <1>25, <1>31, <2>2
  <2> QED
    BY <1>28, <1>29, <1>30, <2>1, <2>2 DEF InOrder
<1>33. Remembered(c)
  BY <1>23, <1>26, <1>28, <1>29 DEF Remembered, SameData
<1>34. Found(c)
  <2>1. SUFFICES ASSUME E = S, NEW m \in dgram, Pkts(m) \subseteq StoredIn(put)
                 PROVE  k.readableOOO >= 0
    BY <1>28, <1>29, <1>30 DEF Found
  <2>2. N = S
    BY <1>7, <1>25, <1>31, <2>1
  <2>3. CASE s \in Pkts(m)
    BY <1>23, <2>1, <2>3, Ends
  <2>4. CASE s \notin Pkts(m)
    <3>1. Pkts(m) \subseteq StoredIn(b)
      BY <1>21, <2>1, <2>4
    <3>2. b.readableOOO >= 0
      BY <1>2, <1>6, <1>24, <2>1, <2>2, <3>1 DEF Found
    <3> QED
      BY <1>23, <3>2
  <2> QED
    BY <2>3, <2>4
<1>35. At(c, S) \notin Fillers
  <2>1. s \notin Fillers
    BY <1>7 DEF Fillers, ReadOut, Dropped
  <2> QED
    BY <1>6, <1>18, <1>29, <2>1
<1>36. Keeps(c)
  BY <1>23, <1>28, <1>29, <1>32, <1>33, <1>34, <1>35 DEF Keeps
<1> QED
  BY <1>1, <1>2, <1>10, <1>18, <1>24, <1>28, <1>29, <1>36

(* insert of a packet it has, or of one out of its range. *)
LEMMA InsertRefusedIs ==
  ASSUME BufInv, NEW s \in Seqs, InsertRefused(s), NEW c, c = buf'
  PROVE  /\ Keeps(c) /\ c.startSeqNo = buf.startSeqNo /\ NonOf(c) = NonOf(buf)
         /\ \A t : At(c, t) = At(buf, t)
<1>1. PICK b : b = buf
  OBVIOUS
<1>2. PICK S : S = b.startSeqNo
  OBVIOUS
<1>3. PICK M : M = b.maxPosOff
  OBVIOUS
<1>4. PICK off : off = s - S
  OBVIOUS
<1>6. Keeps(b) /\ Placed(b) /\ b \in Buffers
  BY <1>1 DEF BufInv, Keeps, Placed
<1>7. S \in Nat /\ M \in 0 .. Capacity /\ Capacity \in Nat /\ off \in Int
  <2>1. S \in 0 .. NPkts /\ M \in 0 .. Capacity
    BY <1>2, <1>3, <1>6, Fields
  <2>2. s \in Int
    BY Ends
  <2> QED
    BY <1>4, <2>1, <2>2, Sizes
<1>8. c = IF InsertResult(s) = -1 THEN [b EXCEPT !.maxPosOff = Max({M, off + 1})] ELSE b
  BY <1>1, <1>2, <1>3, <1>4 DEF InsertRefused
<1>9. CASE InsertResult(s) # -1
  BY <1>1, <1>6, <1>8, <1>9
<1>10. CASE InsertResult(s) = -1
  <2>1. InsertResult(s) = -1 => off >= 0 /\ off < Capacity
    <3>1. PICK e : e = buf.entries[IncPos(buf.startPos, off)]
      OBVIOUS
    <3>2. InsertResult(s) = IF off < 0 THEN -2 ELSE IF off >= Capacity THEN -3
                            ELSE IF e # Empty THEN -1 ELSE 0
      BY <1>1, <1>2, <1>4, <3>1, Zenon DEF InsertResult
    <3> QED
      BY <1>7, <3>2
  <2>2. PICK mx : mx = Max({M, off + 1})
    OBVIOUS
  <2>3. off + 1 \in Int /\ M \in Int
    BY <1>7
  <2>4. mx \in 0 .. Capacity /\ M <= mx
    <3>1. mx = IF M >= off + 1 THEN M ELSE off + 1
      BY <2>2, <2>3, MaxOfTwo
    <3> QED
      BY <1>7, <1>10, <2>1, <3>1
  <2>5. c = [b EXCEPT !.maxPosOff = mx]
    BY <1>8, <1>10, <2>2
  <2>6. /\ c \in Buffers /\ c.maxPosOff = mx /\ c.entries = b.entries
        /\ c.startSeqNo = b.startSeqNo /\ c.startPos = b.startPos /\ c.nonreadPos = b.nonreadPos
        /\ c.numOutOfOrder = b.numOutOfOrder /\ c.readableOOO = b.readableOOO
    BY <1>6, <2>4, <2>5 DEF Buffers
  <2>7. /\ StoredIn(c) = StoredIn(b) /\ Ooo(c) = Ooo(b) /\ Window(c) = Window(b)
        /\ \A t : At(c, t) = At(b, t)
        /\ \A p : SeqOf(c, p) = SeqOf(b, p)
    BY <2>6, SameShape
  <2>8. NonOf(c) = NonOf(b)
    BY <2>6, <2>7 DEF NonOf
  <2>9. Placed(c)
    <3>1. \A t \in Window(b) : t < S + M => t < S + mx
      <4>1. \A t \in Window(b) : t \in Int
        BY <1>2, <1>7 DEF Window
      <4> QED
        BY <1>7, <2>4, <4>1
    <3> QED
      BY <1>2, <1>3, <1>6, <2>6, <2>7, <3>1 DEF Placed
  <2>10. InOrder(c)
    <3>1. NonOf(b) \in Int
      BY <1>2, <1>6, <1>7, InorderIs DEF Window
    <3>2. NonOf(b) <= S + M
      BY <1>2, <1>3, <1>6 DEF Keeps, InOrder
    <3>3. NonOf(b) <= S + mx
      BY <1>7, <2>4, <3>1, <3>2
    <3> QED
      BY <1>2, <1>6, <2>6, <2>7, <2>8, <3>3 DEF Keeps, InOrder
  <2>11. Remembered(c) /\ Found(c) /\ At(c, c.startSeqNo) \notin Fillers
         /\ c.numOutOfOrder = Cardinality(Ooo(c))
    BY <1>6, <2>6, <2>7, <2>8 DEF Keeps, Remembered, Found
  <2> QED
    BY <1>1, <2>6, <2>7, <2>8, <2>9, <2>10, <2>11 DEF Keeps
<1> QED
  BY <1>9, <1>10
-----------------------------------------------------------------------------
(* After something was taken out of the buffer and the fillers at its      *)
(* start released.                                                         *)

(* What is left after a removal is still in its place.                     *)
LEMMA PlacedAfter ==
  ASSUME NEW b, Placed(b), NEW S, S = b.startSeqNo, NEW M, M = b.maxPosOff,
         NEW c \in Buffers, NEW e, e = c.startSeqNo, S <= e,
         c.maxPosOff = IF M > e - S THEN M - (e - S) ELSE 0,
         \A s \in Int : At(c, s) >= 0 => At(b, s) = At(c, s) /\ e <= s,
         \A s \in Int : At(c, s) # Empty => s < NPkts /\ s < S + Capacity
  PROVE  Placed(c)
<1>1. b \in Buffers
  BY DEF Placed
<1>2. S \in Nat /\ e \in Nat /\ M \in Nat /\ Capacity \in Nat
  BY <1>1, Fields, Sizes
<1>3. SUFFICES ASSUME NEW s \in Window(c)
               PROVE  /\ At(c, s) >= 0 => At(c, s) = s /\ s < e + c.maxPosOff
                      /\ At(c, s) # Empty => s < NPkts /\ s < e + Capacity
  BY DEF Placed
<1>4. s \in Int
  BY <1>2 DEF Window
<1>5. ASSUME At(c, s) >= 0
      PROVE  At(c, s) = s /\ s < e + c.maxPosOff
  <2>1. At(b, s) = At(c, s) /\ e <= s
    BY <1>4, <1>5
  <2>2. At(b, s) = s /\ s < S + M
    BY <1>5, <2>1, StoredIs
  <2> QED
    BY <1>2, <1>4, <2>1, <2>2
<1>6. At(c, s) # Empty => s < NPkts /\ s < e + Capacity
  BY <1>2, <1>4
<1> QED
  BY <1>5, <1>6

(* The nonread position is reset when it has fallen out of the range.      *)
LEMMA RangeIs ==
  ASSUME NEW b \in Buffers, NEW S, S = b.startSeqNo, NEW M, M = b.maxPosOff,
         NEW N, N = NonOf(b), S <= N, N <= S + M,
         NEW x \in Buffers, NEW n \in 0 .. Capacity, NEW e, e = S + n,
         x.startSeqNo = e, x.startPos = IncPos(b.startPos, n), x.nonreadPos = b.nonreadPos,
         x.maxPosOff = IF M > n THEN M - n ELSE 0,
         NEW c, c = IF IsInRange(x) THEN x ELSE [x EXCEPT !.nonreadPos = x.startPos]
  PROVE  /\ SameData(x, c) /\ c.numOutOfOrder = x.numOutOfOrder /\ c.readableOOO = x.readableOOO
         /\ NonOf(c) = IF N < e THEN e ELSE N
         /\ NonOf(c) <= e + x.maxPosOff
<1>1. /\ S \in Nat /\ e \in Nat /\ M \in 0 .. Capacity /\ M \in Nat /\ N \in Int /\ n \in Nat /\ n <= Capacity
      /\ Capacity \in Nat /\ Size = Capacity + 1
  <2>1. S \in Nat /\ e \in Nat /\ M \in 0 .. Capacity /\ Capacity \in Nat /\ Size = Capacity + 1
    BY Fields, Sizes
  <2>2. N \in Window(b)
    BY InorderIs
  <2> QED
    BY <2>1, <2>2 DEF Window
<1>2. PICK p : p = b.nonreadPos
  OBVIOUS
<1>3. p \in Positions /\ SeqOf(b, p) = N
  BY <1>2, Fields DEF NonOf
<1>4. SeqOf(x, p) = IF N >= e THEN N ELSE N + Size
  BY <1>3, Shifted
<1>5. PICK d : d = OffPos(x.startPos, p)
  OBVIOUS
<1>6. SeqOf(x, p) = e + d /\ d \in Int
  <2>1. d \in 0 .. Capacity
    BY <1>3, <1>5, Fields, OffIs
  <2> QED
    BY <1>5, <2>1, Sizes DEF SeqOf
<1>7. IsInRange(x) <=> d <= x.maxPosOff
  BY <1>2, <1>5 DEF IsInRange
<1>8. IsInRange(x) <=> N >= e
  <2>1. PICK mx : mx = x.maxPosOff
    OBVIOUS
  <2>2. mx = IF M > n THEN M - n ELSE 0
    BY <2>1
  <2>3. d = (IF N >= e THEN N ELSE N + Size) - e
    BY <1>1, <1>4, <1>6
  <2>4. N >= e => d <= mx
    BY <1>1, <2>2, <2>3
  <2>5. ~(N >= e) => ~(d <= mx)
    BY <1>1, <2>2, <2>3
  <2> QED
    BY <1>7, <2>1, <2>4, <2>5
<1>9. CASE N >= e
  <2>1. c = x /\ NonOf(c) = N
    BY <1>2, <1>4, <1>8, <1>9 DEF NonOf
  <2>2. N <= e + x.maxPosOff
    BY <1>1, <1>9
  <2> QED
    BY <1>1, <1>9, <2>1, <2>2 DEF SameData
<1>10. CASE ~(N >= e)
  <2>1. c = [x EXCEPT !.nonreadPos = x.startPos]
    BY <1>8, <1>10
  <2>2. x.startPos \in Positions
    BY Fields
  <2>3. c \in Buffers
    BY <2>1, <2>2 DEF Buffers
  <2>4. /\ SameData(x, c) /\ c.numOutOfOrder = x.numOutOfOrder /\ c.readableOOO = x.readableOOO
        /\ c.nonreadPos = c.startPos
    BY <2>1, <2>3 DEF SameData, Buffers
  <2>5. NonOf(c) = c.startSeqNo
    BY <2>3, <2>4, InorderIs DEF HasReadableInorderPkts
  <2>6. e <= e + x.maxPosOff
    BY <1>1
  <2>7. N < e
    BY <1>1, <1>10
  <2> QED
    BY <2>4, <2>5, <2>6, <2>7 DEF SameData
<1> QED
  BY <1>9, <1>10
-----------------------------------------------------------------------------
(* readMessage *)

(* What is read starts with the first packet of a message all of whose     *)
(* packets are stored.                                                     *)
ReadsFrom(b, f) ==
  /\ f \in StoredIn(b) /\ IsFirst(f) /\ Pkts(MsgOf[f]) \subseteq StoredIn(b)
  /\ IF NonOf(b) # b.startSeqNo THEN f = b.startSeqNo ELSE MsgOf[f] \in dgram

(* readMessage starts at the first packet of a message all of whose        *)
(* packets are there, in order or out of order (buffer_rcv.cpp:393-402).   *)
LEMMA ReadPosIs ==
  ASSUME BufInv, IsRcvDataReady(buf)
  PROVE  \E f : ReadsFrom(buf, f) /\ ReadPos = PosOf(buf, f)
<1>1. PICK b : b = buf
  OBVIOUS
<1>2. Placed(b) /\ InOrder(b) /\ Remembered(b) /\ b \in Buffers
  BY <1>1 DEF BufInv, Keeps, Placed
<1>3. PICK S : S = b.startSeqNo
  OBVIOUS
<1>4. PICK N : N = NonOf(b)
  OBVIOUS
<1>5. HasReadableInorderPkts(b) <=> N # S
  BY <1>2, <1>3, <1>4, InorderIs
<1>6. CASE N # S
  <2>1. /\ N \in Int /\ S <= N /\ N <= NPkts
        /\ \A t \in S .. (N - 1) : t \in StoredIn(b)
        /\ IsFirst(S) /\ IsLast(N - 1)
    BY <1>2, <1>3, <1>4, <1>6, NonIs
  <2>2. S \in Nat
    BY <1>2, <1>3, Fields
  <2>3. S \in StoredIn(b) /\ S \in Seqs
    <3>1. S \in S .. (N - 1)
      BY <1>6, <2>1, <2>2
    <3> QED
      BY <2>1, <3>1, StoredIs, <1>2
  <2>4. PICK m : m = MsgOf[S]
    OBVIOUS
  <2>5. S \in Pkts(m)
    BY <2>3, <2>4, Ends
  <2>6. PICK l : l = LastOf(m)
    OBVIOUS
  <2>7. /\ S = FirstOf(m) /\ l \in Int /\ S <= l /\ Pkts(m) = S .. l
        /\ \A s \in Pkts(m) : IsLast(s) <=> s = l
    BY <2>1, <2>5, <2>6, MsgSpan, Ends
  <2>8. l <= N - 1
    <3>1. SUFFICES ASSUME ~(l <= N - 1) PROVE FALSE
      OBVIOUS
    <3>2. N - 1 \in S .. l /\ N - 1 # l
      BY <1>6, <2>1, <2>2, <2>7, <3>1
    <3> QED
      BY <2>1, <2>7, <3>2
  <2>9. Pkts(m) \subseteq StoredIn(b)
    <3>1. \A t \in S .. l : t \in S .. (N - 1)
      BY <2>1, <2>2, <2>7, <2>8
    <3> QED
      BY <2>1, <2>7, <3>1
  <2>10. ReadsFrom(b, S)
    BY <1>3, <1>4, <1>6, <2>1, <2>3, <2>4, <2>9 DEF ReadsFrom
  <2>11. ReadPos = PosOf(b, S)
    BY <1>1, <1>2, <1>3, <1>5, <1>6, InorderIs DEF ReadPos
  <2> QED
    BY <1>1, <2>10, <2>11
<1>7. CASE N = S
  <2>1. b.readableOOO # -1 /\ ReadPos = b.readableOOO
    BY <1>1, <1>5, <1>7 DEF IsRcvDataReady, ReadPos
  <2>2. b.readableOOO >= 0
    <3>1. b.readableOOO \in Positions
      BY <1>2, <2>1, Fields
    <3> QED
      BY <3>1, Sizes
  <2>3. PICK f : f = b.entries[b.readableOOO]
    OBVIOUS
  <2>4. ReadsAt(b, f) /\ b.readableOOO = PosOf(b, f)
    BY <1>2, <2>2, <2>3, RememberedIs
  <2>5. ReadsFrom(b, f)
    BY <1>3, <1>4, <1>7, <2>4 DEF ReadsAt, ReadsFrom
  <2> QED
    BY <1>1, <2>1, <2>4, <2>5
<1> QED
  BY <1>6, <1>7

PosSet(b, Q) == {PosOf(b, s) : s \in Q}
ReadSet == {IncPos(ReadPos, k) : k \in 0 .. (ReadLen - 1)}

(* Its loop, which ends at the first PB_LAST, goes over the packets of     *)
(* that message and no others (buffer_rcv.cpp:412-469).                    *)
LEMMA ReadLenIs ==
  ASSUME Placed(buf), NEW f \in StoredIn(buf), IsFirst(f), NEW m, m = MsgOf[f],
         Pkts(m) \subseteq StoredIn(buf), ReadPos = PosOf(buf, f), NEW l, l = LastOf(m)
  PROVE  /\ f \in Nat /\ l \in Nat /\ f <= l /\ Pkts(m) = f .. l /\ Pkts(m) \subseteq Seqs
         /\ \A s \in Pkts(m) : MsgOf[s] = m /\ (IsFirst(s) <=> s = f) /\ (IsLast(s) <=> s = l)
         /\ ReadLen = (l - f) + 1
         /\ ReadSet = PosSet(buf, Pkts(m))
<1>1. PICK b : b = buf
  OBVIOUS
<1>2. PICK S : S = b.startSeqNo
  OBVIOUS
<1>3. b \in Buffers
  BY <1>1 DEF Placed
<1>4. f \in Seqs /\ f \in Pkts(m)
  BY StoredIs, Ends
<1>5. /\ f \in Nat /\ l \in Nat /\ f <= l /\ Pkts(m) = f .. l /\ Pkts(m) \subseteq Seqs
      /\ \A s \in Pkts(m) : MsgOf[s] = m /\ (IsFirst(s) <=> s = f) /\ (IsLast(s) <=> s = l)
  <2>1. \A s \in Seqs : s \in Nat
    BY Ends
  <2> QED
    BY <1>4, <2>1, MsgSpan
<1>6. S \in Nat /\ Capacity \in Nat /\ Size = Capacity + 1 /\ b.startPos \in Positions
  BY <1>2, <1>3, Fields, Sizes
<1>7. S <= f /\ l <= S + Capacity
  <2>1. f \in StoredIn(b) /\ l \in StoredIn(b) /\ f \in Window(b) /\ l \in Window(b)
    BY <1>1, <1>5, StoredIs
  <2> QED
    BY <1>2, <1>6, <2>1 DEF Window
<1>8. ASSUME NEW k \in 0 .. (l - f)
      PROVE  /\ IncPos(ReadPos, k) = PosOf(b, f + k) /\ f + k \in Pkts(m)
             /\ b.entries[IncPos(ReadPos, k)] = f + k
  <2>1. PICK i : i = f - S
    OBVIOUS
  <2>2. /\ i \in 0 .. Capacity /\ i \in 0 .. Size /\ k \in 0 .. Size /\ i + k <= Size /\ S + i = f
        /\ i + k \in 0 .. Capacity /\ S + (i + k) = f + k
    BY <1>5, <1>6, <1>7, <2>1
  <2>3. ReadPos = IncPos(b.startPos, i)
    BY <1>1, <1>2, <1>3, <2>2, EntryIs
  <2>4. IncPos(ReadPos, k) = IncPos(b.startPos, i + k)
    BY <1>6, <2>2, <2>3, IncInc
  <2>5. IncPos(ReadPos, k) = PosOf(b, f + k) /\ b.entries[IncPos(ReadPos, k)] = At(b, f + k)
    BY <1>2, <1>3, <2>2, <2>4, EntryIs
  <2>6. f + k \in f .. l
    BY <1>5
  <2> QED
    BY <1>1, <1>5, <2>5, <2>6, StoredIs
<1> DEFINE Ok(n) == LET p == IncPos(ReadPos, n - 1)
                    IN  HasUnit(buf, p) /\ IsLast(buf.entries[p])
           L == {n \in 1 .. Size : Ok(n)}
<1>9. ASSUME NEW n \in 1 .. ((l - f) + 1)
      PROVE  n \in L <=> n = (l - f) + 1
  <2>1. n - 1 \in 0 .. (l - f) /\ n \in 1 .. Size /\ f + (n - 1) >= 0
    BY <1>5, <1>6, <1>7
  <2>2. b.entries[IncPos(ReadPos, n - 1)] = f + (n - 1) /\ f + (n - 1) \in Pkts(m)
    BY <1>8, <2>1
  <2>3. PICK p : p = IncPos(ReadPos, n - 1)
    OBVIOUS
  <2>4. Ok(n) <=> HasUnit(b, p) /\ IsLast(b.entries[p])
    BY <1>1, <2>3
  <2>5. Ok(n) <=> f + (n - 1) = l
    BY <1>5, <2>1, <2>2, <2>3, <2>4 DEF HasUnit
  <2> HIDE DEF Ok
  <2> QED
    BY <1>5, <2>1, <2>5
<1>10. PICK x : x = Min(L)
  OBVIOUS
<1>11. (l - f) + 1 \in L /\ L \subseteq Nat
  <2>1. (l - f) + 1 \in 1 .. ((l - f) + 1)
    BY <1>5
  <2> QED
    BY <1>6, <1>9, <2>1
<1>12. x \in L /\ x <= (l - f) + 1 /\ x \in 1 .. Size
  <2>1. x \in L /\ \A y \in L : x <= y
    BY <1>10, <1>11, MinIs
  <2> QED
    BY <1>11, <2>1
<1> HIDE DEF L
<1>13. x = (l - f) + 1
  <2>1. x \in 1 .. ((l - f) + 1)
    BY <1>5, <1>6, <1>12
  <2> QED
    BY <1>9, <1>12, <2>1
<1>14. ReadLen = (l - f) + 1
  BY <1>10, <1>13, Zenon DEF ReadLen, L
<1>15. ReadSet = PosSet(b, Pkts(m))
  <2>1. ReadLen - 1 = l - f
    BY <1>5, <1>14
  <2>2. ASSUME NEW k \in 0 .. (l - f)
        PROVE  IncPos(ReadPos, k) \in {PosOf(b, s) : s \in Pkts(m)}
    BY <1>8
  <2>3. ASSUME NEW s \in Pkts(m)
        PROVE  PosOf(b, s) \in {IncPos(ReadPos, k) : k \in 0 .. (l - f)}
    <3>1. PICK k : k = s - f
      OBVIOUS
    <3>2. k \in 0 .. (l - f) /\ f + k = s
      BY <1>5, <3>1
    <3> QED
      BY <1>8, <3>2
  <2> QED
    BY <2>1, <2>2, <2>3, Zenon DEF ReadSet, PosSet
<1> QED
  BY <1>1, <1>5, <1>14, <1>15

(* The buffer without the message. *)
LEMMA TakenAt ==
  ASSUME NEW b \in Buffers, NEW c \in Buffers, NEW S, S = b.startSeqNo,
         NEW f \in Nat, NEW l \in Nat, f <= l, NEW Q, \A s \in Int : s \in Q <=> f <= s /\ s <= l,
         Q \subseteq Window(b), NEW V \in 0 .. Capacity, NEW T, T = S + V, NEW x, NEW ps,
         f = S => x = Empty,
         f = S => V = (l - f) + 1, f # S => V = 0,
         c.startSeqNo = T, c.startPos = IncPos(b.startPos, V), b.startPos = IncPos(b.startPos, 0),
         Covers(b, ps, Q), Writes(b, c, ps, x)
  PROVE  \A s \in Int : At(c, s) = IF s \in Q THEN x ELSE At(b, s)
<1>1. S \in Nat /\ V \in Nat /\ T \in Nat
  <2>1. S \in 0 .. NPkts
    BY Fields
  <2> QED
    BY <2>1, Sizes
<1>2. SUFFICES ASSUME NEW s \in Int
               PROVE  At(c, s) = IF s \in Q THEN x ELSE At(b, s)
  OBVIOUS
<1>3. CASE f = S
  <2>1. Covers(b, ps, {u \in Int : u < c.startSeqNo})
    <3>1. \A u \in Window(b) : u \in Int /\ S <= u
      BY <1>1 DEF Window
    <3>2. \A u \in Window(b) : u \in Q <=> u < T
      BY <1>1, <1>3, <3>1
    <3> QED
      BY <3>1, <3>2 DEF Covers
  <2>2. Writes(b, c, ps, Empty)
    BY <1>3
  <2>3. \A u \in Int : At(c, u) = IF u < c.startSeqNo THEN Empty ELSE At(b, u)
    BY <2>1, <2>2, AtCut
  <2>4. s < S => At(b, s) = Empty
    BY <1>1 DEF At, Window
  <2>5. s \in Q <=> s < T /\ S <= s
    BY <1>1, <1>3
  <2> QED
    BY <1>1, <1>3, <2>3, <2>4, <2>5
<1>4. CASE f # S
  <2>1. c.startSeqNo = b.startSeqNo /\ c.startPos = b.startPos
    BY <1>1, <1>4
  <2>2. \A u : At(c, u) = IF u \in Q THEN x ELSE At(b, u)
    BY <2>1, AtSet
  <2> QED
    BY <2>2
<1> QED
  BY <1>3, <1>4

TakenRec(b, ps, rp, len) ==
  [b EXCEPT
    !.entries = [p \in Positions |-> IF p \notin ps THEN b.entries[p]
                                     ELSE IF rp = b.startPos THEN Empty ELSE ReadOut],
    !.numOutOfOrder = b.numOutOfOrder - Cardinality({p \in ps : ~OrderFlag(b.entries[p])}),
    !.readableOOO = IF b.readableOOO = rp THEN -1 ELSE b.readableOOO,
    !.startPos = IF rp = b.startPos THEN IncPos(b.startPos, len) ELSE b.startPos,
    !.startSeqNo = IF rp = b.startPos THEN b.startSeqNo + len ELSE b.startSeqNo,
    !.maxPosOff = IF rp = b.startPos THEN b.maxPosOff - len ELSE b.maxPosOff]

TakenParts(b, c, f, Q, l) ==
  LET S == b.startSeqNo
      T == IF f = S THEN l + 1 ELSE S
      x == IF f = S THEN Empty ELSE ReadOut
  IN  /\ c \in Buffers /\ c.startSeqNo = T /\ T - S \in 0 .. Capacity /\ S <= T
      /\ c.startPos = IncPos(b.startPos, T - S)
      /\ c.maxPosOff = b.maxPosOff - (T - S) /\ c.nonreadPos = b.nonreadPos
      /\ c.numOutOfOrder = Cardinality(Ooo(b) \ Q)
      /\ c.readableOOO = IF b.readableOOO = PosOf(b, f) THEN -1 ELSE b.readableOOO
      /\ Covers(b, PosSet(b, Q), Q) /\ Writes(b, c, PosSet(b, Q), x) /\ Q \subseteq Window(b)
      /\ b.startPos = IncPos(b.startPos, 0)

(* The fields after the loop.                                              *)
LEMMA TakenIs ==
  ASSUME NEW b, Placed(b), b.numOutOfOrder = Cardinality(Ooo(b)), NEW Q, Q \subseteq StoredIn(b),
         NEW f \in Nat, NEW l \in Nat, f <= l, Q = f .. l, NEW len, len = (l - f) + 1,
         NEW c, c = TakenRec(b, PosSet(b, Q), PosOf(b, f), len)
  PROVE  TakenParts(b, c, f, Q, l)
<1>p. PICK S, rp, ps, T, x :
        /\ S = b.startSeqNo /\ rp = PosOf(b, f) /\ ps = PosSet(b, Q)
        /\ T = (IF f = S THEN l + 1 ELSE S) /\ x = (IF f = S THEN Empty ELSE ReadOut)
  OBVIOUS
<1> USE <1>p
<1>1. b \in Buffers
  BY DEF Placed
<1>2. PICK M : M = b.maxPosOff
  OBVIOUS
<1>3. /\ S \in Nat /\ S \in 0 .. NPkts /\ M \in 0 .. Capacity /\ M \in Nat /\ Capacity \in Nat
      /\ NPkts \in Nat /\ Size = Capacity + 1 /\ b.startPos \in Positions
  BY <1>1, <1>2, Fields, Sizes
<1>4. \A s \in Q : s \in Window(b) /\ s \in Seqs /\ b.entries[PosOf(b, s)] = s /\ S <= s /\ s < S + M
                   /\ PosOf(b, s) \in Positions
  <2>1. \A s \in Q : /\ s \in Window(b) /\ s \in Seqs /\ At(b, s) = s /\ S <= s /\ s < S + M
    BY <1>2, StoredIs
  <2> QED
    BY <1>1, <2>1, PosIs DEF At
<1>5. f \in Q /\ l \in Q /\ S <= f /\ l < S + M /\ l < NPkts
  BY <1>4, Ends
<1>6. rp = b.startPos <=> f = S
  <2>1. f \in Window(b) /\ S \in Window(b) /\ PosOf(b, S) = b.startPos
    BY <1>1, <1>4, <1>5, InorderIs
  <2>2. SeqOf(b, PosOf(b, f)) = f /\ SeqOf(b, PosOf(b, S)) = S
    BY <1>1, <2>1, PosIs
  <2> QED
    BY <2>1, <2>2
<1>7. PICK V : V = T - S
  OBVIOUS
<1>8. /\ V \in 0 .. Capacity /\ V \in Nat /\ V <= M /\ T = S + V /\ T \in 0 .. NPkts /\ T \in Nat
      /\ V = IF f = S THEN len ELSE 0
  BY <1>3, <1>5, <1>7
<1>9. b.startPos = IncPos(b.startPos, 0)
  <2>1. PICK q : q = b.startPos
    OBVIOUS
  <2>2. q \in Positions /\ 0 \in 0 .. Size /\ q \in Int /\ q + 0 = q /\ q < Size
    BY <1>3, <2>1, Sizes
  <2>3. IncPos(q, 0) = q
    BY <2>2, IncIs
  <2> QED
    BY <2>1, <2>3
<1>10. PICK ent : ent = [p \in Positions |-> IF p \in ps THEN x ELSE b.entries[p]]
  OBVIOUS
<1>11. PICK num : num = b.numOutOfOrder - Cardinality({p \in ps : ~OrderFlag(b.entries[p])})
  OBVIOUS
<1>12. PICK ro : ro = IF b.readableOOO = rp THEN -1 ELSE b.readableOOO
  OBVIOUS
<1>13. PICK sp : sp = IncPos(b.startPos, V)
  OBVIOUS
<1>14. PICK mx : mx = M - V
  OBVIOUS
<1>15. c = [b EXCEPT !.entries = ent, !.numOutOfOrder = num, !.readableOOO = ro,
                     !.startPos = sp, !.startSeqNo = T, !.maxPosOff = mx]
  <2>1. ent = [p \in Positions |-> IF p \notin ps THEN b.entries[p]
                                   ELSE IF rp = b.startPos THEN Empty ELSE ReadOut]
    BY <1>6, <1>10
  <2>2. sp = IF rp = b.startPos THEN IncPos(b.startPos, len) ELSE b.startPos
    BY <1>6, <1>8, <1>9, <1>13
  <2>3. T = IF rp = b.startPos THEN b.startSeqNo + len ELSE b.startSeqNo
    BY <1>3, <1>6, <1>8
  <2>4. mx = IF rp = b.startPos THEN b.maxPosOff - len ELSE b.maxPosOff
    BY <1>2, <1>3, <1>6, <1>8, <1>14
  <2> QED
    BY <2>1, <1>11, <1>12, <2>2, <2>3, <2>4 DEF TakenRec
<1>16. num = Cardinality(Ooo(b) \ Q) /\ num \in Int
  <2>1. PICK R : R = Ooo(b) \cap Q
    OBVIOUS
  <2>2. {p \in ps : ~OrderFlag(b.entries[p])} = {PosOf(b, s) : s \in R}
    <3>1. \A s \in Q : ~OrderFlag(b.entries[PosOf(b, s)]) <=> s \in R
      BY <1>4, <2>1 DEF Ooo
    <3>2. R \subseteq Q
      BY <2>1
    <3> QED
      BY <3>1, <3>2 DEF PosSet
  <2>3. R \subseteq Window(b) /\ R \subseteq Seqs
    BY <1>4, <2>1
  <2>4. Cardinality({PosOf(b, s) : s \in R}) = Cardinality(R)
    BY <1>1, <2>3, CountAt
  <2>5. IsFiniteSet(Ooo(b)) /\ Cardinality(Ooo(b)) \in Nat
    BY OooCount
  <2>6. /\ IsFiniteSet(Ooo(b) \ Q)
        /\ Cardinality(Ooo(b) \ Q) = Cardinality(Ooo(b)) - Cardinality(R)
    BY <2>1, <2>5, FS_Difference
  <2>7. Cardinality(Ooo(b) \ Q) \in Nat
    BY <2>6, FS_CardinalityType
  <2>8. num = b.numOutOfOrder - Cardinality(R)
    BY <1>11, <2>2, <2>4, Zenon
  <2> QED
    BY <2>6, <2>7, <2>8
<1>17. /\ ent \in [Positions -> {Empty, ReadOut, Dropped} \cup Seqs]
       /\ ro \in Positions \cup {-1} /\ sp \in Positions /\ mx \in 0 .. Capacity
  <2>1. ro \in Positions \cup {-1}
    BY <1>1, <1>12, Fields
  <2>2. sp \in Positions
    BY <1>1, <1>8, <1>13, EntryIs
  <2>3. mx \in 0 .. Capacity
    BY <1>3, <1>8, <1>14
  <2>4. \A p \in Positions : b.entries[p] \in {Empty, ReadOut, Dropped} \cup Seqs
    BY <1>1, Fields
  <2>5. ent \in [Positions -> {Empty, ReadOut, Dropped} \cup Seqs]
    BY <1>10, <2>4
  <2> QED
    BY <2>1, <2>2, <2>3, <2>5
<1>18. /\ c \in Buffers /\ c.entries = ent /\ c.startSeqNo = T /\ c.startPos = sp /\ c.maxPosOff = mx
       /\ c.nonreadPos = b.nonreadPos /\ c.numOutOfOrder = num /\ c.readableOOO = ro
  BY <1>1, <1>8, <1>15, <1>16, <1>17 DEF Buffers
<1>19. Covers(b, ps, Q)
  <2>1. \A s \in Window(b) : SeqOf(b, PosOf(b, s)) = s
    BY <1>1, PosIs
  <2> QED
    BY <1>4, <2>1 DEF Covers, PosSet
<1>20. Writes(b, c, ps, x) /\ Q \subseteq Window(b)
  BY <1>4, <1>10, <1>18 DEF Writes
<1>21. S <= T /\ T - S = V
  BY <1>3, <1>7, <1>8
<1> QED
  BY <1>2, <1>8, <1>9, <1>12, <1>13, <1>14, <1>16, <1>18, <1>19, <1>20, <1>21, Zenon DEF TakenParts

Taken(b, t, f) ==
  LET S == b.startSeqNo
      Q == Pkts(MsgOf[f])
      T == IF f = S THEN LastOf(MsgOf[f]) + 1 ELSE S
  IN  /\ t \in Buffers /\ t.startSeqNo = T /\ S <= T /\ T - S \in 0 .. Capacity
      /\ t.startPos = IncPos(b.startPos, T - S)
      /\ t.maxPosOff = b.maxPosOff - (T - S) /\ t.nonreadPos = b.nonreadPos
      /\ t.numOutOfOrder = Cardinality(Ooo(b) \ Q)
      /\ t.readableOOO = IF b.readableOOO = PosOf(b, f) THEN -1 ELSE b.readableOOO
      /\ \A s \in Int : At(t, s) = IF s \in Q THEN (IF f = S THEN Empty ELSE ReadOut) ELSE At(b, s)

(* readMessage up to its release of fillers.                               *)
LEMMA ReadTaken ==
  ASSUME BufInv, IsRcvDataReady(buf)
  PROVE  \E f, t : /\ ReadsFrom(buf, f) /\ Taken(buf, t, f)
                   /\ ReadMessageNoScan =
                        LET next == ReleaseNextFillerEntries(t)
                        IN  IF IsInRange(next) THEN next ELSE [next EXCEPT !.nonreadPos = next.startPos]
<1>1. PICK f : ReadsFrom(buf, f) /\ ReadPos = PosOf(buf, f)
  BY ReadPosIs
<1>2. Placed(buf) /\ buf.numOutOfOrder = Cardinality(Ooo(buf)) /\ buf \in Buffers
  BY DEF BufInv, Keeps, Placed
<1>3. PICK m : m = MsgOf[f]
  OBVIOUS
<1>4. PICK l : l = LastOf(m)
  OBVIOUS
<1>5. PICK Q : Q = Pkts(m)
  OBVIOUS
<1>6. f \in StoredIn(buf) /\ IsFirst(f) /\ Q \subseteq StoredIn(buf)
  BY <1>1, <1>3, <1>5 DEF ReadsFrom
<1>7. /\ f \in Nat /\ l \in Nat /\ f <= l /\ Q = f .. l
      /\ ReadLen = (l - f) + 1
      /\ ReadSet = PosSet(buf, Q)
  <2>1. Pkts(m) \subseteq StoredIn(buf)
    BY <1>5, <1>6
  <2>2. /\ f \in Nat /\ l \in Nat /\ f <= l /\ Pkts(m) = f .. l
        /\ ReadLen = (l - f) + 1
        /\ ReadSet = PosSet(buf, Pkts(m))
    BY <1>1, <1>2, <1>3, <1>4, <1>6, <2>1, ReadLenIs
  <2> QED
    BY <1>5, <2>2
<1>8. PICK t : t = TakenRec(buf, ReadSet, ReadPos, ReadLen)
  OBVIOUS
<1>9. ReadMessageNoScan = LET next == ReleaseNextFillerEntries(t)
                          IN  IF IsInRange(next) THEN next ELSE [next EXCEPT !.nonreadPos = next.startPos]
  BY <1>8, Zenon DEF ReadMessageNoScan, TakenRec, ReadSet
<1>10. PICK ps : ps = PosSet(buf, Q)
  OBVIOUS
<1>11. PICK len : len = (l - f) + 1
  OBVIOUS
<1>12. PICK rp : rp = PosOf(buf, f)
  OBVIOUS
<1>13. t = TakenRec(buf, ps, rp, len)
  BY <1>1, <1>7, <1>8, <1>10, <1>11, <1>12
<1>14. PICK b : b = buf
  OBVIOUS
<1>15. PICK S : S = b.startSeqNo
  OBVIOUS
<1>16. PICK T : T = IF f = S THEN l + 1 ELSE S
  OBVIOUS
<1>17. PICK x : x = IF f = S THEN Empty ELSE ReadOut
  OBVIOUS
<1>18. TakenParts(b, t, f, Q, l)
  <2>1. Placed(b) /\ b.numOutOfOrder = Cardinality(Ooo(b)) /\ Q \subseteq StoredIn(b)
    BY <1>2, <1>6, <1>14
  <2>2. t = TakenRec(b, PosSet(b, Q), PosOf(b, f), len)
    BY <1>10, <1>12, <1>13, <1>14
  <2>3. f \in Nat /\ l \in Nat /\ f <= l /\ Q = f .. l /\ len = (l - f) + 1
    BY <1>7, <1>11
  <2> QED
    BY <2>1, <2>2, <2>3, TakenIs
<1>a. /\ t \in Buffers /\ t.startSeqNo = T /\ T - S \in 0 .. Capacity /\ S <= T
      /\ t.startPos = IncPos(b.startPos, T - S)
      /\ t.maxPosOff = b.maxPosOff - (T - S) /\ t.nonreadPos = b.nonreadPos
      /\ t.numOutOfOrder = Cardinality(Ooo(b) \ Q)
      /\ t.readableOOO = IF b.readableOOO = PosOf(b, f) THEN -1 ELSE b.readableOOO
      /\ Covers(b, ps, Q) /\ Writes(b, t, ps, x) /\ Q \subseteq Window(b)
      /\ b.startPos = IncPos(b.startPos, 0)
  BY <1>10, <1>14, <1>15, <1>16, <1>17, <1>18, Zenon DEF TakenParts
<1>19. \A s \in Int : At(t, s) = IF s \in Q THEN x ELSE At(b, s)
  <2>1. b \in Buffers /\ (\A s \in Int : s \in Q <=> f <= s /\ s <= l) /\ (f = S => x = Empty)
    BY <1>2, <1>7, <1>14, <1>17
  <2>2. PICK V : V = T - S
    OBVIOUS
  <2>3. S \in Nat
    BY <1>15, <2>1, Fields
  <2>4. V \in 0 .. Capacity /\ T = S + V /\ (f = S => V = (l - f) + 1) /\ (f # S => V = 0)
    BY <1>7, <1>16, <1>a, <2>2, <2>3
  <2>5. f \in Nat /\ l \in Nat /\ f <= l
    BY <1>7
  <2>6. t.startSeqNo = T /\ t.startPos = IncPos(b.startPos, V)
    BY <1>a, <2>2
  <2>7. /\ S = b.startSeqNo /\ Covers(b, ps, Q) /\ Writes(b, t, ps, x) /\ Q \subseteq Window(b)
        /\ b.startPos = IncPos(b.startPos, 0) /\ t \in Buffers
    BY <1>15, <1>a
  <2> QED
    BY <2>1, <2>4, <2>5, <2>6, <2>7, TakenAt
<1>20. Taken(b, t, f)
  BY <1>3, <1>4, <1>5, <1>15, <1>16, <1>17, <1>a, <1>19 DEF Taken
<1> QED
  BY <1>1, <1>9, <1>14, <1>20

(* What reading the message that starts with f does. *)
ReadOutcome(b, c, f) ==
  LET Q == Pkts(MsgOf[f])
      e == c.startSeqNo
  IN  /\ e = Past(b.startSeqNo, FillersOf(b) \cup Q)
      /\ f = b.startSeqNo => e = Past(LastOf(MsgOf[f]) + 1, FillersOf(b))
      /\ \A s \in Int : At(c, s) = IF s < e THEN Empty ELSE IF s \in Q THEN ReadOut ELSE At(b, s)
      /\ NonOf(c) = IF NonOf(b) < e THEN e ELSE NonOf(b)

(* The facts about a message to be read. *)
LEMMA ReadsFromIs ==
  ASSUME NEW b, Placed(b), InOrder(b), NEW f, ReadsFrom(b, f), NEW Q, Q = Pkts(MsgOf[f]),
         NEW l, l = LastOf(MsgOf[f])
  PROVE  /\ f \in Nat /\ l \in Nat /\ f <= l /\ Q = f .. l /\ l < NPkts /\ b.startSeqNo <= f
         /\ \A s \in Q : /\ MsgOf[s] = MsgOf[f] /\ (IsFirst(s) <=> s = f) /\ (IsLast(s) <=> s = l)
                         /\ s \in StoredIn(b) /\ At(b, s) = s /\ s \in Seqs
<1>1. f \in StoredIn(b) /\ Q \subseteq StoredIn(b) /\ IsFirst(f)
  BY DEF ReadsFrom
<1>2. f \in Seqs /\ b.startSeqNo <= f
  BY <1>1, StoredIs
<1>3. f \in Q /\ Q # {}
  BY <1>2, Ends
<1>4. /\ l \in Seqs /\ f <= l /\ Q = f .. l
      /\ \A s \in Q : MsgOf[s] = MsgOf[f] /\ (IsFirst(s) <=> s = f) /\ (IsLast(s) <=> s = l)
  BY <1>1, <1>3, MsgSpan
<1>5. f \in Nat /\ l \in Nat /\ l < NPkts
  BY <1>2, <1>4, Ends
<1>6. \A s \in Q : s \in StoredIn(b) /\ At(b, s) = s /\ s \in Seqs
  BY <1>1, StoredIs
<1> QED
  BY <1>2, <1>4, <1>5, <1>6

(* The buffer after the message was taken and the fillers at the start     *)
(* released: what was not read is in its place.                            *)
LEMMA ReadReleased ==
  ASSUME NEW b, Placed(b), InOrder(b), NEW f, ReadsFrom(b, f), NEW t, Taken(b, t, f),
         NEW c, c = ReleaseNextFillerEntries(t), NEW S, S = b.startSeqNo,
         NEW Q, Q = Pkts(MsgOf[f]), NEW l, l = LastOf(MsgOf[f]), NEW e, e = c.startSeqNo
  PROVE  /\ Placed(c) /\ S <= e /\ e <= S + Capacity /\ e \in Nat /\ e <= NPkts
         /\ c.startPos = IncPos(b.startPos, e - S)
         /\ c.maxPosOff = IF b.maxPosOff > e - S THEN b.maxPosOff - (e - S) ELSE 0
         /\ c.nonreadPos = b.nonreadPos /\ c.numOutOfOrder = Cardinality(Ooo(b) \ Q)
         /\ c.readableOOO = IF b.readableOOO = PosOf(b, f) THEN -1 ELSE b.readableOOO
         /\ \A s \in Int : At(c, s) = IF s < e THEN Empty ELSE IF s \in Q THEN ReadOut ELSE At(b, s)
         /\ At(c, e) \notin Fillers
         /\ StoredIn(c) = StoredIn(b) \ Q
         /\ e = Past(S, FillersOf(b) \cup Q)
         /\ f = S => l < e /\ e = Past(l + 1, FillersOf(b))
         /\ \A s \in (l + 1) .. (e - 1) : f = S => s \notin StoredIn(b)
<1> DEFINE M == b.maxPosOff
           T == IF f = S THEN l + 1 ELSE S
<1>1. b \in Buffers
  BY DEF Placed
<1>2. /\ S \in Nat /\ S <= NPkts /\ M \in Nat /\ M <= Capacity /\ Capacity \in Nat /\ NPkts \in Nat
      /\ b.startPos \in Positions /\ Size = Capacity + 1
  <2>1. S \in 0 .. NPkts /\ M \in 0 .. Capacity /\ b.startPos \in Positions
    BY <1>1, Fields
  <2> QED
    BY <2>1, Sizes
<1>3. /\ f \in Nat /\ l \in Nat /\ f <= l /\ Q = f .. l /\ l < NPkts /\ S <= f
      /\ \A s \in Q : s \in StoredIn(b) /\ At(b, s) = s /\ s \in Seqs
  BY ReadsFromIs
<1>4. /\ t \in Buffers /\ t.startSeqNo = T /\ S <= T /\ T - S \in 0 .. Capacity
      /\ t.startPos = IncPos(b.startPos, T - S)
      /\ t.maxPosOff = M - (T - S) /\ t.nonreadPos = b.nonreadPos
      /\ t.numOutOfOrder = Cardinality(Ooo(b) \ Q)
      /\ t.readableOOO = IF b.readableOOO = PosOf(b, f) THEN -1 ELSE b.readableOOO
      /\ \A s \in Int : At(t, s) = IF s \in Q THEN (IF f = S THEN Empty ELSE ReadOut) ELSE At(b, s)
  BY Zenon DEF Taken
<1>5. T \in Nat /\ T <= NPkts
  BY <1>2, <1>3
<1> HIDE DEF T
<1>6. ASSUME NEW s \in Int, At(b, s) # Empty
      PROVE  s < NPkts /\ s < S + Capacity /\ S <= s
  <2>1. s \in Window(b)
    BY <1>1, <1>6, AtIs
  <2>2. S <= s
    BY <1>2, <2>1 DEF Window
  <2> QED
    BY <1>6, <2>1, <2>2 DEF Placed
<1>7. ASSUME NEW s \in Int, At(t, s) # Empty
      PROVE  s < NPkts /\ s < S + Capacity
  <2>1. At(b, s) # Empty
    BY <1>3, <1>4, <1>7 DEF Empty
  <2> QED
    BY <1>6, <2>1
<1>8. \A s \in Window(t) : At(t, s) # Empty => s < NPkts /\ s < t.startSeqNo + Capacity
  <2>1. \A s \in Window(t) : s \in Int
    BY <1>4, <1>5, <1>2 DEF Window
  <2> QED
    BY <1>2, <1>4, <1>5, <1>7, <2>1
<1>9. PICK G : G = FillersOf(t)
  OBVIOUS
<1>10. PICK u : u = Past(T, G)
  OBVIOUS
<1>11. /\ c \in Buffers /\ c.startSeqNo = u /\ u \in T .. NPkts
       /\ \A s \in Int : At(c, s) = IF s < u THEN Empty ELSE At(t, s)
       /\ At(c, u) \notin Fillers
       /\ c.maxPosOff = IF t.maxPosOff > u - T THEN t.maxPosOff - (u - T) ELSE 0
       /\ c.nonreadPos = t.nonreadPos /\ c.numOutOfOrder = t.numOutOfOrder
       /\ c.readableOOO = t.readableOOO
       /\ c.startPos = IncPos(t.startPos, u - T)
  <2>1. u = Past(t.startSeqNo, FillersOf(t)) /\ t \in Buffers
    BY <1>4, <1>9, <1>10
  <2> QED
    BY <1>4, <1>8, <2>1, ReleaseIs
<1>12. u = e /\ e \in Nat /\ T <= e /\ e <= NPkts /\ S <= e
  BY <1>2, <1>4, <1>5, <1>11
<1>13. /\ e \notin G /\ \A s \in T .. (e - 1) : s \in G
       /\ G \subseteq Seqs /\ \A s : s \in G <=> s \in Seqs /\ At(t, s) \in Fillers
  <2>1. G \subseteq Seqs /\ \A s : s \in G <=> s \in Seqs /\ At(t, s) \in Fillers
    BY <1>9 DEF FillersOf
  <2>2. T \in 0 .. NPkts
    BY <1>2, <1>5
  <2> QED
    BY <1>10, <1>12, <2>1, <2>2, PastIs
<1>14. e <= S + Capacity
  <2>1. SUFFICES ASSUME ~(e <= S + Capacity) PROVE FALSE
    OBVIOUS
  <2>2. S + Capacity \in T .. (e - 1) /\ S + Capacity \in Int
    BY <1>2, <1>4, <1>5, <1>12, <2>1
  <2>3. At(t, S + Capacity) \in Fillers
    BY <1>13, <2>2
  <2>4. At(t, S + Capacity) # Empty
    BY <2>3 DEF Fillers, Empty, ReadOut, Dropped
  <2> QED
    BY <1>2, <1>7, <2>2, <2>4
<1>15. c.startPos = IncPos(b.startPos, e - S)
  <2>1. PICK i, j : i = T - S /\ j = e - T
    OBVIOUS
  <2>2. i \in 0 .. Size /\ j \in 0 .. Size /\ i + j <= Size /\ i + j = e - S
    BY <1>2, <1>4, <1>5, <1>12, <1>14, <2>1
  <2>3. IncPos(IncPos(b.startPos, i), j) = IncPos(b.startPos, i + j)
    BY <1>2, <2>2, IncInc
  <2> QED
    BY <1>4, <1>11, <1>12, <2>1, <2>2, <2>3
<1>16. c.maxPosOff = IF M > e - S THEN M - (e - S) ELSE 0
  <2>1. PICK mt, mc : mt = t.maxPosOff /\ mc = c.maxPosOff
    OBVIOUS
  <2>2. mt = M - (T - S) /\ mc = IF mt > e - T THEN mt - (e - T) ELSE 0
    BY <1>4, <1>11, <1>12, <2>1
  <2>3. mc = IF M > e - S THEN M - (e - S) ELSE 0
    BY <1>2, <1>4, <1>5, <1>12, <2>2
  <2> QED
    BY <2>1, <2>3
<1>17. ASSUME NEW s \in Int
       PROVE  At(c, s) = IF s < e THEN Empty ELSE IF s \in Q THEN ReadOut ELSE At(b, s)
  <2>1. f = S /\ s \in Q => s < e
    <3>1. f = S => T = l + 1
      BY DEF T
    <3> QED
      BY <1>3, <1>12, <3>1
  <2>2. At(c, s) = IF s < e THEN Empty ELSE At(t, s)
    BY <1>11, <1>12
  <2> QED
    BY <1>4, <2>1, <2>2
<1>18. ASSUME NEW s \in Int, s \notin Q
       PROVE  s \in G <=> s \in FillersOf(b)
  BY <1>4, <1>13, <1>18 DEF FillersOf
<1>19. ASSUME NEW s \in Q
       PROVE  s \notin FillersOf(b) /\ (s \in G <=> f # S)
  <2>1. s \in Int /\ s \in Seqs /\ At(b, s) = s /\ s \in Nat
    BY <1>3
  <2>2. s \notin FillersOf(b)
    BY <2>1 DEF FillersOf, Fillers, ReadOut, Dropped
  <2>3. At(t, s) \in Fillers <=> f # S
    BY <1>4, <2>1 DEF Fillers, Empty, ReadOut, Dropped
  <2> QED
    BY <1>13, <2>1, <2>2, <2>3
<1>20. e \notin Q
  <2>1. CASE f = S
    BY <1>3, <1>12, <2>1 DEF T
  <2>2. CASE f # S
    BY <1>13, <1>19, <2>2
  <2> QED
    BY <2>1, <2>2
<1>21. FillersOf(b) \cup Q \subseteq Seqs /\ FillersOf(b) \subseteq Seqs
  BY <1>3 DEF FillersOf
<1>22. e = Past(S, FillersOf(b) \cup Q)
  <2>1. e \notin FillersOf(b) \cup Q
    BY <1>12, <1>13, <1>18, <1>20
  <2>2. ASSUME NEW s \in S .. (e - 1) PROVE s \in FillersOf(b) \cup Q
    <3>1. s \in Int
      BY <1>2, <1>12
    <3>2. CASE s < T
      BY <1>2, <1>3, <3>2 DEF T
    <3>3. CASE ~(s < T)
      <4>1. s \in G
        BY <1>5, <1>12, <1>13, <3>1, <3>3
      <4> QED
        BY <1>18, <3>1, <4>1
    <3> QED
      BY <3>2, <3>3
  <2>3. S \in 0 .. NPkts /\ e \in S .. NPkts
    BY <1>2, <1>12
  <2> QED
    BY <1>21, <2>1, <2>2, <2>3, PastOnly
<1>23. ASSUME f = S
       PROVE  l < e /\ e = Past(l + 1, FillersOf(b))
  <2>1. T = l + 1
    BY <1>23 DEF T
  <2>2. l < e /\ e \in (l + 1) .. NPkts /\ l + 1 \in 0 .. NPkts
    BY <1>3, <1>2, <1>12, <2>1
  <2>3. e \notin FillersOf(b)
    BY <1>12, <1>13, <1>18, <1>20
  <2>4. ASSUME NEW s \in (l + 1) .. (e - 1) PROVE s \in FillersOf(b)
    <3>1. s \in Int /\ s \notin Q /\ s \in G
      BY <1>3, <1>12, <1>13, <2>1
    <3> QED
      BY <1>18, <3>1
  <2> QED
    BY <1>21, <2>2, <2>3, <2>4, PastOnly
<1>24. StoredIn(c) = StoredIn(b) \ Q
  <2>1. ASSUME NEW s \in StoredIn(c) PROVE s \in StoredIn(b) \ Q
    <3>1. s \in Seqs /\ s \in Int /\ s >= 0 /\ At(c, s) = s
      BY <2>1, Ends DEF StoredIn
    <3>2. At(c, s) # Empty /\ At(c, s) # ReadOut
      BY <3>1 DEF Empty, ReadOut
    <3>3. At(b, s) = s /\ s \notin Q
      BY <1>17, <3>1, <3>2
    <3> QED
      BY <3>1, <3>3 DEF StoredIn
  <2>2. ASSUME NEW s \in StoredIn(b), s \notin Q PROVE s \in StoredIn(c)
    <3>1. s \in Seqs /\ s \in Int /\ s >= 0 /\ At(b, s) = s
      BY <2>2, Ends DEF StoredIn
    <3>2. ~(s < e)
      <4>1. SUFFICES ASSUME s < e PROVE FALSE
        OBVIOUS
      <4>2. S <= s
        BY <1>6, <3>1 DEF Empty
      <4>3. s \in S .. (e - 1)
        BY <1>2, <1>12, <3>1, <4>1, <4>2
      <4>4. S \in 0 .. NPkts
        BY <1>2
      <4>5. s \in FillersOf(b)
        BY <1>21, <1>22, <2>2, <4>3, <4>4, PastIs
      <4> QED
        BY <3>1, <4>5 DEF FillersOf, Fillers, ReadOut, Dropped
    <3> QED
      BY <1>17, <2>2, <3>1, <3>2 DEF StoredIn
  <2> QED
    BY <2>1, <2>2
<1>25. ASSUME NEW s \in (l + 1) .. (e - 1), f = S
       PROVE  s \notin StoredIn(b)
  <2>1. s \in Int /\ s \notin Q /\ s \in T .. (e - 1) /\ s >= 0
    BY <1>3, <1>12, <1>25 DEF T
  <2>2. s \in FillersOf(b)
    BY <1>13, <1>18, <2>1
  <2> QED
    BY <2>1, <2>2 DEF FillersOf, Fillers, StoredIn, ReadOut, Dropped
<1>26. Placed(c)
  <2>1. \A s \in Int : At(c, s) >= 0 => At(b, s) = At(c, s) /\ e <= s
    BY <1>12, <1>17 DEF Empty, ReadOut
  <2>2. \A s \in Int : At(c, s) # Empty => s < NPkts /\ s < S + Capacity
    BY <1>7, <1>11
  <2>3. c \in Buffers /\ S <= e
    BY <1>11, <1>12
  <2> QED
    BY <1>16, <2>1, <2>2, <2>3, PlacedAfter
<1>27. /\ c.nonreadPos = b.nonreadPos /\ c.numOutOfOrder = Cardinality(Ooo(b) \ Q)
       /\ c.readableOOO = IF b.readableOOO = PosOf(b, f) THEN -1 ELSE b.readableOOO
       /\ At(c, e) \notin Fillers
  BY <1>4, <1>11, <1>12
<1> QED
  BY <1>12, <1>14, <1>15, <1>16, <1>17, <1>22, <1>23, <1>24, <1>25, <1>26, <1>27

(* What the search for a readable datagram does not touch stays true.      *)
LEMMA KeptWith ==
  ASSUME NEW d, Placed(d), InOrder(d), At(d, d.startSeqNo) \notin Fillers,
         d.numOutOfOrder = Cardinality(Ooo(d)),
         NEW c, SameButFound(d, c), Remembered(c), Found(c)
  PROVE  /\ Keeps(c) /\ c.startSeqNo = d.startSeqNo /\ StoredIn(c) = StoredIn(d)
         /\ NonOf(c) = NonOf(d) /\ \A s : At(c, s) = At(d, s)
<1>1. SameData(d, c) /\ c.numOutOfOrder = d.numOutOfOrder /\ c.nonreadPos = d.nonreadPos
  BY DEF SameButFound
<1>2. Placed(c) /\ StoredIn(c) = StoredIn(d) /\ Ooo(c) = Ooo(d) /\ \A s : At(c, s) = At(d, s)
  BY <1>1, Same
<1>3. c.startSeqNo = d.startSeqNo /\ c.maxPosOff = d.maxPosOff
  BY <1>1 DEF SameData
<1>4. NonOf(c) = NonOf(d)
  BY ReadsAtSame
<1>5. InOrder(c)
  BY <1>2, <1>3, <1>4 DEF InOrder
<1>6. At(c, c.startSeqNo) \notin Fillers /\ c.numOutOfOrder = Cardinality(Ooo(c))
  BY <1>1, <1>2, <1>3
<1> QED
  BY <1>2, <1>3, <1>4, <1>5, <1>6 DEF Keeps

(* A remembered message whose packets stay where they are is remembered    *)
(* rightly when the start has moved on.                                    *)
LEMMA StillRemembered ==
  ASSUME NEW b, Placed(b), Remembered(b), NEW d, Placed(d), NEW n \in 0 .. Capacity,
         d.startSeqNo = b.startSeqNo + n, d.startPos = IncPos(b.startPos, n),
         d.readableOOO = b.readableOOO,
         \A s : b.readableOOO >= 0 /\ s \in Pkts(MsgOf[b.entries[b.readableOOO]]) => s \in StoredIn(d)
  PROVE  Remembered(d)
<1> SUFFICES ASSUME b.readableOOO >= 0
             PROVE  Remembered(d)
  BY DEF Remembered
<1>1. PICK f : f = b.entries[b.readableOOO]
  OBVIOUS
<1>2. ReadsAt(b, f) /\ b.readableOOO = PosOf(b, f)
  BY <1>1, RememberedIs
<1>3. f \in StoredIn(b) /\ IsFirst(f) /\ MsgOf[f] \in dgram
  BY <1>2 DEF ReadsAt
<1>4. f \in Seqs /\ f \in Window(b) /\ f \in Pkts(MsgOf[f])
  BY <1>3, StoredIs, Ends
<1>5. Pkts(MsgOf[f]) \subseteq StoredIn(d)
  BY <1>1
<1>6. f \in StoredIn(d) /\ f \in Window(d)
  BY <1>4, <1>5, StoredIs
<1>7. PosOf(d, f) = PosOf(b, f)
  <2>1. b \in Buffers /\ d \in Buffers
    BY DEF Placed
  <2> QED
    BY <1>4, <1>6, <2>1, Shifted
<1>8. ReadsAt(d, f)
  BY <1>3, <1>5, <1>6 DEF ReadsAt
<1> QED
  BY <1>2, <1>7, <1>8, RememberedAt

(* What releaseNextFillerEntries leaves of a buffer whose message at f was *)
(* taken, and the reset of a nonread position that is out of the range.    *)
AfterRelease(b, x, f) ==
  LET S == b.startSeqNo
      Q == Pkts(MsgOf[f])
      l == LastOf(MsgOf[f])
      e == x.startSeqNo
  IN  /\ Placed(x) /\ S <= e /\ e <= S + Capacity /\ e \in Nat /\ e <= NPkts
      /\ x.startPos = IncPos(b.startPos, e - S)
      /\ x.maxPosOff = IF b.maxPosOff > e - S THEN b.maxPosOff - (e - S) ELSE 0
      /\ x.nonreadPos = b.nonreadPos /\ x.numOutOfOrder = Cardinality(Ooo(b) \ Q)
      /\ x.readableOOO = IF b.readableOOO = PosOf(b, f) THEN -1 ELSE b.readableOOO
      /\ \A s \in Int : At(x, s) = IF s < e THEN Empty ELSE IF s \in Q THEN ReadOut ELSE At(b, s)
      /\ At(x, e) \notin Fillers
      /\ StoredIn(x) = StoredIn(b) \ Q
      /\ e = Past(S, FillersOf(b) \cup Q)
      /\ f = S => l < e /\ e = Past(l + 1, FillersOf(b))
      /\ \A s \in (l + 1) .. (e - 1) : f = S => s \notin StoredIn(b)
Ranged(x, d) == d = IF IsInRange(x) THEN x ELSE [x EXCEPT !.nonreadPos = x.startPos]

(* The same, as one predicate.                                             *)
LEMMA AfterReleaseIs ==
  ASSUME NEW b, Placed(b), InOrder(b), NEW f, ReadsFrom(b, f), NEW t, Taken(b, t, f)
  PROVE  AfterRelease(b, ReleaseNextFillerEntries(t), f)
<1>1. PICK c : c = ReleaseNextFillerEntries(t)
  OBVIOUS
<1> QED
  BY <1>1, ReadReleased DEF AfterRelease

(* The reset of the nonread position, as one predicate.                    *)
LEMMA RangedIs ==
  ASSUME NEW b \in Buffers, NEW x \in Buffers, NEW n \in 0 .. Capacity, NEW d, Ranged(x, d),
         b.startSeqNo <= NonOf(b), NonOf(b) <= b.startSeqNo + b.maxPosOff,
         x.startSeqNo = b.startSeqNo + n, x.startPos = IncPos(b.startPos, n),
         x.nonreadPos = b.nonreadPos,
         x.maxPosOff = IF b.maxPosOff > n THEN b.maxPosOff - n ELSE 0
  PROVE  /\ SameData(x, d) /\ d.numOutOfOrder = x.numOutOfOrder /\ d.readableOOO = x.readableOOO
         /\ NonOf(d) = IF NonOf(b) < b.startSeqNo + n THEN b.startSeqNo + n ELSE NonOf(b)
         /\ NonOf(d) <= (b.startSeqNo + n) + x.maxPosOff
<1>1. PICK c : c = IF IsInRange(x) THEN x ELSE [x EXCEPT !.nonreadPos = x.startPos]
  OBVIOUS
<1>2. c = d
  BY <1>1 DEF Ranged
<1>3. PICK e : e = b.startSeqNo + n
  OBVIOUS
<1>4. PICK S, M, N : S = b.startSeqNo /\ M = b.maxPosOff /\ N = NonOf(b)
  OBVIOUS
<1>5. /\ S <= N /\ N <= S + M /\ e = S + n /\ x.startSeqNo = e
      /\ x.maxPosOff = IF M > n THEN M - n ELSE 0
  BY <1>3, <1>4
<1>6. /\ SameData(x, c) /\ c.numOutOfOrder = x.numOutOfOrder /\ c.readableOOO = x.readableOOO
      /\ NonOf(c) = IF N < e THEN e ELSE N
      /\ NonOf(c) <= e + x.maxPosOff
  BY <1>1, <1>4, <1>5, RangeIs
<1> QED
  BY <1>2, <1>3, <1>4, <1>6

(* readMessage without the search that follows.                            *)
LEMMA ReadNoScanIs ==
  ASSUME NEW b, Keeps(b), NEW f, ReadsFrom(b, f), NEW x, AfterRelease(b, x, f),
         NEW d, Ranged(x, d)
  PROVE  /\ Placed(d) /\ InOrder(d) /\ Remembered(d) /\ At(d, d.startSeqNo) \notin Fillers
         /\ d.numOutOfOrder = Cardinality(Ooo(d))
         /\ StoredIn(d) = StoredIn(b) \ Pkts(MsgOf[f])
         /\ ReadOutcome(b, d, f)
<1>1. PICK S, Q, l, e, M, N : /\ S = b.startSeqNo /\ Q = Pkts(MsgOf[f]) /\ l = LastOf(MsgOf[f])
                              /\ e = x.startSeqNo /\ M = b.maxPosOff /\ N = NonOf(b)
  OBVIOUS
<1>2. /\ Placed(b) /\ InOrder(b) /\ Remembered(b) /\ b.numOutOfOrder = Cardinality(Ooo(b))
      /\ b \in Buffers
  BY DEF Keeps, Placed
<1>3. /\ Placed(x) /\ S <= e /\ e <= S + Capacity /\ e \in Nat /\ e <= NPkts
      /\ x.startPos = IncPos(b.startPos, e - S)
      /\ x.maxPosOff = IF M > e - S THEN M - (e - S) ELSE 0
      /\ x.nonreadPos = b.nonreadPos /\ x.numOutOfOrder = Cardinality(Ooo(b) \ Q)
      /\ x.readableOOO = IF b.readableOOO = PosOf(b, f) THEN -1 ELSE b.readableOOO
      /\ \A s \in Int : At(x, s) = IF s < e THEN Empty ELSE IF s \in Q THEN ReadOut ELSE At(b, s)
      /\ At(x, e) \notin Fillers
      /\ StoredIn(x) = StoredIn(b) \ Q
      /\ e = Past(S, FillersOf(b) \cup Q)
      /\ f = S => l < e /\ e = Past(l + 1, FillersOf(b))
      /\ \A s \in (l + 1) .. (e - 1) : f = S => s \notin StoredIn(b)
  BY <1>1, Zenon DEF AfterRelease
<1>4. /\ f \in Nat /\ l \in Nat /\ f <= l /\ Q = f .. l /\ l < NPkts /\ S <= f
      /\ \A s \in Q : /\ MsgOf[s] = MsgOf[f] /\ (IsFirst(s) <=> s = f) /\ (IsLast(s) <=> s = l)
                      /\ s \in StoredIn(b) /\ At(b, s) = s /\ s \in Seqs
  BY <1>1, <1>2, ReadsFromIs
<1>5. /\ N \in Int /\ S <= N /\ N <= S + M /\ N <= NPkts
      /\ \A s \in S .. (N - 1) : s \in StoredIn(b)
      /\ N # S => IsFirst(S) /\ IsLast(N - 1)
  BY <1>1, <1>2, NonIs
<1>6. S \in Nat /\ M \in Nat /\ M <= Capacity /\ Capacity \in Nat /\ NPkts \in Nat /\ S <= NPkts
  <2>1. S \in 0 .. NPkts /\ M \in 0 .. Capacity
    BY <1>1, <1>2, Fields
  <2> QED
    BY <2>1, Sizes
<1>7. PICK n : n = e - S
  OBVIOUS
<1>8. n \in 0 .. Capacity /\ e = S + n
  BY <1>3, <1>6, <1>7
<1>9. /\ SameData(x, d) /\ d.numOutOfOrder = x.numOutOfOrder /\ d.readableOOO = x.readableOOO
      /\ NonOf(d) = IF N < e THEN e ELSE N
      /\ NonOf(d) <= e + x.maxPosOff
  <2>1. x \in Buffers
    BY <1>3 DEF Placed
  <2>2. /\ x.startSeqNo = b.startSeqNo + n /\ x.startPos = IncPos(b.startPos, n)
        /\ x.nonreadPos = b.nonreadPos
        /\ x.maxPosOff = IF b.maxPosOff > n THEN b.maxPosOff - n ELSE 0
        /\ b.startSeqNo <= NonOf(b) /\ NonOf(b) <= b.startSeqNo + b.maxPosOff
    BY <1>1, <1>3, <1>5, <1>7, <1>8
  <2>3. /\ SameData(x, d) /\ d.numOutOfOrder = x.numOutOfOrder /\ d.readableOOO = x.readableOOO
        /\ NonOf(d) = IF NonOf(b) < b.startSeqNo + n THEN b.startSeqNo + n ELSE NonOf(b)
        /\ NonOf(d) <= (b.startSeqNo + n) + x.maxPosOff
    BY <1>2, <1>8, <2>1, <2>2, RangedIs
  <2> QED
    BY <1>1, <1>8, <2>3
<1>10. Placed(d) /\ StoredIn(d) = StoredIn(x) /\ Ooo(d) = Ooo(x) /\ \A s : At(d, s) = At(x, s)
  BY <1>3, <1>9, Same
<1>11. d.startSeqNo = e /\ d.startPos = x.startPos /\ d.maxPosOff = x.maxPosOff
  BY <1>1, <1>9 DEF SameData
<1>12. At(d, d.startSeqNo) \notin Fillers
  BY <1>3, <1>10, <1>11
<1>13. d.numOutOfOrder = Cardinality(Ooo(d))
  <2>1. Ooo(x) = Ooo(b) \ Q
    BY <1>3 DEF Ooo
  <2> QED
    BY <1>3, <1>9, <1>10, <2>1
<1>14. StoredIn(d) = StoredIn(b) \ Q
  BY <1>3, <1>10
<1>15. ReadOutcome(b, d, f)
  BY <1>1, <1>3, <1>9, <1>10, <1>11 DEF ReadOutcome
<1>16. ASSUME N > e
       PROVE  e = l + 1 /\ f = S /\ N # S
  <2>1. f = S /\ N # S
    BY <1>1, <1>3, <1>5, <1>6, <1>16 DEF ReadsFrom
  <2>2. l < e /\ \A s \in (l + 1) .. (e - 1) : s \notin StoredIn(b)
    BY <1>3, <2>1
  <2>3. SUFFICES ASSUME l + 1 < e PROVE FALSE
    BY <1>3, <1>4, <2>1, <2>2
  <2>4. l + 1 \in (l + 1) .. (e - 1) /\ l + 1 \in S .. (N - 1)
    BY <1>3, <1>4, <1>5, <1>6, <1>16, <2>3
  <2> QED
    BY <1>5, <2>2, <2>4
<1>17. InOrder(d)
  <2>1. ASSUME NEW s \in e .. (NonOf(d) - 1) PROVE At(d, s) = s
    <3>1. N > e /\ s \in e .. (N - 1)
      BY <1>3, <1>5, <1>9, <2>1
    <3>2. s \in StoredIn(b) /\ s \notin Q
      BY <1>3, <1>4, <1>5, <1>6, <1>16, <3>1
    <3>3. s \in StoredIn(d)
      BY <1>14, <3>2
    <3> QED
      BY <3>3 DEF StoredIn
  <2>2. ASSUME NonOf(d) # e PROVE IsFirst(e) /\ IsLast(NonOf(d) - 1)
    <3>1. N > e /\ NonOf(d) = N
      BY <1>3, <1>5, <1>9, <2>2
    <3>2. e = l + 1 /\ IsLast(N - 1)
      BY <1>5, <1>16, <3>1
    <3>a. l \in Q
      BY <1>4
    <3>3. IsLast(l) /\ l # NPkts - 1 /\ l = e - 1 /\ l + 1 = e
      <4>1. IsLast(l)
        BY <1>4, <3>a
      <4>2. l \in Nat /\ N \in Int /\ N <= NPkts /\ NPkts \in Nat
        BY <1>4, <1>5, <1>6
      <4>3. l # NPkts - 1 /\ l = e - 1 /\ l + 1 = e
        BY <3>1, <3>2, <4>2
      <4> QED
        BY <4>1, <4>3
    <3>4. MsgOf[e] # MsgOf[l]
      BY <3>3, Ends
    <3>5. IsFirst(e)
      BY <3>3, <3>4, Ends
    <3> QED
      BY <3>1, <3>2, <3>5
  <2> QED
    BY <1>9, <1>11, <2>1, <2>2 DEF InOrder
<1>18. Remembered(d)
  <2> SUFFICES ASSUME d.readableOOO >= 0 PROVE Remembered(d)
    BY DEF Remembered
  <2>1. d.readableOOO = b.readableOOO /\ b.readableOOO # PosOf(b, f) /\ b.readableOOO >= 0
    BY <1>3, <1>9
  <2>2. PICK g : g = b.entries[b.readableOOO]
    OBVIOUS
  <2>3. ReadsAt(b, g) /\ b.readableOOO = PosOf(b, g)
    BY <1>2, <2>1, <2>2, RememberedIs
  <2>4. g # f /\ IsFirst(g) /\ g \in StoredIn(b) /\ Pkts(MsgOf[g]) \subseteq StoredIn(b)
    BY <2>1, <2>3 DEF ReadsAt
  <2>5. g \in Seqs /\ f \in Seqs
    <3>1. f \in Q
      BY <1>4
    <3>2. g \in Seqs
      BY <2>4 DEF StoredIn
    <3> QED
      BY <1>4, <3>1, <3>2
  <2>6. g \notin Q
    BY <1>4, <2>4
  <2>7. MsgOf[g] # MsgOf[f]
    BY <1>1, <2>5, <2>6, Ends
  <2>8. \A s \in Pkts(MsgOf[g]) : s \notin Q
    BY <1>1, <2>7, Ends
  <2>9. \A s : s \in Pkts(MsgOf[g]) => s \in StoredIn(d)
    BY <1>14, <2>4, <2>8
  <2>10. d.startSeqNo = b.startSeqNo + n /\ d.startPos = IncPos(b.startPos, n)
    BY <1>1, <1>3, <1>7, <1>8, <1>11
  <2> QED
    BY <1>2, <1>8, <1>10, <2>1, <2>2, <2>9, <2>10, StillRemembered
<1> QED
  BY <1>1, <1>10, <1>12, <1>13, <1>14, <1>15, <1>17, <1>18

(* readMessage takes one message out, keeps everything else in its place   *)
(* and remembers a datagram if a whole one is left.                        *)
LEMMA ReadIs ==
  ASSUME BufInv, ReadMessage, NEW c, c = buf'
  PROVE  \E f : /\ ReadsFrom(buf, f) /\ ReadOutcome(buf, c, f) /\ Keeps(c)
                /\ StoredIn(c) = StoredIn(buf) \ Pkts(MsgOf[f])
<1>1. IsRcvDataReady(buf) /\ c = UpdateFirstReadableOutOfOrder(ReadMessageNoScan)
  BY DEF ReadMessage, AfterReadMessage
<1>2. PICK f, t : /\ ReadsFrom(buf, f) /\ Taken(buf, t, f)
                  /\ ReadMessageNoScan =
                       LET next == ReleaseNextFillerEntries(t)
                       IN  IF IsInRange(next) THEN next ELSE [next EXCEPT !.nonreadPos = next.startPos]
  BY <1>1, ReadTaken
<1>3. PICK x : x = ReleaseNextFillerEntries(t)
  OBVIOUS
<1>4. PICK d : d = ReadMessageNoScan
  OBVIOUS
<1>5. Ranged(x, d)
  BY <1>2, <1>3, <1>4, Zenon DEF Ranged
<1>6. Keeps(buf) /\ dgram \in Mixes
  BY DEF BufInv
<1>a. AfterRelease(buf, x, f)
  <2>1. Placed(buf) /\ InOrder(buf)
    BY <1>6 DEF Keeps
  <2> QED
    BY <1>2, <1>3, <2>1, AfterReleaseIs
<1>7. /\ Placed(d) /\ InOrder(d) /\ Remembered(d) /\ At(d, d.startSeqNo) \notin Fillers
      /\ d.numOutOfOrder = Cardinality(Ooo(d))
      /\ StoredIn(d) = StoredIn(buf) \ Pkts(MsgOf[f])
      /\ ReadOutcome(buf, d, f)
  BY <1>2, <1>5, <1>6, <1>a, ReadNoScanIs
<1>8. c = UpdateFirstReadableOutOfOrder(d)
  BY <1>1, <1>4
<1>9. SameButFound(d, c) /\ Remembered(c) /\ Found(c)
  BY <1>6, <1>7, <1>8, UpdateFirstIs
<1>10. /\ Keeps(c) /\ c.startSeqNo = d.startSeqNo /\ StoredIn(c) = StoredIn(d)
       /\ NonOf(c) = NonOf(d) /\ \A s : At(c, s) = At(d, s)
  BY <1>7, <1>9, KeptWith
<1>11. ReadOutcome(buf, c, f)
  BY <1>7, <1>10 DEF ReadOutcome
<1> QED
  BY <1>2, <1>7, <1>10, <1>11

(* dropMessage *)
(* What a drop request takes, in sequence numbers, and the positions the   *)
(* code goes through for it.                                               *)
Gone(b, lo, hi, m) ==
  IF hi < b.startSeqNo \/ lo > b.startSeqNo + Capacity THEN {}
  ELSE {s \in lo .. hi : /\ b.startSeqNo <= s /\ s < b.startSeqNo + Capacity
                         /\ ~(s \in StoredIn(b) /\ Layout!Solo(s)) /\ At(b, s) # Dropped}
         \cup {s \in StoredIn(b) : MsgOf[s] = m /\ s < lo /\ ~Layout!Solo(s)}
DropSet(lo, hi, m) ==
  {p \in DropSpan(lo, hi) : buf.entries[p] # Dropped /\ ~KeptAt(p)} \cup DropEarlier(lo, m)

(* The positions of a drop request are those of its sequence numbers,      *)
(* cut at the ends of the array.                                           *)
LEMMA DropSpanIs ==
  ASSUME buf \in Buffers, NEW lo \in Seqs, NEW hi \in Seqs, NEW s \in Window(buf)
  PROVE  PosOf(buf, s) \in DropSpan(lo, hi) <=>
           lo <= s /\ s <= hi /\ s < buf.startSeqNo + Capacity
<1>1. PICK S : S = buf.startSeqNo
  OBVIOUS
<1>2. /\ S \in Nat /\ lo \in Nat /\ hi \in Nat /\ Capacity \in Nat /\ Size = Capacity + 1
      /\ s \in Int /\ S <= s /\ s <= S + Capacity
  <2>1. S \in 0 .. NPkts
    BY <1>1, Fields
  <2> QED
    BY <1>1, <2>1, Sizes DEF Window, Seqs
<1>3. PICK A, B : A = Max({0, lo - S}) /\ B = Min({Size - 1, hi - S + 1})
  OBVIOUS
<1>4. A = IF 0 >= lo - S THEN 0 ELSE lo - S
  BY <1>2, <1>3, MaxOfTwo
<1>5. B = IF Capacity <= hi - S + 1 THEN Capacity ELSE hi - S + 1
  <2>1. Size - 1 = Capacity /\ hi - S + 1 \in Int /\ Size - 1 \in Int
    BY <1>2
  <2> QED
    BY <1>2, <1>3, <2>1, MinOfTwo
<1>6. \A k : k \in A .. (B - 1) <=> /\ k \in 0 .. Capacity /\ lo <= S + k /\ S + k <= hi
                                    /\ S + k < S + Capacity
  BY <1>2, <1>4, <1>5
<1>7. PosOf(buf, s) \in DropSpan(lo, hi) <=> \E k \in A .. (B - 1) : PosOf(buf, s) = IncPos(buf.startPos, k)
  BY <1>1, <1>3 DEF DropSpan
<1>8. ASSUME NEW k \in A .. (B - 1), PosOf(buf, s) = IncPos(buf.startPos, k)
      PROVE  s = S + k
  <2>1. k \in 0 .. Capacity
    BY <1>6
  <2>2. S + k \in Window(buf) /\ IncPos(buf.startPos, k) = PosOf(buf, S + k)
    BY <1>1, <2>1, EntryIs
  <2>3. SeqOf(buf, PosOf(buf, S + k)) = S + k /\ SeqOf(buf, PosOf(buf, s)) = s
    BY <2>2, PosIs
  <2> QED
    BY <1>8, <2>2, <2>3
<1>9. ASSUME lo <= s, s <= hi, s < S + Capacity
      PROVE  \E k \in A .. (B - 1) : PosOf(buf, s) = IncPos(buf.startPos, k)
  <2>1. s - S \in 0 .. Capacity /\ S + (s - S) = s
    BY <1>2, <1>9
  <2>2. s - S \in A .. (B - 1)
    BY <1>6, <1>9, <2>1
  <2> QED
    BY <1>1, <2>2 DEF PosOf
<1>10. ASSUME NEW k \in A .. (B - 1), PosOf(buf, s) = IncPos(buf.startPos, k)
       PROVE  lo <= s /\ s <= hi /\ s < S + Capacity
  BY <1>6, <1>8, <1>10
<1> QED
  BY <1>1, <1>7, <1>9, <1>10

(* The code drops the positions of exactly the packets of the request.     *)
LEMMA DropSetIs ==
  ASSUME Placed(buf), NEW lo \in Seqs, NEW hi \in Seqs, NEW m,
         ~(hi < buf.startSeqNo), ~(lo > buf.startSeqNo + Capacity),
         NEW gone, gone = Gone(buf, lo, hi, m)
  PROVE  /\ Covers(buf, DropSet(lo, hi, m), gone) /\ DropSet(lo, hi, m) \subseteq Positions
         /\ gone \subseteq Window(buf) /\ gone \subseteq Seqs
         /\ \A s \in gone : s < buf.startSeqNo + Capacity /\ buf.startSeqNo <= s
<1>1. buf \in Buffers
  BY DEF Placed
<1>2. PICK S : S = buf.startSeqNo
  OBVIOUS
<1>3. S \in Nat /\ Capacity \in Nat /\ lo \in Nat /\ hi \in Nat /\ hi < NPkts /\ NPkts \in Nat
  <2>1. S \in 0 .. NPkts
    BY <1>1, <1>2, Fields
  <2> QED
    BY <1>2, <2>1, Sizes DEF Seqs
<1>4. \A s : s \in gone <=>
        \/ /\ s \in lo .. hi /\ S <= s /\ s < S + Capacity
           /\ ~(s \in StoredIn(buf) /\ Layout!Solo(s)) /\ At(buf, s) # Dropped
        \/ s \in StoredIn(buf) /\ MsgOf[s] = m /\ s < lo /\ ~Layout!Solo(s)
  BY <1>2 DEF Gone
<1>5. ASSUME NEW s \in StoredIn(buf)
      PROVE  s \in Seqs /\ s \in Window(buf) /\ S <= s /\ s < S + Capacity /\ At(buf, s) = s
  <2>1. /\ At(buf, s) = s /\ s \in Seqs /\ s \in Window(buf) /\ s \in Nat
        /\ s < S + buf.maxPosOff /\ S <= s
    <3>1. \A t : t \in StoredIn(buf) => /\ At(buf, t) = t /\ t \in Seqs /\ t \in Window(buf)
                                        /\ t < S + buf.maxPosOff /\ S <= t
      BY <1>2, StoredIs
    <3> QED
      BY <3>1 DEF Seqs
  <2>2. buf.maxPosOff \in 0 .. Capacity
    BY <1>1, Fields
  <2> QED
    BY <1>3, <2>1, <2>2
<1>6. ASSUME NEW s \in gone
      PROVE  s \in Seqs /\ s \in Window(buf) /\ S <= s /\ s < S + Capacity
  <2>1. CASE s \in lo .. hi /\ S <= s /\ s < S + Capacity
    BY <1>2, <1>3, <2>1 DEF Seqs, Window
  <2>2. CASE s \in StoredIn(buf)
    BY <1>5, <2>2
  <2> QED
    BY <1>4, <2>1, <2>2
<1>7. ASSUME NEW p \in Positions, NEW s, s = buf.entries[p], HasUnit(buf, p)
      PROVE  s \in StoredIn(buf) /\ PosOf(buf, s) = p
  BY <1>7, EntryStored DEF HasUnit
<1>8. ASSUME NEW s \in Window(buf)
      PROVE  PosOf(buf, s) \in DropSet(lo, hi, m) <=> s \in gone
  <2>1. /\ PosOf(buf, s) \in Positions /\ SeqOf(buf, PosOf(buf, s)) = s
        /\ buf.entries[PosOf(buf, s)] = At(buf, s)
    BY <1>1, PosIs DEF At
  <2>2. PICK p : p = PosOf(buf, s)
    OBVIOUS
  <2>3. HasUnit(buf, p) <=> s \in StoredIn(buf)
    BY <2>1, <2>2, StoredIs DEF HasUnit
  <2>4. HasUnit(buf, p) => buf.entries[p] = s
    BY <1>5, <2>1, <2>2, <2>3
  <2>5. KeptAt(p) <=> s \in StoredIn(buf) /\ Layout!Solo(s)
    BY <2>3, <2>4 DEF KeptAt
  <2>6. p \in DropSpan(lo, hi) <=> lo <= s /\ s <= hi /\ s < S + Capacity
    BY <1>1, <1>2, <2>2, DropSpanIs
  <2>7. p \in DropEarlier(lo, m) <=>
          s \in StoredIn(buf) /\ MsgOf[s] = m /\ s < lo /\ ~Layout!Solo(s)
    BY <2>1, <2>2, <2>3, <2>4, <2>5 DEF DropEarlier
  <2>8. S <= s /\ s \in Int
    BY <1>2, <1>3 DEF Window
  <2>9. s \in lo .. hi <=> lo <= s /\ s <= hi
    BY <1>3, <2>8
  <2>10. buf.entries[p] # Dropped <=> At(buf, s) # Dropped
    BY <2>1, <2>2
  <2>11. p \in DropSet(lo, hi, m) <=>
           \/ p \in DropSpan(lo, hi) /\ buf.entries[p] # Dropped /\ ~KeptAt(p)
           \/ p \in DropEarlier(lo, m)
    BY DEF DropSet
  <2>12. s \in gone <=>
           \/ /\ s \in lo .. hi /\ S <= s /\ s < S + Capacity
              /\ ~(s \in StoredIn(buf) /\ Layout!Solo(s)) /\ At(buf, s) # Dropped
           \/ s \in StoredIn(buf) /\ MsgOf[s] = m /\ s < lo /\ ~Layout!Solo(s)
    BY <1>4
  <2> QED
    BY <2>2, <2>5, <2>6, <2>7, <2>8, <2>9, <2>10, <2>11, <2>12
<1>9. DropSet(lo, hi, m) \subseteq Positions
  <2>1. ASSUME NEW p \in DropSpan(lo, hi) PROVE p \in Positions
    <3>1. PICK k \in Max({0, lo - S}) .. (Min({Size - 1, hi - S + 1}) - 1) : p = IncPos(buf.startPos, k)
      BY <1>2 DEF DropSpan
    <3>2. Size = Capacity + 1 /\ Size - 1 = Capacity /\ lo - S \in Int /\ hi - S + 1 \in Int
      BY <1>3, Sizes
    <3>3. Max({0, lo - S}) = IF 0 >= lo - S THEN 0 ELSE lo - S
      BY <3>2, MaxOfTwo
    <3>4. Min({Size - 1, hi - S + 1}) = IF Capacity <= hi - S + 1 THEN Capacity ELSE hi - S + 1
      BY <1>3, <3>2, MinOfTwo
    <3>5. k \in 0 .. Capacity
      <4>1. PICK A, B : A = Max({0, lo - S}) /\ B = Min({Size - 1, hi - S + 1})
        OBVIOUS
      <4>2. A \in Int /\ B \in Int /\ 0 <= A /\ B <= Capacity
        BY <1>3, <3>2, <3>3, <3>4, <4>1
      <4>3. k \in A .. (B - 1)
        BY <3>1, <4>1
      <4> QED
        BY <1>3, <4>2, <4>3
    <3> QED
      BY <1>1, <3>1, <3>5, EntryIs
  <2> QED
    BY <2>1 DEF DropSet, DropEarlier
<1> QED
  BY <1>2, <1>6, <1>8, <1>9 DEF Covers

(* The nonread position moves exactly when something at or before it goes. *)
LEMMA AtNonreadIs ==
  ASSUME Placed(buf), NEW ps, NEW gone, Covers(buf, ps, gone), ps \subseteq Positions,
         gone \subseteq Window(buf), \A s \in gone : buf.startSeqNo <= s,
         NEW offs, offs = {OffPos(buf.startPos, p) : p \in ps}
  PROVE  offs # {} /\ Min(offs) <= OffPos(buf.startPos, buf.nonreadPos)
           <=> gone # {} /\ Min(gone) <= NonOf(buf)
<1>1. PICK S, V : S = buf.startSeqNo /\ V = OffPos(buf.startPos, buf.nonreadPos)
  OBVIOUS
<1>2. buf \in Buffers
  BY DEF Placed
<1>3. S \in Nat /\ V \in Nat /\ NonOf(buf) = S + V
  <2>1. S \in 0 .. NPkts /\ buf.startPos \in Positions /\ buf.nonreadPos \in Positions
    BY <1>1, <1>2, Fields
  <2>2. V \in 0 .. Capacity
    BY <1>1, <2>1, OffIs
  <2>3. NonOf(buf) = S + V
    BY <1>1 DEF NonOf, SeqOf
  <2> QED
    BY <2>1, <2>2, <2>3, Sizes
<1>4. ASSUME NEW s \in gone
      PROVE  s \in Int /\ S <= s /\ s - S \in offs
  <2>1. s \in Window(buf) /\ PosOf(buf, s) \in ps
    BY DEF Covers
  <2>2. OffPos(buf.startPos, PosOf(buf, s)) = s - S
    BY <1>1, <1>2, <2>1, PosIs
  <2>3. s \in Int /\ S <= s
    BY <1>1, <1>3, <2>1, Sizes DEF Window
  <2> QED
    BY <2>1, <2>2, <2>3
<1>5. ASSUME NEW k \in offs
      PROVE  k \in Nat /\ S + k \in gone
  <2>1. PICK p \in ps : k = OffPos(buf.startPos, p)
    OBVIOUS
  <2>2. p \in Positions /\ buf.startPos \in Positions
    BY <1>2, Fields
  <2>3. k \in 0 .. Capacity
    BY <2>1, <2>2, OffIs
  <2>4. SeqOf(buf, p) \in Window(buf) /\ PosOf(buf, SeqOf(buf, p)) = p
    BY <1>2, <2>2, SeqIs
  <2>5. SeqOf(buf, p) \in gone
    BY <2>4 DEF Covers
  <2> QED
    BY <1>1, <2>1, <2>3, <2>5, Sizes DEF SeqOf
<1>6. offs # {} <=> gone # {}
  BY <1>4, <1>5
<1>7. CASE offs # {}
  <2>1. PICK g, o : g = Min(gone) /\ o = Min(offs)
    OBVIOUS
  <2>2. offs \subseteq Nat /\ gone \subseteq Nat /\ gone # {}
    BY <1>3, <1>4, <1>5, <1>6, <1>7
  <2>3. o \in offs /\ \A k \in offs : o <= k
    BY <1>7, <2>1, <2>2, MinIs
  <2>4. g \in gone /\ \A s \in gone : g <= s
    BY <2>1, <2>2, MinIs
  <2>5. o <= g - S /\ g <= S + o /\ o \in Nat /\ g \in Nat
    BY <1>4, <1>5, <2>2, <2>3, <2>4
  <2>6. o <= V <=> g <= S + V
    BY <1>3, <2>5
  <2> QED
    BY <1>1, <1>3, <1>6, <1>7, <2>1, <2>6
<1>8. CASE offs = {}
  BY <1>6, <1>8
<1> QED
  BY <1>7, <1>8

(* The buffer with the packets marked as dropped.                          *)
MarkedAs(b, d, gone) ==
  /\ d \in Buffers /\ d.startSeqNo = b.startSeqNo /\ d.startPos = b.startPos
  /\ d.nonreadPos = b.nonreadPos /\ d.maxPosOff = b.maxPosOff
  /\ d.numOutOfOrder = Cardinality(Ooo(b) \ gone)
  /\ \A s : At(d, s) = IF s \in gone THEN Dropped ELSE At(b, s)
DropRec(b, ps, r) ==
  [b EXCEPT !.entries = [p \in Positions |-> IF p \in ps THEN Dropped ELSE b.entries[p]],
            !.numOutOfOrder = b.numOutOfOrder
                - Cardinality({p \in ps : HasUnit(b, p) /\ ~OrderFlag(b.entries[p])}),
            !.readableOOO = r]

(* dropUnitInPos marks the positions and takes what they held off the      *)
(* count (buffer_rcv.cpp:783-807).                                         *)
LEMMA MarkedIs ==
  ASSUME NEW b, Placed(b), b.numOutOfOrder = Cardinality(Ooo(b)),
         NEW gone, gone \subseteq Window(b), NEW ps, ps \subseteq Positions, Covers(b, ps, gone)
  PROVE  MarkedAs(b, DropUnits(b, ps), gone)
<1>1. b \in Buffers
  BY DEF Placed
<1>2. PICK r : r = IF b.readableOOO \in ps /\ ~OrderFlag(b.entries[b.readableOOO])
                   THEN -1 ELSE b.readableOOO
  OBVIOUS
<1>3. PICK d : d = DropRec(b, ps, r)
  OBVIOUS
<1>4. d = DropUnits(b, ps)
  BY <1>2, <1>3, Zenon DEF DropUnits, DropRec
<1>5. PICK P : P = {p \in ps : HasUnit(b, p) /\ ~OrderFlag(b.entries[p])}
  OBVIOUS
<1>6. PICK U : U = Ooo(b) \cap gone
  OBVIOUS
<1>7. /\ Ooo(b) \subseteq StoredIn(b) /\ StoredIn(b) \subseteq Seqs
      /\ \A s \in StoredIn(b) : s \in Window(b) /\ At(b, s) = s
  BY StoredIs DEF Ooo, StoredIn
<1>8. P = PosSet(b, U)
  <2>1. ASSUME NEW s \in U PROVE PosOf(b, s) \in P
    <3>1. s \in StoredIn(b) /\ ~OrderFlag(s) /\ s \in gone
      BY <1>6 DEF Ooo
    <3>2. s \in Window(b) /\ At(b, s) = s /\ s >= 0
      BY <1>7, <3>1 DEF Seqs
    <3>3. PosOf(b, s) \in ps /\ b.entries[PosOf(b, s)] = s
      BY <3>1, <3>2 DEF Covers, At
    <3> QED
      BY <1>5, <3>1, <3>2, <3>3 DEF HasUnit
  <2>2. ASSUME NEW p \in P PROVE p \in PosSet(b, U)
    <3>1. p \in ps /\ p \in Positions /\ b.entries[p] >= 0 /\ ~OrderFlag(b.entries[p])
      BY <1>5 DEF HasUnit
    <3>2. PICK s : s = b.entries[p]
      OBVIOUS
    <3>3. s \in StoredIn(b) /\ PosOf(b, s) = p
      BY <3>1, <3>2, EntryStored
    <3>4. s \in gone
      BY <1>7, <3>1, <3>3 DEF Covers
    <3>5. s \in U
      BY <1>6, <3>1, <3>2, <3>3, <3>4 DEF Ooo
    <3> QED
      BY <3>3, <3>5 DEF PosSet
  <2> QED
    BY <2>1, <2>2 DEF PosSet
<1>9. Cardinality(P) = Cardinality(U)
  <2>1. U \subseteq Window(b) /\ U \subseteq Seqs
    BY <1>6, <1>7
  <2> QED
    BY <1>1, <1>8, <2>1, CountAt DEF PosSet
<1>10. /\ b.numOutOfOrder - Cardinality(P) = Cardinality(Ooo(b) \ gone)
       /\ Cardinality(Ooo(b) \ gone) \in Int
  <2>1. IsFiniteSet(Ooo(b))
    BY OooCount
  <2>2. /\ IsFiniteSet(Ooo(b) \ gone)
        /\ Cardinality(Ooo(b) \ gone) = Cardinality(Ooo(b)) - Cardinality(Ooo(b) \cap gone)
    BY <2>1, FS_Difference
  <2>3. Cardinality(Ooo(b) \ gone) \in Nat
    BY <2>2, FS_CardinalityType
  <2> QED
    BY <1>6, <1>9, <2>2, <2>3
<1>11. PICK N, E : N = b.numOutOfOrder - Cardinality(P) /\ E = [p \in Positions |-> IF p \in ps THEN Dropped ELSE b.entries[p]]
  OBVIOUS
<1>12. d = [b EXCEPT !.entries = E, !.numOutOfOrder = N, !.readableOOO = r]
  BY <1>3, <1>5, <1>11, Zenon DEF DropRec
<1>13. /\ d \in Buffers /\ d.startSeqNo = b.startSeqNo /\ d.startPos = b.startPos
       /\ d.nonreadPos = b.nonreadPos /\ d.maxPosOff = b.maxPosOff
       /\ d.numOutOfOrder = N /\ d.entries = E
  <2>1. /\ b.entries \in [Positions -> {Empty, ReadOut, Dropped} \cup Seqs]
        /\ b.readableOOO \in Positions \cup {-1}
    BY <1>1, Fields
  <2>2. E \in [Positions -> {Empty, ReadOut, Dropped} \cup Seqs]
    BY <1>11, <2>1
  <2>3. N \in Int /\ r \in Positions \cup {-1}
    BY <1>2, <1>10, <1>11, <2>1
  <2> QED
    BY <1>1, <1>12, <2>2, <2>3 DEF Buffers
<1>14. Writes(b, d, ps, Dropped)
  BY <1>11, <1>13 DEF Writes
<1>15. \A s : At(d, s) = IF s \in gone THEN Dropped ELSE At(b, s)
  BY <1>1, <1>13, <1>14, AtSet
<1> QED
  BY <1>4, <1>10, <1>11, <1>13, <1>15 DEF MarkedAs

(* The buffer with the fillers at its start released.                      *)
AfterDrop(b, x, gone) ==
  LET S == b.startSeqNo
      e == x.startSeqNo
  IN  /\ Placed(x) /\ S <= e /\ e <= S + Capacity /\ e \in Nat /\ e <= NPkts
      /\ x.startPos = IncPos(b.startPos, e - S)
      /\ x.maxPosOff = IF b.maxPosOff > e - S THEN b.maxPosOff - (e - S) ELSE 0
      /\ x.nonreadPos = b.nonreadPos /\ x.numOutOfOrder = Cardinality(Ooo(x))
      /\ \A s \in Int : At(x, s) = IF s < e THEN Empty ELSE IF s \in gone THEN Dropped ELSE At(b, s)
      /\ At(x, e) \notin Fillers
      /\ StoredIn(x) = StoredIn(b) \ gone
      /\ e = Past(S, FillersOf(b) \cup gone)

(* The buffer after a drop request, with the fillers at the start          *)
(* released: what was not dropped is in its place.                         *)
LEMMA AfterDropIs ==
  ASSUME NEW b, Placed(b), NEW gone, gone \subseteq Seqs,
         \A s \in gone : s < b.startSeqNo + Capacity /\ b.startSeqNo <= s,
         NEW d, MarkedAs(b, d, gone), NEW x, x = ReleaseNextFillerEntries(d)
  PROVE  AfterDrop(b, x, gone)
<1>1. PICK S, M, e, F : /\ S = b.startSeqNo /\ M = b.maxPosOff /\ F = FillersOf(b) \cup gone
                        /\ e = Past(S, F)
  OBVIOUS
<1>2. b \in Buffers
  BY DEF Placed
<1>3. /\ S \in Nat /\ M \in Nat /\ M <= Capacity /\ Capacity \in Nat /\ NPkts \in Nat /\ S <= NPkts
  <2>1. S \in 0 .. NPkts /\ M \in 0 .. Capacity
    BY <1>1, <1>2, Fields
  <2> QED
    BY <2>1, Sizes
<1>4. /\ d \in Buffers /\ d.startSeqNo = S /\ d.startPos = b.startPos
      /\ d.nonreadPos = b.nonreadPos /\ d.maxPosOff = M
      /\ d.numOutOfOrder = Cardinality(Ooo(b) \ gone)
      /\ \A s : At(d, s) = IF s \in gone THEN Dropped ELSE At(b, s)
  BY <1>1 DEF MarkedAs
<1>5. FillersOf(d) = F
  <2>1. \A s : s \in FillersOf(d) <=> s \in Seqs /\ At(d, s) \in Fillers
    BY DEF FillersOf
  <2>2. \A s : s \in FillersOf(b) <=> s \in Seqs /\ At(b, s) \in Fillers
    BY DEF FillersOf
  <2>3. Dropped \in Fillers
    BY DEF Fillers
  <2> QED
    BY <1>1, <1>4, <2>1, <2>2, <2>3
<1>6. ASSUME NEW s \in Window(d), At(d, s) # Empty
      PROVE  s < NPkts /\ s < d.startSeqNo + Capacity
  <2>1. CASE s \in gone
    <3>1. s \in Seqs /\ s < b.startSeqNo + Capacity
      BY <2>1
    <3>2. s < NPkts
      BY <1>3, <3>1 DEF Seqs
    <3>3. d.startSeqNo = b.startSeqNo
      BY <1>1, <1>4
    <3> QED
      BY <3>1, <3>2, <3>3
  <2>2. CASE s \notin gone
    <3>1. At(b, s) # Empty /\ s \in Window(b)
      BY <1>1, <1>4, <1>6, <2>2 DEF Window
    <3> QED
      BY <1>1, <1>4, <3>1 DEF Placed
  <2> QED
    BY <2>1, <2>2
<1>7. /\ x \in Buffers /\ x.startSeqNo = e
      /\ e \in S .. NPkts /\ e <= S + Capacity
      /\ \A s \in Int : At(x, s) = IF s < e THEN Empty ELSE At(d, s)
      /\ At(x, e) \notin Fillers
      /\ x.maxPosOff = IF M > e - S THEN M - (e - S) ELSE 0
      /\ x.nonreadPos = d.nonreadPos /\ x.numOutOfOrder = d.numOutOfOrder
      /\ x.startPos = IncPos(b.startPos, e - S)
  <2>1. e = Past(d.startSeqNo, FillersOf(d)) /\ d \in Buffers
    BY <1>1, <1>4, <1>5
  <2> QED
    BY <1>4, <1>6, <2>1, ReleaseIs
<1>8. e \in Nat /\ S <= e /\ e <= NPkts
  BY <1>3, <1>7
<1>9. \A s \in Int : At(x, s) = IF s < e THEN Empty ELSE IF s \in gone THEN Dropped ELSE At(b, s)
  BY <1>4, <1>7
<1>10. \A t \in S .. (e - 1) : t \in F
  <2>1. F \subseteq Seqs
    BY <1>1 DEF FillersOf
  <2>2. S \in 0 .. NPkts
    BY <1>3
  <2> QED
    BY <1>1, <2>1, <2>2, PastIs
<1>11. StoredIn(x) = StoredIn(b) \ gone
  <2>1. ASSUME NEW s \in StoredIn(x) PROVE s \in StoredIn(b) \ gone
    <3>1. s \in Seqs /\ s \in Int /\ s >= 0 /\ At(x, s) = s
      BY <2>1, Ends DEF StoredIn
    <3>2. At(x, s) # Empty /\ At(x, s) # Dropped
      BY <3>1 DEF Empty, Dropped
    <3>3. At(b, s) = s /\ s \notin gone
      BY <1>9, <3>1, <3>2
    <3> QED
      BY <3>1, <3>3 DEF StoredIn
  <2>2. ASSUME NEW s \in StoredIn(b), s \notin gone PROVE s \in StoredIn(x)
    <3>1. s \in Seqs /\ s \in Int /\ s >= 0 /\ At(b, s) = s
      BY <2>2, Ends DEF StoredIn
    <3>2. S <= s
      BY <1>1, <2>2, StoredIs
    <3>3. ~(s < e)
      <4>1. SUFFICES ASSUME s < e PROVE FALSE
        OBVIOUS
      <4>2. s \in F
        BY <1>3, <1>8, <1>10, <3>1, <3>2, <4>1
      <4>3. At(b, s) \in Fillers
        BY <1>1, <2>2, <4>2 DEF FillersOf
      <4> QED
        BY <3>1, <4>3 DEF Fillers, ReadOut, Dropped
    <3> QED
      BY <1>9, <2>2, <3>1, <3>3 DEF StoredIn
  <2> QED
    BY <2>1, <2>2
<1>12. x.numOutOfOrder = Cardinality(Ooo(x))
  <2>1. Ooo(x) = Ooo(b) \ gone
    BY <1>11 DEF Ooo
  <2> QED
    BY <1>4, <1>7, <2>1
<1>13. Placed(x)
  <2>1. \A s \in Int : At(x, s) >= 0 => At(b, s) = At(x, s) /\ e <= s
    BY <1>8, <1>9 DEF Empty, Dropped
  <2>2. ASSUME NEW s \in Int, At(x, s) # Empty PROVE s < NPkts /\ s < S + Capacity
    <3>1. At(d, s) # Empty
      BY <1>7, <2>2
    <3>2. s \in Window(d)
      BY <1>4, <3>1, AtIs
    <3> QED
      BY <1>4, <1>6, <3>1, <3>2
  <2>3. x \in Buffers /\ S <= e /\ x.maxPosOff = IF M > e - S THEN M - (e - S) ELSE 0
    BY <1>7, <1>8
  <2> QED
    BY <1>1, <1>7, <2>1, <2>2, <2>3, PlacedAfter
<1> QED
  BY <1>1, <1>4, <1>7, <1>8, <1>9, <1>11, <1>12, <1>13 DEF AfterDrop

(* What the drop request does.                                             *)
DropOutcome(b, c, gone) ==
  LET e == c.startSeqNo
  IN  /\ e = Past(b.startSeqNo, FillersOf(b) \cup gone)
      /\ \A s \in Int : At(c, s) = IF s < e THEN Empty ELSE IF s \in gone THEN Dropped ELSE At(b, s)
      /\ StoredIn(c) = StoredIn(b) \ gone
      /\ NonOf(c) = IF gone # {} /\ Min(gone) <= NonOf(b) THEN Extended(e, StoredIn(c)) ELSE NonOf(b)
(* The nonread position after it.                                          *)
Moved(x, z, at) ==
  z = IF at THEN UpdateNonreadPos([x EXCEPT !.nonreadPos = x.startPos]) ELSE x

(* A nonread position set back to the start advances over what is whole;   *)
(* one before everything that was dropped stays where it is.               *)
LEMMA MovedBack ==
  ASSUME NEW x, Placed(x), NEW z, Moved(x, z, TRUE)
  PROVE  /\ SameData(x, z) /\ z.numOutOfOrder = x.numOutOfOrder
         /\ InOrder(z) /\ NonOf(z) = Extended(x.startSeqNo, StoredIn(z))
<1>1. PICK y : y = [x EXCEPT !.nonreadPos = x.startPos]
  OBVIOUS
<1>2. x \in Buffers
  BY DEF Placed
<1>3. PICK e, M : e = x.startSeqNo /\ M = x.maxPosOff
  OBVIOUS
<1>4. e \in Nat /\ M \in Nat /\ e \in 0 .. NPkts /\ NPkts \in Nat /\ x.startPos \in Positions
  <2>1. e \in 0 .. NPkts /\ M \in 0 .. Capacity /\ x.startPos \in Positions
    BY <1>2, <1>3, Fields
  <2> QED
    BY <2>1, Sizes
<1>5. /\ SameData(x, y) /\ y.numOutOfOrder = x.numOutOfOrder /\ y.nonreadPos = y.startPos
      /\ y.startSeqNo = e /\ y.maxPosOff = M
  <2>1. y \in Buffers
    BY <1>1, <1>2, <1>4 DEF Buffers
  <2>2. /\ y.entries = x.entries /\ y.startSeqNo = x.startSeqNo /\ y.startPos = x.startPos
        /\ y.maxPosOff = x.maxPosOff /\ y.numOutOfOrder = x.numOutOfOrder
        /\ y.nonreadPos = x.startPos
    BY <1>1, <1>2 DEF Buffers
  <2> QED
    BY <1>3, <2>1, <2>2 DEF SameData
<1>6. Placed(y) /\ StoredIn(y) = StoredIn(x)
  BY <1>5, Same
<1>7. NonOf(y) = e
  <2>1. y.startPos \in Positions /\ y \in Buffers
    BY <1>4, <1>5 DEF SameData
  <2>2. OffPos(y.startPos, y.startPos) = 0
    <3>1. PICK p : p = y.startPos
      OBVIOUS
    <3>2. p \in Positions
      BY <2>1, <3>1
    <3>3. OffPos(p, p) = IF p <= p THEN p - p ELSE p - p + Size
      BY <3>2, OffIs
    <3>4. p \in Int
      BY <3>2, Sizes
    <3>5. OffPos(p, p) = 0
      BY <3>3, <3>4
    <3> QED
      BY <3>1, <3>5
  <2> QED
    BY <1>4, <1>5, <2>2 DEF NonOf, SeqOf
<1>8. z = UpdateNonreadPos(y)
  BY <1>1, Zenon DEF Moved
<1>9. /\ SameData(y, z) /\ z.numOutOfOrder = y.numOutOfOrder
      /\ NonOf(z) = Extended(NonOf(y), StoredIn(y))
      /\ NonOf(z) <= y.startSeqNo + y.maxPosOff
  <2>1. NonOf(y) <= y.startSeqNo + y.maxPosOff /\ NonOf(y) <= NPkts
    BY <1>4, <1>5, <1>7
  <2> QED
    BY <1>6, <1>8, <2>1, UpdateNonreadPosIs
<1>10. SameData(x, z) /\ z.numOutOfOrder = x.numOutOfOrder
  BY <1>5, <1>9 DEF SameData
<1>11. StoredIn(z) = StoredIn(x)
  BY <1>10, Same
<1>12. NonOf(z) = Extended(e, StoredIn(z)) /\ z.startSeqNo = e /\ z.maxPosOff = M
  BY <1>3, <1>6, <1>7, <1>9, <1>10, <1>11 DEF SameData
<1>13. /\ e .. (NonOf(z) - 1) \subseteq StoredIn(z)
       /\ NonOf(z) = e \/ (IsFirst(e) /\ IsLast(NonOf(z) - 1))
  BY <1>4, <1>12, ExtendedIs
<1>14. InOrder(z)
  BY <1>5, <1>9, <1>12, <1>13 DEF InOrder, StoredIn
<1> QED
  BY <1>3, <1>10, <1>12, <1>14

(* When all that is dropped lies behind the nonread position, nothing is   *)
(* released and the position stays.                                        *)
LEMMA MovedNot ==
  ASSUME NEW b, Keeps(b), NEW gone, NEW x, AfterDrop(b, x, gone),
         gone \subseteq Seqs, \A s \in gone : NonOf(b) < s
  PROVE  InOrder(x) /\ NonOf(x) = NonOf(b)
<1>1. PICK S, M, N, e : S = b.startSeqNo /\ M = b.maxPosOff /\ N = NonOf(b) /\ e = x.startSeqNo
  OBVIOUS
<1>2. Placed(b) /\ InOrder(b) /\ b \in Buffers /\ At(b, S) \notin Fillers
  BY <1>1 DEF Keeps, Placed
<1>3. /\ Placed(x) /\ x.startPos = IncPos(b.startPos, e - S)
      /\ x.maxPosOff = IF M > e - S THEN M - (e - S) ELSE 0
      /\ x.nonreadPos = b.nonreadPos
      /\ StoredIn(x) = StoredIn(b) \ gone
      /\ e = Past(S, FillersOf(b) \cup gone)
  BY <1>1, Zenon DEF AfterDrop
<1>4. /\ N \in Int /\ S <= N /\ N <= S + M /\ N <= NPkts
      /\ \A t \in S .. (N - 1) : t \in StoredIn(b)
      /\ N # S => IsFirst(S) /\ IsLast(N - 1)
  BY <1>1, <1>2, NonIs
<1>5. S \in 0 .. NPkts /\ M \in 0 .. Capacity
  BY <1>1, <1>2, Fields
<1>6. e = S
  <2>1. S \notin gone
    BY <1>1, <1>4, <1>5
  <2>2. S \notin FillersOf(b)
    BY <1>2 DEF FillersOf
  <2>3. FillersOf(b) \cup gone \subseteq Seqs
    BY DEF FillersOf
  <2>4. S \in S .. NPkts /\ \A t \in S .. (S - 1) : t \in FillersOf(b) \cup gone
    BY <1>5, Sizes
  <2> QED
    BY <1>3, <1>5, <2>1, <2>2, <2>3, <2>4, PastOnly
<1>7. x.maxPosOff = M
  BY <1>3, <1>5, <1>6
<1>8. NonOf(x) = N
  <2>1. 0 \in 0 .. Capacity /\ x.startSeqNo = b.startSeqNo + 0 /\ x.startPos = IncPos(b.startPos, 0)
    BY <1>1, <1>3, <1>5, <1>6, Sizes
  <2>2. x \in Buffers /\ b.nonreadPos \in Positions
    BY <1>2, <1>3, Fields DEF Placed
  <2>3. \A p \in Positions :
          SeqOf(x, p) = IF SeqOf(b, p) >= x.startSeqNo THEN SeqOf(b, p) ELSE SeqOf(b, p) + Size
    BY <1>2, <2>1, <2>2, Shifted
  <2>4. SeqOf(b, b.nonreadPos) = N /\ N >= x.startSeqNo
    BY <1>1, <1>4, <1>6 DEF NonOf
  <2> QED
    BY <1>3, <2>2, <2>3, <2>4 DEF NonOf
<1>9. \A t \in S .. (N - 1) : t \in StoredIn(x)
  <2>1. ASSUME NEW t \in S .. (N - 1) PROVE t \notin gone
    <3>1. t \in Int /\ t < N
      BY <1>4, <1>5
    <3> QED
      BY <1>1, <1>4, <3>1
  <2> QED
    BY <1>3, <1>4, <2>1
<1>10. InOrder(x)
  BY <1>1, <1>4, <1>6, <1>7, <1>8, <1>9 DEF InOrder, StoredIn
<1> QED
  BY <1>1, <1>8, <1>10

(* dropMessage takes what the request is for, and everything else of the   *)
(* buffer stays as it should be.                                           *)
LEMMA DropKeeps ==
  ASSUME dgram \in Mixes, NEW b, Keeps(b), NEW gone, gone \subseteq Seqs,
         NEW x, AfterDrop(b, x, gone), NEW z,
         Moved(x, z, gone # {} /\ Min(gone) <= NonOf(b)),
         NEW c, c = UpdateFirstReadableOutOfOrder(CheckedFirstReadable(z))
  PROVE  Keeps(c) /\ DropOutcome(b, c, gone)
<1>1. PICK at : at = (gone # {} /\ Min(gone) <= NonOf(b)) /\ at \in BOOLEAN
  OBVIOUS
<1>2. /\ Placed(x) /\ x.numOutOfOrder = Cardinality(Ooo(x))
      /\ \A s \in Int : At(x, s) = IF s < x.startSeqNo THEN Empty ELSE IF s \in gone THEN Dropped ELSE At(b, s)
      /\ At(x, x.startSeqNo) \notin Fillers
      /\ StoredIn(x) = StoredIn(b) \ gone
      /\ x.startSeqNo = Past(b.startSeqNo, FillersOf(b) \cup gone)
  BY Zenon DEF AfterDrop
<1>3. /\ SameData(x, z) /\ z.numOutOfOrder = x.numOutOfOrder /\ InOrder(z)
      /\ NonOf(z) = IF at THEN Extended(x.startSeqNo, StoredIn(z)) ELSE NonOf(b)
  <2>1. CASE at
    <3>1. Moved(x, z, TRUE)
      BY <1>1, <2>1
    <3> QED
      BY <1>2, <2>1, <3>1, MovedBack
  <2>2. CASE ~at
    <3>1. z = x
      BY <1>1, <2>2, Zenon DEF Moved
    <3>2. NonOf(b) \in Int
      <4>1. Placed(b) /\ InOrder(b)
        BY DEF Keeps
      <4> QED
        BY <4>1, NonIs
    <3>3. ASSUME NEW s \in gone PROVE NonOf(b) < s
      <4>1. gone \subseteq Nat /\ gone # {}
        BY DEF Seqs
      <4>2. Min(gone) <= s /\ Min(gone) \in Nat /\ s \in Nat
        BY <4>1, MinIs
      <4>3. ~(Min(gone) <= NonOf(b))
        BY <1>1, <2>2, <4>1
      <4> QED
        BY <3>2, <4>2, <4>3
    <3>4. InOrder(x) /\ NonOf(x) = NonOf(b)
      BY <3>3, MovedNot
    <3>5. SameData(x, x)
      BY <1>2 DEF SameData, Placed
    <3> QED
      BY <2>2, <3>1, <3>4, <3>5
  <2> QED
    BY <1>1, <2>1, <2>2
<1>4. Placed(z) /\ StoredIn(z) = StoredIn(x) /\ Ooo(z) = Ooo(x) /\ \A s : At(z, s) = At(x, s)
  BY <1>2, <1>3, Same
<1>5. z.startSeqNo = x.startSeqNo
  BY <1>3 DEF SameData
<1>6. z.numOutOfOrder = Cardinality(Ooo(z)) /\ At(z, z.startSeqNo) \notin Fillers
  BY <1>2, <1>3, <1>4, <1>5
<1>7. PICK w : w = CheckedFirstReadable(z)
  OBVIOUS
<1>8. SameButFound(z, w) /\ Remembered(w)
  BY <1>4, <1>7, CheckedIs
<1>9. Placed(w) /\ w.numOutOfOrder = Cardinality(Ooo(w))
  <2>1. SameData(z, w) /\ w.numOutOfOrder = z.numOutOfOrder
    BY <1>8 DEF SameButFound
  <2>2. Placed(w) /\ Ooo(w) = Ooo(z)
    BY <1>4, <2>1, Same
  <2> QED
    BY <1>6, <2>1, <2>2
<1>10. SameButFound(w, c) /\ Remembered(c) /\ Found(c)
  BY <1>7, <1>8, <1>9, UpdateFirstIs
<1>11. SameButFound(z, c)
  BY <1>8, <1>10 DEF SameButFound, SameData
<1>12. /\ Keeps(c) /\ c.startSeqNo = z.startSeqNo /\ StoredIn(c) = StoredIn(z)
       /\ NonOf(c) = NonOf(z) /\ \A s : At(c, s) = At(z, s)
  BY <1>3, <1>4, <1>6, <1>10, <1>11, KeptWith
<1>13. NonOf(c) = IF at THEN Extended(c.startSeqNo, StoredIn(c)) ELSE NonOf(b)
  BY <1>3, <1>5, <1>12
<1>14. DropOutcome(b, c, gone)
  BY <1>1, <1>2, <1>4, <1>5, <1>12, <1>13 DEF DropOutcome
<1> QED
  BY <1>12, <1>14

(* dropMessage takes what the request is for, early return included        *)
(* (buffer_rcv.cpp:269-391).                                               *)
LEMMA DropIs ==
  ASSUME BufInv, NEW lo \in Seqs, NEW hi \in Seqs, NEW m, DropMessage(lo, hi, m), NEW c, c = buf'
  PROVE  Keeps(c) /\ DropOutcome(buf, c, Gone(buf, lo, hi, m))
<1>1. PICK gone, ps : gone = Gone(buf, lo, hi, m) /\ ps = DropSet(lo, hi, m)
  OBVIOUS
<1>2. PICK offs : offs = {OffPos(buf.startPos, p) : p \in ps}
  OBVIOUS
<1>3. PICK at : at = (offs # {} /\ Min(offs) <= OffPos(buf.startPos, buf.nonreadPos)) /\ at \in BOOLEAN
  OBVIOUS
<1>4. PICK d : d = DropUnits(buf, ps)
  OBVIOUS
<1>5. PICK x : x = ReleaseNextFillerEntries(d)
  OBVIOUS
<1>6. PICK z : Moved(x, z, at)
  BY DEF Moved
<1>7. PICK early : early = (hi - buf.startSeqNo < 0 \/ lo - buf.startSeqNo >= Size) /\ early \in BOOLEAN
  OBVIOUS
<1>8. c = IF early THEN buf ELSE UpdateFirstReadableOutOfOrder(CheckedFirstReadable(z))
  BY <1>1, <1>2, <1>3, <1>4, <1>5, <1>6, <1>7, Zenon DEF DropMessage, DropSet, Moved
<1>9. Keeps(buf) /\ dgram \in Mixes /\ Placed(buf) /\ buf \in Buffers
      /\ buf.numOutOfOrder = Cardinality(Ooo(buf))
  BY DEF BufInv, Keeps, Placed
<1>10. buf.startSeqNo \in 0 .. NPkts
  BY <1>9, Fields
<1>11. early <=> hi < buf.startSeqNo \/ lo > buf.startSeqNo + Capacity
  <2>1. PICK S : S = buf.startSeqNo
    OBVIOUS
  <2>2. /\ S \in Nat /\ lo \in Nat /\ hi \in Nat /\ Capacity \in Nat /\ Size = Capacity + 1
    BY <1>10, <2>1, Sizes DEF Seqs
  <2>3. hi - S < 0 <=> hi < S
    BY <2>2
  <2>4. lo - S >= Size <=> lo > S + Capacity
    BY <2>2
  <2> QED
    BY <1>7, <2>1, <2>3, <2>4
<1>12. CASE early
  <2>1. c = buf /\ gone = {}
    BY <1>1, <1>8, <1>11, <1>12 DEF Gone
  <2>2. PICK S : S = buf.startSeqNo
    OBVIOUS
  <2>3. S = Past(S, FillersOf(buf))
    <3>1. S \in 0 .. NPkts /\ S \in S .. NPkts /\ \A t \in S .. (S - 1) : t \in FillersOf(buf)
      BY <1>10, <2>2, Sizes
    <3>2. S \notin FillersOf(buf) /\ FillersOf(buf) \subseteq Seqs
      BY <1>9, <2>2 DEF FillersOf, Keeps
    <3> QED
      BY <3>1, <3>2, PastOnly
  <2>4. ASSUME NEW s \in Int, s < S PROVE At(buf, s) = Empty
    <3>1. s \notin Window(buf)
      BY <1>10, <2>2, <2>4, Sizes DEF Window
    <3> QED
      BY <1>9, <3>1, AtIs
  <2>5. FillersOf(buf) \cup {} = FillersOf(buf) /\ StoredIn(buf) \ {} = StoredIn(buf)
    OBVIOUS
  <2>6. DropOutcome(buf, buf, {})
    BY <2>2, <2>3, <2>4, <2>5 DEF DropOutcome
  <2> QED
    BY <1>1, <1>9, <2>1, <2>6
<1>13. CASE ~early
  <2>1. /\ Covers(buf, ps, gone) /\ ps \subseteq Positions
        /\ gone \subseteq Window(buf) /\ gone \subseteq Seqs
        /\ \A s \in gone : s < buf.startSeqNo + Capacity /\ buf.startSeqNo <= s
    BY <1>1, <1>9, <1>11, <1>13, DropSetIs
  <2>2. at = (gone # {} /\ Min(gone) <= NonOf(buf))
    BY <1>2, <1>3, <1>9, <2>1, AtNonreadIs
  <2>3. MarkedAs(buf, d, gone)
    BY <1>4, <1>9, <2>1, MarkedIs
  <2>4. AfterDrop(buf, x, gone)
    BY <1>5, <1>9, <2>1, <2>3, AfterDropIs
  <2>5. c = UpdateFirstReadableOutOfOrder(CheckedFirstReadable(z))
    BY <1>8, <1>13
  <2>6. Moved(x, z, gone # {} /\ Min(gone) <= NonOf(buf))
    BY <1>6, <2>2
  <2> QED
    BY <1>1, <1>9, <2>1, <2>4, <2>5, <2>6, DropKeeps
<1> QED
  BY <1>3, <1>7, <1>12, <1>13
-----------------------------------------------------------------------------
(* The invariant. *)

(* The empty buffer.                                                       *)
LEMMA BufInvInit ==
  ASSUME Init
  PROVE  BufInv
<1>1. PICK b : b = buf
  OBVIOUS
<1>2. /\ b = [entries |-> [p \in Positions |-> Empty], startSeqNo |-> 0, startPos |-> 0,
              nonreadPos |-> 0, maxPosOff |-> 0, numOutOfOrder |-> 0, readableOOO |-> -1]
      /\ dgram \in Mixes
  BY <1>1 DEF Init
<1>3. /\ b.entries = [p \in Positions |-> Empty] /\ b.startSeqNo = 0 /\ b.startPos = 0
      /\ b.nonreadPos = 0 /\ b.maxPosOff = 0 /\ b.numOutOfOrder = 0 /\ b.readableOOO = -1
      /\ b \in Buffers
  <2>1. 0 \in 0 .. NPkts /\ 0 \in Positions /\ 0 \in 0 .. Capacity /\ -1 \in Positions \cup {-1}
    BY Sizes
  <2>2. [p \in Positions |-> Empty] \in [Positions -> {Empty, ReadOut, Dropped} \cup Seqs]
    OBVIOUS
  <2> QED
    BY <1>2, <2>1, <2>2 DEF Buffers
<1>4. ASSUME NEW s PROVE At(b, s) = Empty
  <2>1. s \in Window(b) => PosOf(b, s) \in Positions
    BY <1>3, PosIs
  <2> QED
    BY <1>3, <2>1 DEF At
<1>5. StoredIn(b) = {} /\ Ooo(b) = {}
  BY <1>4 DEF StoredIn, Ooo, Seqs, Empty
<1>6. NonOf(b) = 0
  <2>1. OffPos(0, 0) = 0
    <3>1. 0 \in Positions
      BY Sizes
    <3> QED
      BY <3>1, OffIs
  <2> QED
    BY <1>3, <2>1 DEF NonOf, SeqOf
<1>7. Placed(b)
  BY <1>3, <1>4 DEF Placed, Empty
<1>8. InOrder(b)
  BY <1>3, <1>6 DEF InOrder
<1>9. Remembered(b)
  BY <1>3 DEF Remembered
<1>10. Found(b)
  <2>1. ASSUME NEW m \in dgram PROVE ~(Pkts(m) \subseteq StoredIn(b))
    <3>1. PICK s \in 0 .. (NPkts - 1) : MsgOf[s] = m
      BY <1>2, RcvBufferAssumption
    <3>2. s \in Pkts(m)
      BY <3>1, Ends DEF Seqs
    <3> QED
      BY <1>5, <3>2
  <2> QED
    BY <2>1 DEF Found
<1>11. At(b, b.startSeqNo) \notin Fillers
  BY <1>4 DEF Fillers, Empty, ReadOut, Dropped
<1>12. b.numOutOfOrder = Cardinality(Ooo(b))
  BY <1>3, <1>5, FS_EmptySet
<1>13. Keeps(b)
  BY <1>7, <1>8, <1>9, <1>10, <1>11, <1>12 DEF Keeps
<1> QED
  BY <1>1, <1>2, <1>13 DEF BufInv

(* Every method of the buffer keeps it: insert, readMessage, dropMessage.  *)
LEMMA BufInvStep ==
  ASSUME BufInv, Next, NEW c, c = buf'
  PROVE  Keeps(c) /\ dgram' = dgram
<1>1. Layout!Seqs = Seqs
  BY DEF Layout!Seqs, Seqs
<1>2. CASE \E s \in Layout!Seqs : Insert(s) \/ InsertRefused(s) \/ DropMessage(s, s, 0)
  <2>1. PICK s \in Seqs : Insert(s) \/ InsertRefused(s) \/ DropMessage(s, s, 0)
    BY <1>1, <1>2
  <2>2. CASE Insert(s)
    <3>1. Keeps(c)
      BY <2>2, InsertIs
    <3>2. dgram' = dgram
      BY <2>2, Zenon DEF Insert
    <3> QED
      BY <3>1, <3>2
  <2>3. CASE InsertRefused(s)
    BY <2>3, InsertRefusedIs DEF InsertRefused
  <2>4. CASE DropMessage(s, s, 0)
    BY <2>4, DropIs DEF DropMessage
  <2> QED
    BY <2>1, <2>2, <2>3, <2>4
<1>3. CASE ReadMessage
  BY <1>3, ReadIs DEF ReadMessage
<1>4. CASE \E m \in dgram : \E lo \in Pkts(m) : DropMessage(lo, Max(Pkts(m)), m)
  <2>0. PICK m \in dgram : \E lo \in Pkts(m) : DropMessage(lo, Max(Pkts(m)), m)
    BY <1>4
  <2>1. PICK lo \in Pkts(m) : DropMessage(lo, Max(Pkts(m)), m)
    BY <2>0
  <2>2. lo \in Seqs /\ Max(Pkts(m)) \in Seqs
    BY MsgSpan DEF LastOf
  <2> QED
    BY <2>1, <2>2, DropIs DEF DropMessage
<1> QED
  BY <1>2, <1>3, <1>4 DEF Next

(* The buffer as a function of sequence numbers: every packet is at the    *)
(* position of its number, what lies before the nonread position is a row  *)
(* of whole messages, no filler is at the start, the count of out-of-order *)
(* packets is exact, what is remembered is readable and a whole datagram   *)
(* is remembered unless something comes first.  Every method keeps all of  *)
(* this (buffer_rcv.cpp:155-528, 871-1001).                                *)
THEOREM BufInvHolds == Spec => []BufInv
<1>1. Init => BufInv
  BY BufInvInit
<1>2. BufInv /\ [Next]_vars => BufInv'
  <2> SUFFICES ASSUME BufInv, [Next]_vars
               PROVE  BufInv'
    OBVIOUS
  <2>1. PICK c : c = buf'
    OBVIOUS
  <2>2. Keeps(c) /\ dgram' = dgram
    <3>1. CASE Next
      BY <2>1, <3>1, BufInvStep
    <3>2. CASE UNCHANGED vars
      BY <2>1, <3>2 DEF vars, BufInv
    <3> QED
      BY <3>1, <3>2
  <2>3. Remembered(buf)' /\ Found(buf)'
    BY <2>1, <2>2 DEF Keeps, Remembered, Found
  <2>4. Ooo(buf)' = Ooo(c)
    BY <2>1, <2>2 DEF Ooo, OrderFlag
  <2>5. Keeps(buf)'
    BY <2>1, <2>2, <2>3, <2>4 DEF Keeps
  <2> QED
    BY <2>2, <2>5 DEF BufInv
<1> QED
  BY <1>1, <1>2, PTL DEF Spec

(* What the entries hold, by positions and by sequence numbers.            *)
StoredAt(b) == {b.entries[p] : p \in {q \in Positions : HasUnit(b, q)}}
StatusAt(b, x) == {SeqOf(b, p) : p \in {q \in Positions : b.entries[q] = x}}

(* The packets in the array are the stored sequence numbers.               *)
LEMMA StoredAtIs ==
  ASSUME NEW b, Placed(b)
  PROVE  StoredAt(b) = StoredIn(b)
<1>1. b \in Buffers
  BY DEF Placed
<1>2. ASSUME NEW p \in Positions, HasUnit(b, p) PROVE b.entries[p] \in StoredIn(b)
  BY <1>2, EntryStored DEF HasUnit
<1>3. ASSUME NEW s \in StoredIn(b) PROVE s \in StoredAt(b)
  <2>1. At(b, s) = s /\ s \in Seqs /\ s \in Window(b)
    BY StoredIs
  <2>2. PosOf(b, s) \in Positions /\ b.entries[PosOf(b, s)] = s
    BY <1>1, <2>1, PosIs DEF At
  <2>3. s >= 0
    BY <2>1 DEF Seqs
  <2> QED
    BY <2>2, <2>3 DEF StoredAt, HasUnit
<1> QED
  BY <1>2, <1>3 DEF StoredAt

(* So are the positions that are marked as read or as dropped.             *)
LEMMA StatusAtIs ==
  ASSUME NEW b, Placed(b), NEW x \in Fillers
  PROVE  StatusAt(b, x) = {s \in Seqs : At(b, s) = x}
<1>1. b \in Buffers /\ x # Empty
  BY DEF Placed, Fillers, ReadOut, Dropped, Empty
<1>2. ASSUME NEW p \in Positions, b.entries[p] = x
      PROVE  SeqOf(b, p) \in Seqs /\ At(b, SeqOf(b, p)) = x
  <2>1. SeqOf(b, p) \in Window(b) /\ At(b, SeqOf(b, p)) = x
    BY <1>1, <1>2, SeqIs
  <2>2. SeqOf(b, p) < NPkts
    BY <1>1, <2>1 DEF Placed
  <2>3. b.startSeqNo \in 0 .. NPkts
    BY <1>1, Fields
  <2>4. SeqOf(b, p) \in Int /\ 0 <= SeqOf(b, p)
    BY <2>1, <2>3, Sizes DEF Window
  <2> QED
    BY <2>1, <2>2, <2>4, Sizes DEF Seqs
<1>3. ASSUME NEW s \in Seqs, At(b, s) = x PROVE s \in StatusAt(b, x)
  <2>1. s \in Window(b)
    BY <1>1, <1>3, AtIs
  <2>2. PosOf(b, s) \in Positions /\ SeqOf(b, PosOf(b, s)) = s /\ b.entries[PosOf(b, s)] = x
    BY <1>1, <1>3, <2>1, PosIs DEF At
  <2> QED
    BY <2>2 DEF StatusAt
<1> QED
  BY <1>2, <1>3 DEF StatusAt

(* Positions stay in the array and a packet is at the position its         *)
(* sequence number has, although the array wraps around.                   *)
THEOREM TypeHolds == Spec => []TypeOK
<1>1. BufInv => TypeOK
  <2> SUFFICES ASSUME BufInv PROVE TypeOK
    OBVIOUS
  <2>1. Placed(buf) /\ buf \in Buffers /\ buf.numOutOfOrder = Cardinality(Ooo(buf))
    BY DEF BufInv, Keeps, Placed
  <2>2. buf.numOutOfOrder \in Nat
    BY <2>1, OooCount
  <2>3. ASSUME NEW p \in Positions, HasUnit(buf, p) PROVE buf.entries[p] = SeqAt(p)
    <3>1. PICK s : s = buf.entries[p]
      OBVIOUS
    <3>2. s \in StoredIn(buf) /\ PosOf(buf, s) = p
      BY <2>1, <2>3, <3>1, EntryStored DEF HasUnit
    <3>3. s \in Window(buf)
      BY <2>1, <3>2, StoredIs
    <3>4. SeqOf(buf, p) = s
      BY <2>1, <3>2, <3>3, PosIs
    <3> QED
      BY <3>1, <3>4 DEF SeqAt, SeqOf
  <2> QED
    BY <2>1, <2>2, <2>3, Fields DEF TypeOK
<1> QED
  BY <1>1, BufInvHolds, PTL

(* m_numOutOfOrderPackets is the number of stored packets that may be read *)
(* out of order: the loop of updateFirstReadableOutOfOrder that counts     *)
(* down from it ends (buffer_rcv.cpp:942-1001).                            *)
THEOREM NumOutOfOrderHolds == Spec => []NumOutOfOrderExact
<1>1. BufInv => NumOutOfOrderExact
  <2> SUFFICES ASSUME BufInv PROVE NumOutOfOrderExact
    OBVIOUS
  <2>1. Placed(buf) /\ buf.numOutOfOrder = Cardinality(Ooo(buf))
    BY DEF BufInv, Keeps
  <2>2. Stored = StoredIn(buf)
    BY <2>1, StoredAtIs DEF Stored, StoredAt
  <2> QED
    BY <2>1, <2>2 DEF NumOutOfOrderExact, Ooo
<1> QED
  BY <1>1, BufInvHolds, PTL

(* A datagram all of whose packets have arrived can be read when nothing   *)
(* is to be read in order, although one message only is remembered, and    *)
(* what is remembered can be read (buffer_rcv.cpp:871-911, 942-1001).      *)
THEOREM OutOfOrderHolds == Spec => []OutOfOrderFound
<1>1. BufInv => OutOfOrderFound
  <2> SUFFICES ASSUME BufInv PROVE OutOfOrderFound
    OBVIOUS
  <2>1. /\ Placed(buf) /\ Remembered(buf) /\ Found(buf) /\ buf \in Buffers
        /\ buf.numOutOfOrder = Cardinality(Ooo(buf)) /\ dgram \in Mixes
    BY DEF BufInv, Keeps, Placed
  <2>2. Stored = StoredIn(buf)
    BY <2>1, StoredAtIs DEF Stored, StoredAt
  <2>3. ASSUME ~HasReadableInorderPkts(buf), NEW m \in dgram, Pkts(m) \subseteq Stored
        PROVE  IsRcvDataReady(buf)
    <3>1. NonOf(buf) = buf.startSeqNo
      BY <2>1, <2>3, InorderIs
    <3>2. buf.readableOOO >= 0
      BY <2>1, <2>2, <2>3, <3>1 DEF Found
    <3>3. Ooo(buf) # {}
      BY <2>1, <2>2, <2>3, DgramIs
    <3>4. buf.numOutOfOrder > 0
      BY <2>1, <3>3, OooCount
    <3> QED
      BY <3>2, <3>4 DEF IsRcvDataReady
  <2>4. ASSUME buf.readableOOO >= 0
        PROVE  LET s == buf.entries[buf.readableOOO]
               IN  s >= 0 /\ IsFirst(s) /\ MsgOf[s] \in dgram /\ Pkts(MsgOf[s]) \subseteq Stored
    BY <2>1, <2>2, <2>4 DEF Remembered
  <2> QED
    BY <2>3, <2>4 DEF OutOfOrderFound
<1> QED
  BY <1>1, BufInvHolds, PTL
-----------------------------------------------------------------------------
(* The refinement: the circular array implements MsgBuffer. *)

(* The operators of MsgBuffer, whichever instance they are reached by.     *)
LEMMA SameOperators ==
  /\ Promise!Seqs = Seqs /\ Promise!Msgs = {MsgOf[s] : s \in Seqs}
  /\ \A m : Promise!Pkts(m) = Pkts(m)
  /\ \A s : Promise!IsFirst(s) <=> IsFirst(s)
  /\ \A s : Promise!IsLast(s) <=> IsLast(s)
  /\ \A s : Promise!Solo(s) <=> Layout!Solo(s)
  /\ \A T : Promise!Max(T) = Max(T)
  /\ \A T : Promise!Min(T) = Min(T)
<1>1. Promise!Seqs = Seqs
  BY DEF Promise!Seqs, Seqs
<1>2. Promise!Msgs = {MsgOf[s] : s \in Seqs}
  BY <1>1 DEF Promise!Msgs
<1>3. \A m : Promise!Pkts(m) = Pkts(m)
  BY <1>1, Ends DEF Promise!Pkts
<1>4. \A s : Promise!IsFirst(s) <=> IsFirst(s)
  BY Ends DEF Promise!IsFirst
<1>5. \A s : Promise!IsLast(s) <=> IsLast(s)
  BY Ends DEF Promise!IsLast
<1>6. \A s : Promise!Solo(s) <=> Layout!Solo(s)
  BY <1>4, <1>5 DEF Promise!Solo, Layout!Solo, IsFirst, IsLast
<1>7. \A T : Promise!Max(T) = Max(T)
  BY Zenon DEF Promise!Max, Max
<1>8. \A T : Promise!Min(T) = Min(T)
  BY Zenon DEF Promise!Min, Min
<1> QED
  BY <1>1, <1>2, <1>3, <1>4, <1>5, <1>6, <1>7, <1>8

(* Where the released fillers end is the same in both instances.           *)
LEMMA SamePastFillers ==
  ASSUME NEW s, NEW F
  PROVE  Promise!PastFillers(s, F) = Past(s, F)
<1>1. \A T : Layout!Min(T) = Promise!Min(T)
  BY Zenon DEF Layout!Min, Promise!Min
<1> QED
  BY <1>1 DEF Promise!PastFillers, Past, Layout!PastFillers

(* So is how far the nonread position advances.                            *)
LEMMA SameExtended ==
  ASSUME NEW n, NEW st
  PROVE  Promise!Extended(n, st) = Extended(n, st)
<1>1. \A T : Layout!Max(T) = Promise!Max(T)
  BY Zenon DEF Layout!Max, Promise!Max
<1>2. \A s : (Promise!IsFirst(s) <=> Layout!IsFirst(s)) /\ (Promise!IsLast(s) <=> Layout!IsLast(s))
  BY SameOperators DEF IsFirst, IsLast
<1>3. {e \in n .. NPkts : e = n \/ (n .. (e - 1) \subseteq st /\ Promise!IsFirst(n) /\ Promise!IsLast(e - 1))}
      = {e \in n .. NPkts : e = n \/ (n .. (e - 1) \subseteq st /\ Layout!IsFirst(n) /\ Layout!IsLast(e - 1))}
  BY <1>2
<1> QED
  BY <1>1, <1>3, Zenon DEF Promise!Extended, Extended, Layout!Extended

(* The state of MsgBuffer that a buffer stands for.                        *)
ReadIn(b) == {s \in Seqs : At(b, s) = ReadOut}
DropIn(b) == {s \in Seqs : At(b, s) = Dropped}

(* What the mapping makes of a buffer.                                     *)
LEMMA MapIs ==
  ASSUME Placed(buf)
  PROVE  /\ Stored = StoredIn(buf) /\ SeqAt(buf.nonreadPos) = NonOf(buf)
         /\ WithStatus(ReadOut) = ReadIn(buf) /\ WithStatus(Dropped) = DropIn(buf)
<1>1. Stored = StoredIn(buf)
  BY StoredAtIs DEF Stored, StoredAt
<1>2. SeqAt(buf.nonreadPos) = NonOf(buf)
  BY DEF SeqAt, NonOf, SeqOf
<1>3. ASSUME NEW x \in Fillers PROVE WithStatus(x) = {s \in Seqs : At(buf, s) = x}
  BY StatusAtIs DEF WithStatus, StatusAt, SeqAt, SeqOf
<1>4. ReadOut \in Fillers /\ Dropped \in Fillers
  BY DEF Fillers
<1> QED
  BY <1>1, <1>2, <1>3, <1>4 DEF ReadIn, DropIn

(* What the mapping makes of the next buffer.                              *)
LEMMA MapNext ==
  ASSUME NEW c, c = buf', Placed(c)
  PROVE  /\ Stored' = StoredIn(c) /\ SeqAt(buf.nonreadPos)' = NonOf(c)
         /\ WithStatus(ReadOut)' = ReadIn(c) /\ WithStatus(Dropped)' = DropIn(c)
<1>1. Stored' = StoredIn(c)
  BY StoredAtIs DEF Stored, StoredAt
<1>2. SeqAt(buf.nonreadPos)' = NonOf(c)
  BY DEF SeqAt, NonOf, SeqOf
<1>3. WithStatus(ReadOut)' = StatusAt(c, ReadOut) /\ WithStatus(Dropped)' = StatusAt(c, Dropped)
  BY DEF WithStatus, StatusAt, SeqAt, SeqOf
<1>4. ReadOut \in Fillers /\ Dropped \in Fillers
  BY DEF Fillers
<1> QED
  BY <1>1, <1>2, <1>3, <1>4, StatusAtIs DEF ReadIn, DropIn

(* An accepted insert is a Store, a refused one changes nothing.           *)
LEMMA StoreStep ==
  ASSUME BufInv, NEW s \in Seqs, Insert(s)
  PROVE  Promise!Store(s)
<1>1. PICK c : c = buf'
  OBVIOUS
<1>2. /\ Keeps(c) /\ c.startSeqNo = buf.startSeqNo
      /\ buf.startSeqNo <= s /\ s < buf.startSeqNo + Capacity /\ At(buf, s) = Empty
      /\ \A t : At(c, t) = IF t = s THEN s ELSE At(buf, t)
      /\ NonOf(c) = Extended(NonOf(buf), StoredIn(c))
  BY <1>1, InsertIs
<1>3. Placed(buf) /\ Placed(c) /\ dgram' = dgram
  <2>1. dgram' = dgram
    BY Zenon DEF Insert
  <2> QED
    BY <1>2, <2>1 DEF BufInv, Keeps
<1>4. StoredIn(c) = StoredIn(buf) \cup {s}
  BY <1>2 DEF StoredIn
<1>5. s \notin StoredIn(buf) /\ s \notin ReadIn(buf) /\ s \notin DropIn(buf)
  BY <1>2 DEF StoredIn, ReadIn, DropIn, Empty, ReadOut, Dropped, Seqs
<1>6. ReadIn(c) = ReadIn(buf) /\ DropIn(c) = DropIn(buf)
  <2>1. s # ReadOut /\ s # Dropped
    BY DEF ReadOut, Dropped, Seqs
  <2>2. \A t \in Seqs : (At(c, t) = ReadOut <=> At(buf, t) = ReadOut)
                        /\ (At(c, t) = Dropped <=> At(buf, t) = Dropped)
    BY <1>2, <2>1 DEF Empty, ReadOut, Dropped
  <2> QED
    BY <2>2 DEF ReadIn, DropIn
<1>7. /\ Stored = StoredIn(buf) /\ SeqAt(buf.nonreadPos) = NonOf(buf)
      /\ WithStatus(ReadOut) = ReadIn(buf) /\ WithStatus(Dropped) = DropIn(buf)
  BY <1>3, MapIs
<1>8. /\ Stored' = StoredIn(c) /\ SeqAt(buf.nonreadPos)' = NonOf(c)
      /\ WithStatus(ReadOut)' = ReadIn(c) /\ WithStatus(Dropped)' = DropIn(c)
  BY <1>1, <1>3, MapNext
<1>9. buf.startSeqNo' = buf.startSeqNo
  BY <1>1, <1>2
<1>10. Promise!Fits(s)
  BY <1>2 DEF Promise!Fits
<1>11. s \notin Stored \cup WithStatus(ReadOut) \cup WithStatus(Dropped)
  BY <1>5, <1>7
<1>12. Stored' = Stored \cup {s}
  BY <1>4, <1>7, <1>8
<1>13. SeqAt(buf.nonreadPos)' = Promise!Extended(SeqAt(buf.nonreadPos), Stored')
  BY <1>2, <1>7, <1>8, SameExtended
<1>14. WithStatus(ReadOut)' = WithStatus(ReadOut) /\ WithStatus(Dropped)' = WithStatus(Dropped)
  BY <1>6, <1>7, <1>8
<1> QED
  BY <1>3, <1>9, <1>10, <1>11, <1>12, <1>13, <1>14, Zenon DEF Promise!Store

(* A refused insert changes nothing that MsgBuffer sees.                   *)
LEMMA RefusedStep ==
  ASSUME BufInv, NEW s \in Seqs, InsertRefused(s)
  PROVE  UNCHANGED Promise!bufVars
<1>1. PICK c : c = buf'
  OBVIOUS
<1>2. /\ Keeps(c) /\ c.startSeqNo = buf.startSeqNo /\ NonOf(c) = NonOf(buf)
      /\ \A t : At(c, t) = At(buf, t)
  BY <1>1, InsertRefusedIs
<1>3. Placed(buf) /\ Placed(c) /\ dgram' = dgram
  <2>1. dgram' = dgram
    BY Zenon DEF InsertRefused
  <2> QED
    BY <1>2, <2>1 DEF BufInv, Keeps
<1>4. StoredIn(c) = StoredIn(buf) /\ ReadIn(c) = ReadIn(buf) /\ DropIn(c) = DropIn(buf)
  BY <1>2 DEF StoredIn, ReadIn, DropIn
<1>5. /\ Stored' = Stored /\ SeqAt(buf.nonreadPos)' = SeqAt(buf.nonreadPos)
      /\ WithStatus(ReadOut)' = WithStatus(ReadOut) /\ WithStatus(Dropped)' = WithStatus(Dropped)
  BY <1>1, <1>2, <1>3, <1>4, MapIs, MapNext
<1>6. buf.startSeqNo' = buf.startSeqNo
  BY <1>1, <1>2
<1> QED
  BY <1>3, <1>5, <1>6, Zenon DEF Promise!bufVars

(* readMessage reads one message, in its turn or out of order.             *)
LEMMA ReadStep ==
  ASSUME BufInv, ReadMessage
  PROVE  \E m \in Promise!Msgs : Promise!Read(m)
<1>1. PICK c : c = buf'
  OBVIOUS
<1>2. PICK f : /\ ReadsFrom(buf, f) /\ ReadOutcome(buf, c, f) /\ Keeps(c)
               /\ StoredIn(c) = StoredIn(buf) \ Pkts(MsgOf[f])
  BY <1>1, ReadIs
<1>3. PICK S, N, e, m, Q, l : /\ S = buf.startSeqNo /\ N = NonOf(buf) /\ e = c.startSeqNo
                              /\ m = MsgOf[f] /\ Q = Pkts(m) /\ l = LastOf(m)
  OBVIOUS
<1>4. Placed(buf) /\ Placed(c) /\ InOrder(buf) /\ buf \in Buffers /\ c \in Buffers /\ dgram' = dgram
  <2>1. dgram' = dgram
    BY Zenon DEF ReadMessage
  <2> QED
    BY <1>2, <2>1 DEF BufInv, Keeps, Placed
<1>5. /\ f \in Nat /\ l \in Nat /\ f <= l /\ Q = f .. l /\ l < NPkts /\ S <= f
      /\ \A s \in Q : s \in StoredIn(buf) /\ At(buf, s) = s /\ s \in Seqs
  BY <1>2, <1>3, <1>4, ReadsFromIs
<1>6. /\ e = Past(S, FillersOf(buf) \cup Q)
      /\ f = S => e = Past(l + 1, FillersOf(buf))
      /\ \A s \in Int : At(c, s) = IF s < e THEN Empty ELSE IF s \in Q THEN ReadOut ELSE At(buf, s)
      /\ NonOf(c) = IF N < e THEN e ELSE N
  BY <1>2, <1>3, Zenon DEF ReadOutcome
<1>7. /\ Stored = StoredIn(buf) /\ SeqAt(buf.nonreadPos) = N
      /\ WithStatus(ReadOut) = ReadIn(buf) /\ WithStatus(Dropped) = DropIn(buf)
  BY <1>3, <1>4, MapIs
<1>8. /\ Stored' = StoredIn(c) /\ SeqAt(buf.nonreadPos)' = NonOf(c)
      /\ WithStatus(ReadOut)' = ReadIn(c) /\ WithStatus(Dropped)' = DropIn(c)
  BY <1>1, <1>4, MapNext
<1>9. buf.startSeqNo' = e
  BY <1>1, <1>3
<1>10. FillersOf(buf) = ReadIn(buf) \cup DropIn(buf) /\ FillersOf(buf) \subseteq Seqs
  BY DEF FillersOf, Fillers, ReadIn, DropIn
<1>11. Stored' = Stored \ Promise!Pkts(m)
  BY <1>2, <1>3, <1>7, <1>8, SameOperators
<1>12. m \in Promise!Msgs
  <2>1. f \in Q
    BY <1>5
  <2> QED
    BY <1>3, <1>5, <2>1, SameOperators
<1>13. \A s \in Seqs : s \in Int /\ s >= 0
  BY DEF Seqs
<1>a. e \in Int
  <2>1. e \in 0 .. NPkts
    BY <1>3, <1>4, Fields
  <2> QED
    BY <2>1
<1>14. DropIn(c) = {s \in DropIn(buf) : s >= e}
  <2>1. ASSUME NEW s \in Seqs PROVE At(c, s) = Dropped <=> At(buf, s) = Dropped /\ s >= e
    <3>1. s \in Q => At(buf, s) # Dropped
      BY <1>5, <1>13 DEF Dropped
    <3> QED
      BY <1>6, <1>13, <1>a, <3>1 DEF Dropped, Empty, ReadOut
  <2> QED
    BY <2>1 DEF DropIn
<1>15. ReadIn(c) = {s \in ReadIn(buf) \cup Q : s >= e}
  <2>1. ASSUME NEW s \in Seqs PROVE At(c, s) = ReadOut <=> (At(buf, s) = ReadOut \/ s \in Q) /\ s >= e
    BY <1>6, <1>13, <1>a DEF Dropped, Empty, ReadOut
  <2> QED
    BY <1>5, <2>1 DEF ReadIn
<1>16. SeqAt(buf.nonreadPos)' = IF SeqAt(buf.nonreadPos) < e THEN e ELSE SeqAt(buf.nonreadPos)
  BY <1>6, <1>7, <1>8
<1>17. CASE N # S
  <2>1. f = S
    BY <1>2, <1>3, <1>17 DEF ReadsFrom
  <2>2. e = Promise!PastFillers(Promise!Max(Promise!Pkts(m)) + 1, WithStatus(ReadOut) \cup WithStatus(Dropped))
    BY <1>3, <1>6, <1>7, <1>10, <2>1, SameOperators, SamePastFillers DEF LastOf
  <2>3. ReadIn(c) = {s \in ReadIn(buf) : s >= e}
    <3>1. l + 1 \in 0 .. NPkts
      BY <1>5, Sizes
    <3>2. e \in (l + 1) .. NPkts
      BY <1>6, <1>10, <2>1, <3>1, PastIs
    <3>3. \A s \in Q : ~(s >= e)
      BY <1>5, <3>2
    <3> QED
      BY <1>15, <3>3
  <2>4. Promise!Released(Promise!Max(Promise!Pkts(m)) + 1, WithStatus(ReadOut) \cup WithStatus(Dropped))
    BY <1>9, <1>16, <2>2 DEF Promise!Released
  <2>5. Promise!InOrderReady /\ m = MsgOf[buf.startSeqNo]
    BY <1>3, <1>7, <1>17, <2>1 DEF Promise!InOrderReady
  <2>6. /\ WithStatus(ReadOut)' = {s \in WithStatus(ReadOut) : s >= buf.startSeqNo'}
        /\ WithStatus(Dropped)' = {s \in WithStatus(Dropped) : s >= buf.startSeqNo'}
    BY <1>7, <1>8, <1>9, <1>14, <2>3
  <2>7. Promise!ReadInOrder(m)
    BY <1>4, <1>11, <2>4, <2>5, <2>6, Zenon DEF Promise!ReadInOrder
  <2> QED
    BY <1>12, <2>7 DEF Promise!Read
<1>18. CASE N = S
  <2>1. m \in dgram /\ Pkts(m) \subseteq StoredIn(buf)
    BY <1>2, <1>3, <1>18 DEF ReadsFrom
  <2>2. e = Promise!PastFillers(buf.startSeqNo, WithStatus(ReadOut) \cup WithStatus(Dropped) \cup Promise!Pkts(m))
    BY <1>3, <1>6, <1>7, <1>10, SameOperators, SamePastFillers
  <2>3. Promise!Released(buf.startSeqNo, WithStatus(ReadOut) \cup WithStatus(Dropped) \cup Promise!Pkts(m))
    BY <1>9, <1>16, <2>2 DEF Promise!Released
  <2>4. ~Promise!InOrderReady /\ Promise!Complete(m)
    BY <1>3, <1>7, <1>18, <2>1, SameOperators DEF Promise!InOrderReady, Promise!Complete
  <2>5. /\ WithStatus(ReadOut)' = {s \in WithStatus(ReadOut) \cup Promise!Pkts(m) : s >= buf.startSeqNo'}
        /\ WithStatus(Dropped)' = {s \in WithStatus(Dropped) : s >= buf.startSeqNo'}
    BY <1>3, <1>7, <1>8, <1>9, <1>14, <1>15, SameOperators
  <2>6. Promise!ReadOutOfOrder(m)
    BY <1>4, <1>11, <2>1, <2>3, <2>4, <2>5, Zenon DEF Promise!ReadOutOfOrder
  <2> QED
    BY <1>12, <2>6 DEF Promise!Read
<1> QED
  BY <1>17, <1>18

(* A drop request takes what MsgBuffer says.                               *)
LEMMA DropStep ==
  ASSUME BufInv, NEW lo \in Seqs, NEW hi \in Seqs, NEW m, DropMessage(lo, hi, m)
  PROVE  Promise!Drop(lo, hi, m)
<1>1. PICK c : c = buf'
  OBVIOUS
<1>2. PICK S, N, e, G : /\ S = buf.startSeqNo /\ N = NonOf(buf) /\ e = c.startSeqNo
                        /\ G = Gone(buf, lo, hi, m)
  OBVIOUS
<1>3. Keeps(c) /\ DropOutcome(buf, c, G)
  BY <1>1, <1>2, DropIs
<1>4. Placed(buf) /\ Placed(c) /\ buf \in Buffers /\ c \in Buffers /\ dgram' = dgram
  <2>1. dgram' = dgram
    BY Zenon DEF DropMessage
  <2> QED
    BY <1>3, <2>1 DEF BufInv, Keeps, Placed
<1>5. /\ e = Past(S, FillersOf(buf) \cup G)
      /\ \A s \in Int : At(c, s) = IF s < e THEN Empty ELSE IF s \in G THEN Dropped ELSE At(buf, s)
      /\ StoredIn(c) = StoredIn(buf) \ G
      /\ NonOf(c) = IF G # {} /\ Min(G) <= N THEN Extended(e, StoredIn(c)) ELSE N
  BY <1>2, <1>3, Zenon DEF DropOutcome
<1>6. /\ Stored = StoredIn(buf) /\ SeqAt(buf.nonreadPos) = N
      /\ WithStatus(ReadOut) = ReadIn(buf) /\ WithStatus(Dropped) = DropIn(buf)
  BY <1>2, <1>4, MapIs
<1>7. /\ Stored' = StoredIn(c) /\ SeqAt(buf.nonreadPos)' = NonOf(c)
      /\ WithStatus(ReadOut)' = ReadIn(c) /\ WithStatus(Dropped)' = DropIn(c)
  BY <1>1, <1>4, MapNext
<1>8. buf.startSeqNo' = e
  BY <1>1, <1>2
<1>9. FillersOf(buf) = ReadIn(buf) \cup DropIn(buf)
  BY DEF FillersOf, Fillers, ReadIn, DropIn
<1>10. G = Promise!ToDrop(lo, hi, m) /\ G \subseteq Seqs
  <2>1. \A s \in lo .. hi : s \in Seqs
    BY Sizes DEF Seqs
  <2>2. \A s \in lo .. hi : s \notin WithStatus(Dropped) <=> At(buf, s) # Dropped
    BY <1>6, <2>1 DEF DropIn
  <2>3. \A s : Promise!Kept(s) <=> s \in StoredIn(buf) /\ Layout!Solo(s)
    BY <1>6, SameOperators DEF Promise!Kept
  <2>4. \A s : Promise!Fits(s) <=> S <= s /\ s < S + Capacity
    BY <1>2 DEF Promise!Fits
  <2>5. {s \in lo .. hi : Promise!Fits(s) /\ ~Promise!Kept(s) /\ s \notin WithStatus(Dropped)}
        = {s \in lo .. hi : /\ S <= s /\ s < S + Capacity
                            /\ ~(s \in StoredIn(buf) /\ Layout!Solo(s)) /\ At(buf, s) # Dropped}
    BY <2>2, <2>3, <2>4
  <2>6. {s \in Stored : MsgOf[s] = m /\ s < lo /\ ~Promise!Kept(s)}
        = {s \in StoredIn(buf) : MsgOf[s] = m /\ s < lo /\ ~Layout!Solo(s)}
    BY <1>6, <2>3
  <2>7. G = Promise!ToDrop(lo, hi, m)
    BY <1>2, <2>5, <2>6, Zenon DEF Gone, Promise!ToDrop
  <2>8. StoredIn(buf) \subseteq Seqs
    BY DEF StoredIn
  <2>9. G \subseteq Seqs
    BY <1>2, <2>1, <2>8 DEF Gone
  <2> QED
    BY <2>7, <2>9
<1>11. \A s \in Seqs : s \in Int /\ s >= 0
  BY DEF Seqs
<1>12. e \in Int
  <2>1. e \in 0 .. NPkts
    BY <1>2, <1>4, Fields
  <2> QED
    BY <2>1
<1>13. ReadIn(c) = {s \in ReadIn(buf) \ G : s >= e}
  <2>1. ASSUME NEW s \in Seqs PROVE At(c, s) = ReadOut <=> At(buf, s) = ReadOut /\ s \notin G /\ s >= e
    BY <1>5, <1>11, <1>12 DEF Dropped, Empty, ReadOut
  <2> QED
    BY <2>1 DEF ReadIn
<1>14. DropIn(c) = {s \in DropIn(buf) \cup G : s >= e}
  <2>1. ASSUME NEW s \in Seqs PROVE At(c, s) = Dropped <=> (At(buf, s) = Dropped \/ s \in G) /\ s >= e
    BY <1>5, <1>11, <1>12 DEF Dropped, Empty, ReadOut
  <2> QED
    BY <1>10, <2>1 DEF DropIn
<1>15. PICK g : g = Promise!ToDrop(lo, hi, m)
  OBVIOUS
<1>16. e = Promise!PastFillers(buf.startSeqNo, WithStatus(ReadOut) \cup WithStatus(Dropped) \cup g)
  BY <1>2, <1>5, <1>6, <1>9, <1>10, <1>15, SamePastFillers
<1>17. SeqAt(buf.nonreadPos)' = IF g # {} /\ Promise!Min(g) <= SeqAt(buf.nonreadPos)
                                THEN Promise!Extended(e, Stored') ELSE SeqAt(buf.nonreadPos)
  BY <1>5, <1>6, <1>7, <1>10, <1>15, SameOperators, SameExtended
<1>18. /\ Stored' = Stored \ g
       /\ WithStatus(ReadOut)' = {s \in WithStatus(ReadOut) \ g : s >= e}
       /\ WithStatus(Dropped)' = {s \in WithStatus(Dropped) \cup g : s >= e}
  BY <1>5, <1>6, <1>7, <1>10, <1>13, <1>14, <1>15
<1> QED
  BY <1>4, <1>8, <1>15, <1>16, <1>17, <1>18, Zenon DEF Promise!Drop

(* Step by step the circular array does what MsgBuffer says: no packet is  *)
(* lost, no message is read twice or before its time, whatever arrives and *)
(* is dropped in whatever order (buffer_rcv.cpp:155-528).                  *)
THEOREM Refinement == Spec => Implements
<1>1. Init => Promise!BufInit
  <2> SUFFICES ASSUME Init PROVE Promise!BufInit
    OBVIOUS
  <2>1. BufInv
    BY BufInvInit
  <2>2. Placed(buf) /\ dgram \in Mixes
    BY <2>1 DEF BufInv, Keeps
  <2>3. /\ buf.entries = [p \in Positions |-> Empty] /\ buf.startSeqNo = 0
        /\ buf.startPos = 0 /\ buf.nonreadPos = 0
    BY DEF Init
  <2>4. Stored = {} /\ WithStatus(ReadOut) = {} /\ WithStatus(Dropped) = {}
    BY <2>3 DEF Stored, WithStatus, HasUnit, Empty, ReadOut, Dropped
  <2>5. SeqAt(buf.nonreadPos) = 0
    <3>1. 0 \in Positions /\ OffPos(0, 0) = 0
      <4>1. 0 \in Positions
        BY Sizes
      <4> QED
        BY <4>1, OffIs
    <3> QED
      BY <2>3, <3>1 DEF SeqAt
  <2> QED
    BY <2>2, <2>3, <2>4, <2>5 DEF Promise!BufInit
<1>2. BufInv /\ [Next]_vars => [Promise!BufNext]_(Promise!bufVars)
  <2> SUFFICES ASSUME BufInv, [Next]_vars
               PROVE  Promise!BufNext \/ UNCHANGED Promise!bufVars
    OBVIOUS
  <2>1. Layout!Seqs = Seqs /\ Promise!Seqs = Seqs
    BY SameOperators DEF Layout!Seqs, Seqs
  <2>2. CASE \E s \in Layout!Seqs : Insert(s) \/ InsertRefused(s) \/ DropMessage(s, s, 0)
    <3>1. PICK s \in Seqs : Insert(s) \/ InsertRefused(s) \/ DropMessage(s, s, 0)
      BY <2>1, <2>2
    <3>2. CASE Insert(s)
      <4>1. Promise!Store(s)
        BY <3>2, StoreStep
      <4> QED
        BY <2>1, <4>1 DEF Promise!BufNext
    <3>3. CASE InsertRefused(s)
      BY <3>3, RefusedStep
    <3>4. CASE DropMessage(s, s, 0)
      <4>1. Promise!Drop(s, s, 0)
        BY <3>4, DropStep
      <4> QED
        BY <2>1, <4>1 DEF Promise!BufNext
    <3> QED
      BY <3>1, <3>2, <3>3, <3>4
  <2>3. CASE ReadMessage
    BY <2>3, ReadStep DEF Promise!BufNext
  <2>4. CASE \E m \in dgram : \E lo \in Pkts(m) : DropMessage(lo, Max(Pkts(m)), m)
    <3>1. PICK m \in dgram : \E lo \in Pkts(m) : DropMessage(lo, Max(Pkts(m)), m)
      BY <2>4
    <3>2. PICK lo \in Pkts(m) : DropMessage(lo, Max(Pkts(m)), m)
      BY <3>1
    <3>3. lo \in Seqs /\ Max(Pkts(m)) \in Seqs
      BY MsgSpan DEF LastOf
    <3>4. Promise!Drop(lo, Max(Pkts(m)), m)
      BY <3>2, <3>3, DropStep
    <3>5. Promise!Drop(lo, Promise!Max(Promise!Pkts(m)), m) /\ lo \in Promise!Pkts(m)
      BY <3>4, SameOperators
    <3> QED
      BY <3>5 DEF Promise!BufNext
  <2>5. CASE UNCHANGED vars
    BY <2>5 DEF vars, Promise!bufVars, Stored, WithStatus, SeqAt, HasUnit
  <2> QED
    BY <2>2, <2>3, <2>4, <2>5 DEF Next
<1> QED
  BY <1>1, <1>2, BufInvHolds, PTL DEF Spec, Implements, Promise!BufSpec
=============================================================================
