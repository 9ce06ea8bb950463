----------------------------- MODULE TunnelProofs ------------------------------
(***************************************************************************)
(* For any number of connections and ids, any length of their streams and  *)
(* the loss of the SRT connection at any moment: a target receives the     *)
(* byte stream of its own connection and all of it before its Fin, also    *)
(* while ids are used again.  As long as no id is used twice the same      *)
(* holds of the application, no Open is refused, and a Rst is never sent   *)
(* for a session that runs.                                                *)
(***************************************************************************)
EXTENDS Tunnel, WellFoundedInduction, FiniteSetTheorems, SequenceTheorems, TLAPS

(* A nonempty set of naturals has a least element. *)
LEMMA LeastNat ==
  ASSUME NEW T, T \subseteq Nat, T # {}
  PROVE  \E x \in T : \A y \in T : x <= y
<1>1. PICK x \in T : \A y \in T : ~(<<y, x>> \in OpToRel(<, Nat))
  BY NatLessThanWellFounded, WFMin
<1>2. \A y \in T : <<y, x>> \in Nat \X Nat /\ (<<y, x>> \in OpToRel(<, Nat) <=> y < x)
  BY DEF OpToRel
<1>3. \A y \in T : ~(y < x)
  BY <1>1, <1>2, Zenon
<1> QED
  BY <1>3
-----------------------------------------------------------------------------
(* The stream of connection c on its way: w was written, q is under way,   *)
(* and s Data frames were sent.  What is under way continues what was      *)
(* written, without a hole before any Data frame and none before the Fin.  *)
Own(m, c, t) == m.conn = c /\ m.ftype = t
IsData(m, c, k) == m.conn = c /\ m.ftype = "Data" /\ m.n = k
Before(q, j, c, k) == \E i \in 1 .. (j - 1) : IsData(q[i], c, k)

Flow(c, w, q, s) ==
  /\ Len(w) <= s
  /\ \A j \in 1 .. Len(q) : Own(q[j], c, "Data") => Len(w) < q[j].n /\ q[j].n <= s
  /\ \A j \in 1 .. Len(q) : Own(q[j], c, "Data") =>
       \A k \in 1 .. (q[j].n - 1) : k <= Len(w) \/ Before(q, j, c, k)
  /\ \A i, j \in 1 .. Len(q) :
       i < j /\ Own(q[i], c, "Data") /\ Own(q[j], c, "Data") => q[i].n < q[j].n
  /\ \A j \in 1 .. Len(q) : Own(q[j], c, "Fin") =>
       \A k \in 1 .. s : k <= Len(w) \/ Before(q, j, c, k)

(* Nothing sent is missing. *)
Whole(c, w, q, s) == \A k \in 1 .. s : k <= Len(w) \/ Before(q, Len(q) + 1, c, k)

(* A frame of another connection that uses the same id comes only after    *)
(* the Close of c.                                                         *)
ClosedBefore(q, j, c) == \E i \in 1 .. (j - 1) : Own(q[i], c, "Close")
Guarded(c, sid, q) ==
  \A j \in 1 .. Len(q) : q[j].sid = sid /\ q[j].conn # c => ClosedBefore(q, j, c)

(* w is the stream of c from its first frame on. *)
Numbered(w, c) == \A i \in 1 .. Len(w) : w[i].conn = c /\ w[i].n = i

NoFin(q, c) == \A j \in 1 .. Len(q) : ~Own(q[j], c, "Fin")

-----------------------------------------------------------------------------
(* Streams.                                                                *)

(* The end of what is under way is lost. *)
LEMMA FlowCut ==
  ASSUME NEW c, NEW w, NEW q, NEW r, NEW s,
         Len(q) \in Nat, Len(r) \in Nat, Len(r) <= Len(q),
         \A i \in 1 .. Len(r) : r[i] = q[i],
         Flow(c, w, q, s)
  PROVE  Flow(c, w, r, s)
<1> DEFINE lq == Len(q)
           lr == Len(r)
           lw == Len(w)
<1>1. lq \in Nat /\ lr \in Nat /\ lr <= lq /\ \A i \in 1 .. lr : r[i] = q[i]
  OBVIOUS
<1>2. /\ lw <= s
      /\ \A j \in 1 .. lq : Own(q[j], c, "Data") => lw < q[j].n /\ q[j].n <= s
      /\ \A j \in 1 .. lq : Own(q[j], c, "Data") =>
           \A k \in 1 .. (q[j].n - 1) : k <= lw \/ Before(q, j, c, k)
      /\ \A i, j \in 1 .. lq : i < j /\ Own(q[i], c, "Data") /\ Own(q[j], c, "Data") => q[i].n < q[j].n
      /\ \A j \in 1 .. lq : Own(q[j], c, "Fin") => \A k \in 1 .. s : k <= lw \/ Before(q, j, c, k)
  BY DEF Flow
<1> HIDE DEF lq, lr, lw
<1>3. \A j \in 1 .. lr : j \in 1 .. lq /\ \A i \in 1 .. (j - 1) : i \in 1 .. lr
  BY <1>1
<1>4. \A j \in 1 .. lr : \A k : Before(q, j, c, k) => Before(r, j, c, k)
  BY <1>1, <1>3 DEF Before
<1>5. /\ lw <= s
      /\ \A j \in 1 .. lr : Own(r[j], c, "Data") => lw < r[j].n /\ r[j].n <= s
      /\ \A j \in 1 .. lr : Own(r[j], c, "Data") =>
           \A k \in 1 .. (r[j].n - 1) : k <= lw \/ Before(r, j, c, k)
      /\ \A i, j \in 1 .. lr : i < j /\ Own(r[i], c, "Data") /\ Own(r[j], c, "Data") => r[i].n < r[j].n
      /\ \A j \in 1 .. lr : Own(r[j], c, "Fin") => \A k \in 1 .. s : k <= lw \/ Before(r, j, c, k)
  BY <1>1, <1>2, <1>3, <1>4, Zenon
<1> QED
  BY <1>5 DEF Flow, lr, lw

(* A frame that is no Data of c leaves, at place p. *)
LEMMA FlowDrop ==
  ASSUME NEW c, NEW w, NEW q, NEW r, NEW s, NEW p \in 1 .. Len(q),
         Len(q) \in Nat, Len(r) = Len(q) - 1,
         \A i \in 1 .. (p - 1) : r[i] = q[i],
         \A i \in p .. Len(r) : r[i] = q[i + 1],
         ~Own(q[p], c, "Data"),
         Flow(c, w, q, s)
  PROVE  Flow(c, w, r, s) /\ (Whole(c, w, q, s) => Whole(c, w, r, s))
<1> DEFINE lq == Len(q)
           lr == Len(r)
           lw == Len(w)
           f(i) == IF i < p THEN i ELSE i + 1
<1>1. lq \in Nat /\ lr \in Nat /\ lr = lq - 1 /\ p \in 1 .. lq
  OBVIOUS
<1>2. /\ lw <= s
      /\ \A j \in 1 .. lq : Own(q[j], c, "Data") => lw < q[j].n /\ q[j].n <= s
      /\ \A j \in 1 .. lq : Own(q[j], c, "Data") =>
           \A k \in 1 .. (q[j].n - 1) : k <= lw \/ Before(q, j, c, k)
      /\ \A i, j \in 1 .. lq : i < j /\ Own(q[i], c, "Data") /\ Own(q[j], c, "Data") => q[i].n < q[j].n
      /\ \A j \in 1 .. lq : Own(q[j], c, "Fin") => \A k \in 1 .. s : k <= lw \/ Before(q, j, c, k)
  BY DEF Flow
<1>3. /\ \A i \in 1 .. (p - 1) : r[i] = q[i]
      /\ \A i \in p .. lr : r[i] = q[i + 1]
  OBVIOUS
<1>4. Whole(c, w, q, s) <=> \A k \in 1 .. s : k <= lw \/ Before(q, lq + 1, c, k)
  BY DEF Whole
<1> HIDE DEF lq, lr, lw
<1>5. /\ \A j \in 1 .. lr : f(j) \in 1 .. lq /\ r[j] = q[f(j)]
      /\ \A i, j \in 1 .. lr : i < j => f(i) < f(j)
      /\ f(lr + 1) = lq + 1
  BY <1>1, <1>3
<1>6. \A j \in 1 .. (lr + 1) : \A k : Before(q, f(j), c, k) => Before(r, j, c, k)
  <2> SUFFICES ASSUME NEW j \in 1 .. (lr + 1), NEW k,
                      NEW i \in 1 .. (f(j) - 1), IsData(q[i], c, k)
               PROVE  Before(r, j, c, k)
    BY DEF Before
  <2>1. i # p
    BY DEF IsData, Own
  <2>2. CASE i < p
    <3>1. i \in 1 .. (j - 1) /\ i \in 1 .. (p - 1)
      BY <1>1, <2>2
    <3>2. r[i] = q[i]
      BY <1>3, <3>1
    <3> QED
      BY <3>1, <3>2 DEF Before
  <2>3. CASE i > p
    <3>1. i - 1 \in 1 .. (j - 1) /\ i - 1 \in p .. lr /\ (i - 1) + 1 = i
      BY <1>1, <2>3
    <3>2. r[i - 1] = q[i]
      BY <1>3, <3>1
    <3> QED
      BY <3>1, <3>2 DEF Before
  <2> QED
    BY <1>1, <2>1, <2>2, <2>3
<1>7. \A j \in 1 .. lr : j \in 1 .. (lr + 1)
  BY <1>1
<1> HIDE DEF f
<1>8. /\ lw <= s
      /\ \A j \in 1 .. lr : Own(r[j], c, "Data") => lw < r[j].n /\ r[j].n <= s
      /\ \A j \in 1 .. lr : Own(r[j], c, "Data") =>
           \A k \in 1 .. (r[j].n - 1) : k <= lw \/ Before(r, j, c, k)
      /\ \A i, j \in 1 .. lr : i < j /\ Own(r[i], c, "Data") /\ Own(r[j], c, "Data") => r[i].n < r[j].n
      /\ \A j \in 1 .. lr : Own(r[j], c, "Fin") => \A k \in 1 .. s : k <= lw \/ Before(r, j, c, k)
  BY <1>2, <1>5, <1>6, <1>7, Zenon
<1>9. Flow(c, w, r, s)
  BY <1>8 DEF Flow, lr, lw
<1>10. ASSUME Whole(c, w, q, s) PROVE Whole(c, w, r, s)
  <2>1. lr + 1 \in 1 .. (lr + 1)
    BY <1>1
  <2>2. \A k \in 1 .. s : k <= lw \/ Before(r, lr + 1, c, k)
    BY <1>4, <1>5, <1>6, <1>10, <2>1, Zenon
  <2> QED
    BY <2>2 DEF Whole, lr, lw
<1> QED
  BY <1>9, <1>10

(* Frames that are neither Data nor Fin change their kind. *)
LEMMA FlowSame ==
  ASSUME NEW c, NEW w, NEW q, NEW r, NEW s,
         Len(q) \in Nat, Len(r) = Len(q),
         \A i \in 1 .. Len(q) : r[i] = q[i] \/ (r[i].ftype \notin {"Data", "Fin"} /\ q[i].ftype # "Data"),
         Flow(c, w, q, s)
  PROVE  Flow(c, w, r, s) /\ (Whole(c, w, q, s) => Whole(c, w, r, s))
<1> DEFINE lq == Len(q)
           lw == Len(w)
<1>1. lq \in Nat /\ Len(r) = lq
  OBVIOUS
<1>2. /\ lw <= s
      /\ \A j \in 1 .. lq : Own(q[j], c, "Data") => lw < q[j].n /\ q[j].n <= s
      /\ \A j \in 1 .. lq : Own(q[j], c, "Data") =>
           \A k \in 1 .. (q[j].n - 1) : k <= lw \/ Before(q, j, c, k)
      /\ \A i, j \in 1 .. lq : i < j /\ Own(q[i], c, "Data") /\ Own(q[j], c, "Data") => q[i].n < q[j].n
      /\ \A j \in 1 .. lq : Own(q[j], c, "Fin") => \A k \in 1 .. s : k <= lw \/ Before(q, j, c, k)
  BY DEF Flow
<1>3. \A i \in 1 .. lq : /\ Own(r[i], c, "Data") => r[i] = q[i]
                         /\ Own(r[i], c, "Fin") => r[i] = q[i]
                         /\ \A k : IsData(q[i], c, k) => IsData(r[i], c, k)
  BY DEF Own, IsData
<1>4. Whole(c, w, q, s) <=> \A k \in 1 .. s : k <= lw \/ Before(q, lq + 1, c, k)
  BY DEF Whole
<1> HIDE DEF lq, lw
<1>5. \A j \in 1 .. (lq + 1) : \A i \in 1 .. (j - 1) : i \in 1 .. lq
  BY <1>1
<1>6. \A j \in 1 .. (lq + 1) : \A k : Before(q, j, c, k) => Before(r, j, c, k)
  BY <1>3, <1>5 DEF Before
<1>7. lq + 1 \in 1 .. (lq + 1) /\ \A j \in 1 .. lq : j \in 1 .. (lq + 1)
  BY <1>1
<1>8. /\ lw <= s
      /\ \A j \in 1 .. lq : Own(r[j], c, "Data") => lw < r[j].n /\ r[j].n <= s
      /\ \A j \in 1 .. lq : Own(r[j], c, "Data") =>
           \A k \in 1 .. (r[j].n - 1) : k <= lw \/ Before(r, j, c, k)
      /\ \A i, j \in 1 .. lq : i < j /\ Own(r[i], c, "Data") /\ Own(r[j], c, "Data") => r[i].n < r[j].n
      /\ \A j \in 1 .. lq : Own(r[j], c, "Fin") => \A k \in 1 .. s : k <= lw \/ Before(r, j, c, k)
  BY <1>2, <1>3, <1>6, <1>7, Zenon
<1>9. Flow(c, w, r, s)
  BY <1>1, <1>8 DEF Flow, lw
<1>10. ASSUME Whole(c, w, q, s) PROVE Whole(c, w, r, s)
  <2>1. \A k \in 1 .. s : k <= lw \/ Before(r, lq + 1, c, k)
    BY <1>4, <1>6, <1>7, <1>10, Zenon
  <2> QED
    BY <1>1, <2>1 DEF Whole, lw
<1> QED
  BY <1>9, <1>10

(* Something was read and not sent, since the SRT connection is lost or    *)
(* the id is no longer registered.                                         *)
LEMMA FlowGrow ==
  ASSUME NEW c, NEW w, NEW q, NEW s \in Nat, Len(q) \in Nat, Len(w) \in Nat,
         \A i \in 1 .. Len(q) : q[i].n \in Nat,
         NoFin(q, c), Flow(c, w, q, s)
  PROVE  Flow(c, w, q, s + 1)
<1>1. Len(w) <= s + 1
  BY DEF Flow
<1>2. \A j \in 1 .. Len(q) : Own(q[j], c, "Data") => Len(w) < q[j].n /\ q[j].n <= s + 1
  <2>1. \A j \in 1 .. Len(q) : Own(q[j], c, "Data") => Len(w) < q[j].n /\ q[j].n <= s
    BY DEF Flow
  <2> QED
    BY <2>1
<1> QED
  BY <1>1, <1>2 DEF Flow, NoFin

(* A frame x is put at the end: r is q with x. *)
LEMMA BeforeLast ==
  ASSUME NEW c, NEW q, NEW r, NEW k, Len(q) \in Nat, Len(r) = Len(q) + 1,
         \A i \in 1 .. Len(q) : r[i] = q[i]
  PROVE  /\ \A j \in 1 .. (Len(q) + 1) : Before(q, j, c, k) <=> Before(r, j, c, k)
         /\ Before(r, Len(r) + 1, c, k) <=> Before(q, Len(q) + 1, c, k) \/ IsData(r[Len(q) + 1], c, k)
<1> DEFINE lq == Len(q)
<1>1. lq \in Nat /\ Len(r) = lq + 1 /\ \A i \in 1 .. lq : r[i] = q[i]
  OBVIOUS
<1> HIDE DEF lq
<1>2. \A j \in 1 .. (lq + 1) : \A i \in 1 .. (j - 1) : i \in 1 .. lq
  BY <1>1
<1>3. \A j \in 1 .. (lq + 1) : Before(q, j, c, k) <=> Before(r, j, c, k)
  BY <1>1, <1>2 DEF Before
<1>4. /\ (lq + 1) - 1 = lq /\ ((lq + 1) + 1) - 1 = lq + 1
      /\ \A i : i \in 1 .. (lq + 1) <=> i \in 1 .. lq \/ i = lq + 1
  BY <1>1
<1>5. Before(r, (lq + 1) + 1, c, k) <=> Before(q, lq + 1, c, k) \/ IsData(r[lq + 1], c, k)
  <2>1. Before(r, (lq + 1) + 1, c, k) <=> \E i \in 1 .. (lq + 1) : IsData(r[i], c, k)
    BY <1>4 DEF Before
  <2>2. Before(q, lq + 1, c, k) <=> \E i \in 1 .. lq : IsData(q[i], c, k)
    BY <1>4 DEF Before
  <2> QED
    BY <1>1, <1>4, <2>1, <2>2, Zenon
<1> QED
  BY <1>1, <1>3, <1>5 DEF lq

(* It is no Data of c, and a Fin of c only if nothing is missing. *)
LEMMA FlowOther ==
  ASSUME NEW c, NEW w, NEW q, NEW r, NEW s, Len(q) \in Nat, Len(r) = Len(q) + 1,
         \A i \in 1 .. Len(q) : r[i] = q[i],
         ~Own(r[Len(r)], c, "Data"),
         Own(r[Len(r)], c, "Fin") => Whole(c, w, q, s),
         Flow(c, w, q, s)
  PROVE  Flow(c, w, r, s) /\ (Whole(c, w, q, s) => Whole(c, w, r, s))
<1> DEFINE lq == Len(q)
           lw == Len(w)
<1>1. lq \in Nat /\ Len(r) = lq + 1 /\ (\A i \in 1 .. lq : r[i] = q[i]) /\ ~Own(r[lq + 1], c, "Data")
  OBVIOUS
<1>2. /\ lw <= s
      /\ \A j \in 1 .. lq : Own(q[j], c, "Data") => lw < q[j].n /\ q[j].n <= s
      /\ \A j \in 1 .. lq : Own(q[j], c, "Data") =>
           \A k \in 1 .. (q[j].n - 1) : k <= lw \/ Before(q, j, c, k)
      /\ \A i, j \in 1 .. lq : i < j /\ Own(q[i], c, "Data") /\ Own(q[j], c, "Data") => q[i].n < q[j].n
      /\ \A j \in 1 .. lq : Own(q[j], c, "Fin") => \A k \in 1 .. s : k <= lw \/ Before(q, j, c, k)
  BY DEF Flow
<1>3. Whole(c, w, q, s) <=> \A k \in 1 .. s : k <= lw \/ Before(q, lq + 1, c, k)
  BY DEF Whole
<1>4. /\ \A k : \A j \in 1 .. (lq + 1) : Before(q, j, c, k) <=> Before(r, j, c, k)
      /\ \A k : Before(q, lq + 1, c, k) => Before(r, (lq + 1) + 1, c, k)
  BY BeforeLast
<1>5. Own(r[lq + 1], c, "Fin") => \A k \in 1 .. s : k <= lw \/ Before(q, lq + 1, c, k)
  BY <1>3
<1> HIDE DEF lq, lw
<1>6. /\ lq + 1 \in 1 .. (lq + 1)
      /\ \A j \in 1 .. (lq + 1) : j \in 1 .. lq \/ j = lq + 1
  BY <1>1
<1>7. /\ lw <= s
      /\ \A j \in 1 .. (lq + 1) : Own(r[j], c, "Data") => lw < r[j].n /\ r[j].n <= s
      /\ \A j \in 1 .. (lq + 1) : Own(r[j], c, "Data") =>
           \A k \in 1 .. (r[j].n - 1) : k <= lw \/ Before(r, j, c, k)
      /\ \A i, j \in 1 .. (lq + 1) : i < j /\ Own(r[i], c, "Data") /\ Own(r[j], c, "Data") => r[i].n < r[j].n
      /\ \A j \in 1 .. (lq + 1) : Own(r[j], c, "Fin") => \A k \in 1 .. s : k <= lw \/ Before(r, j, c, k)
  BY <1>1, <1>2, <1>4, <1>5, <1>6, Zenon
<1>8. Flow(c, w, r, s)
  BY <1>1, <1>7 DEF Flow, lw
<1>9. ASSUME Whole(c, w, q, s) PROVE Whole(c, w, r, s)
  <2>1. \A k \in 1 .. s : k <= lw \/ Before(r, (lq + 1) + 1, c, k)
    BY <1>3, <1>4, <1>9, Zenon
  <2> QED
    BY <1>1, <2>1 DEF Whole, lw
<1> QED
  BY <1>8, <1>9

(* It is the next Data of c. *)
LEMMA FlowData ==
  ASSUME NEW c, NEW w, NEW q, NEW r, NEW s \in Nat, Len(q) \in Nat, Len(r) = Len(q) + 1, Len(w) \in Nat,
         \A i \in 1 .. Len(q) : r[i] = q[i],
         \A i \in 1 .. Len(q) : q[i].n \in Nat,
         IsData(r[Len(r)], c, s + 1),
         NoFin(q, c), Whole(c, w, q, s), Flow(c, w, q, s)
  PROVE  Flow(c, w, r, s + 1) /\ Whole(c, w, r, s + 1)
<1> DEFINE lq == Len(q)
           lw == Len(w)
<1>1. lq \in Nat /\ Len(r) = lq + 1 /\ (\A i \in 1 .. lq : r[i] = q[i]) /\ IsData(r[lq + 1], c, s + 1) /\ lw \in Nat
  OBVIOUS
<1>2. /\ lw <= s
      /\ \A j \in 1 .. lq : Own(q[j], c, "Data") => lw < q[j].n /\ q[j].n <= s
      /\ \A j \in 1 .. lq : Own(q[j], c, "Data") =>
           \A k \in 1 .. (q[j].n - 1) : k <= lw \/ Before(q, j, c, k)
      /\ \A i, j \in 1 .. lq : i < j /\ Own(q[i], c, "Data") /\ Own(q[j], c, "Data") => q[i].n < q[j].n
      /\ \A j \in 1 .. lq : ~Own(q[j], c, "Fin")
      /\ \A j \in 1 .. lq : q[j].n \in Nat
  BY DEF Flow, NoFin
<1>3. \A k \in 1 .. s : k <= lw \/ Before(q, lq + 1, c, k)
  BY DEF Whole
<1>4. /\ \A k : \A j \in 1 .. (lq + 1) : Before(q, j, c, k) <=> Before(r, j, c, k)
      /\ \A k : Before(r, (lq + 1) + 1, c, k) <=> Before(q, lq + 1, c, k) \/ IsData(r[lq + 1], c, k)
  BY BeforeLast
<1> HIDE DEF lq, lw
<1>5. /\ \A j \in 1 .. (lq + 1) : j \in 1 .. lq \/ j = lq + 1
      /\ \A i, j \in 1 .. (lq + 1) : i < j => i \in 1 .. lq
      /\ \A k \in 1 .. (s + 1) : k \in 1 .. s \/ k = s + 1
      /\ lq + 1 \in 1 .. (lq + 1)
      /\ (s + 1) - 1 = s
  BY <1>1
<1>6. r[lq + 1].n = s + 1 /\ Own(r[lq + 1], c, "Data") /\ ~Own(r[lq + 1], c, "Fin")
  BY <1>1 DEF IsData, Own
<1>7. lw <= s + 1 /\ lw < s + 1 /\ s + 1 <= s + 1
  BY <1>1, <1>2
<1>8. \A j \in 1 .. lq : Own(q[j], c, "Data") => lw < q[j].n /\ q[j].n <= s + 1 /\ q[j].n < s + 1
  BY <1>2
<1>9. \A j \in 1 .. (lq + 1) : Own(r[j], c, "Data") => lw < r[j].n /\ r[j].n <= s + 1
  BY <1>1, <1>5, <1>6, <1>7, <1>8, Zenon
<1>10. \A j \in 1 .. (lq + 1) : Own(r[j], c, "Data") =>
           \A k \in 1 .. (r[j].n - 1) : k <= lw \/ Before(r, j, c, k)
  <2> SUFFICES ASSUME NEW j \in 1 .. (lq + 1), Own(r[j], c, "Data"), NEW k \in 1 .. (r[j].n - 1)
               PROVE  k <= lw \/ Before(r, j, c, k)
    OBVIOUS
  <2>1. CASE j \in 1 .. lq
    BY <1>1, <1>2, <1>4, <2>1, Zenon
  <2>2. CASE j = lq + 1
    <3>1. k \in 1 .. s
      BY <1>5, <1>6, <2>2
    <3> QED
      BY <1>3, <1>4, <1>5, <2>2, <3>1, Zenon
  <2> QED
    BY <1>5, <2>1, <2>2
<1>11. \A i, j \in 1 .. (lq + 1) : i < j /\ Own(r[i], c, "Data") /\ Own(r[j], c, "Data") => r[i].n < r[j].n
  <2> SUFFICES ASSUME NEW i \in 1 .. (lq + 1), NEW j \in 1 .. (lq + 1), i < j,
                      Own(r[i], c, "Data"), Own(r[j], c, "Data")
               PROVE  r[i].n < r[j].n
    OBVIOUS
  <2>0. i \in 1 .. lq
    BY <1>5
  <2>1. CASE j \in 1 .. lq
    BY <1>1, <1>2, <2>0, <2>1, Zenon
  <2>2. CASE j = lq + 1
    BY <1>1, <1>6, <1>8, <2>0, <2>2
  <2> QED
    BY <1>5, <2>1, <2>2
<1>12. \A j \in 1 .. (lq + 1) : ~Own(r[j], c, "Fin")
  BY <1>1, <1>2, <1>5, <1>6, Zenon
<1>13. Flow(c, w, r, s + 1)
  BY <1>1, <1>7, <1>9, <1>10, <1>11, <1>12 DEF Flow, lw
<1>14. \A k \in 1 .. (s + 1) : k <= lw \/ Before(r, (lq + 1) + 1, c, k)
  <2>1. Before(r, (lq + 1) + 1, c, s + 1)
    BY <1>1, <1>4, Zenon
  <2> QED
    BY <1>3, <1>4, <1>5, <2>1, Zenon
<1>15. Whole(c, w, r, s + 1)
  BY <1>1, <1>14 DEF Whole, lw
<1> QED
  BY <1>13, <1>15

(* The first frame under way is Data of c and is written: v is w with it,  *)
(* r is q without it.                                                      *)
LEMMA FlowTake ==
  ASSUME NEW c, NEW w, NEW v, NEW q, NEW r, NEW s \in Nat, Len(q) \in Nat, Len(q) > 0, Len(r) = Len(q) - 1,
         Len(w) \in Nat, Len(v) = Len(w) + 1, \A i \in 1 .. Len(w) : v[i] = w[i], v[Len(v)] = q[1],
         \A i \in 1 .. Len(r) : r[i] = q[i + 1],
         \A i \in 1 .. Len(q) : q[i].n \in Nat,
         Own(q[1], c, "Data"), Numbered(w, c), Flow(c, w, q, s)
  PROVE  Numbered(v, c) /\ Flow(c, v, r, s) /\ (Whole(c, w, q, s) => Whole(c, v, r, s))
<1> DEFINE lq == Len(q)
           lr == Len(r)
           lw == Len(w)
<1>1. /\ lq \in Nat /\ lq > 0 /\ lr = lq - 1 /\ lr \in Nat /\ lw \in Nat /\ Len(v) = lw + 1 /\ v[lw + 1] = q[1]
      /\ \A i \in 1 .. lr : r[i] = q[i + 1]
      /\ \A i \in 1 .. lw : v[i] = w[i]
  OBVIOUS
<1>2. /\ lw <= s
      /\ \A j \in 1 .. lq : Own(q[j], c, "Data") => lw < q[j].n /\ q[j].n <= s
      /\ \A j \in 1 .. lq : Own(q[j], c, "Data") =>
           \A k \in 1 .. (q[j].n - 1) : k <= lw \/ Before(q, j, c, k)
      /\ \A i, j \in 1 .. lq : i < j /\ Own(q[i], c, "Data") /\ Own(q[j], c, "Data") => q[i].n < q[j].n
      /\ \A j \in 1 .. lq : Own(q[j], c, "Fin") => \A k \in 1 .. s : k <= lw \/ Before(q, j, c, k)
      /\ \A j \in 1 .. lq : q[j].n \in Nat
      /\ \A i \in 1 .. lw : w[i].conn = c /\ w[i].n = i
  BY DEF Flow, Numbered
<1>3. Whole(c, w, q, s) <=> \A k \in 1 .. s : k <= lw \/ Before(q, lq + 1, c, k)
  BY DEF Whole
<1> HIDE DEF lq, lr, lw
<1>4. PICK n \in Nat : n = q[1].n
  <2>1. 1 \in 1 .. lq
    BY <1>1
  <2> QED
    BY <1>2, <2>1
<1>5. n = lw + 1
  <2>1. 1 \in 1 .. lq /\ \A k : ~Before(q, 1, c, k)
    BY <1>1 DEF Before
  <2>2. lw < n /\ n <= s /\ \A k \in 1 .. (n - 1) : k <= lw
    BY <1>2, <1>4, <2>1
  <2>3. n - 1 > 0 => n - 1 \in 1 .. (n - 1)
    BY <1>4
  <2>4. n - 1 <= lw
    BY <1>1, <1>4, <2>2, <2>3
  <2> QED
    BY <1>1, <1>4, <2>2, <2>4
<1>6. Numbered(v, c)
  <2>1. \A i \in 1 .. (lw + 1) : i \in 1 .. lw \/ i = lw + 1
    BY <1>1
  <2>2. q[1].conn = c /\ q[1].n = lw + 1
    BY <1>4, <1>5 DEF Own
  <2>3. \A i \in 1 .. (lw + 1) : v[i].conn = c /\ v[i].n = i
    BY <1>1, <1>2, <2>1, <2>2, Zenon
  <2> QED
    BY <1>1, <2>3 DEF Numbered
<1>7. /\ \A j \in 1 .. lr : j + 1 \in 1 .. lq /\ 1 < j + 1 /\ r[j] = q[j + 1]
      /\ \A i, j \in 1 .. lr : i < j => i + 1 < j + 1
      /\ lr + 1 = lq /\ 1 \in 1 .. lq
  BY <1>1
<1>8. \A j \in 1 .. (lr + 1) : \A k : Before(q, j + 1, c, k) => k = n \/ Before(r, j, c, k)
  <2> SUFFICES ASSUME NEW j \in 1 .. (lr + 1), NEW k,
                      NEW i \in 1 .. ((j + 1) - 1), IsData(q[i], c, k), k # n
               PROVE  Before(r, j, c, k)
    BY DEF Before
  <2>1. i # 1
    BY <1>4 DEF IsData
  <2>2. i - 1 \in 1 .. (j - 1) /\ i - 1 \in 1 .. lr /\ (i - 1) + 1 = i
    BY <1>1, <2>1
  <2>3. r[i - 1] = q[i]
    BY <1>1, <2>2
  <2> QED
    BY <2>2, <2>3 DEF Before
<1>9. \A j \in 1 .. lr : j \in 1 .. (lr + 1)
  BY <1>1
<1>10. \A k \in Int : k <= lw \/ k = n => k <= lw + 1
  BY <1>1, <1>5
<1>11. \A j \in 1 .. (lr + 1) : \A k \in Int : k <= lw \/ Before(q, j + 1, c, k) => k <= lw + 1 \/ Before(r, j, c, k)
  BY <1>8, <1>10, Zenon
<1>12. lw + 1 <= s
  <2>1. q[1].n <= s
    BY <1>2, <1>7
  <2> QED
    BY <1>4, <1>5, <2>1
<1>13. \A j \in 1 .. lr : Own(r[j], c, "Data") => lw + 1 < r[j].n /\ r[j].n <= s
  <2> SUFFICES ASSUME NEW j \in 1 .. lr, Own(q[j + 1], c, "Data") PROVE lw + 1 < q[j + 1].n /\ q[j + 1].n <= s
    BY <1>7
  <2>1. q[1].n < q[j + 1].n /\ q[j + 1].n <= s
    BY <1>2, <1>7
  <2> QED
    BY <1>4, <1>5, <2>1
<1>14. \A j \in 1 .. lr : Own(r[j], c, "Data") =>
           \A k \in 1 .. (r[j].n - 1) : k <= lw + 1 \/ Before(r, j, c, k)
  <2> SUFFICES ASSUME NEW j \in 1 .. lr, Own(q[j + 1], c, "Data"), NEW k \in 1 .. (q[j + 1].n - 1)
               PROVE  k <= lw + 1 \/ Before(r, j, c, k)
    BY <1>7
  <2>1. k <= lw \/ Before(q, j + 1, c, k)
    BY <1>2, <1>7
  <2>2. k \in Int
    OBVIOUS
  <2> QED
    BY <1>9, <1>11, <2>1, <2>2, Zenon
<1>15. \A i, j \in 1 .. lr : i < j /\ Own(r[i], c, "Data") /\ Own(r[j], c, "Data") => r[i].n < r[j].n
  BY <1>2, <1>7, Zenon
<1>16. \A j \in 1 .. lr : Own(r[j], c, "Fin") => \A k \in 1 .. s : k <= lw + 1 \/ Before(r, j, c, k)
  <2>1. \A k \in 1 .. s : k \in Int
    OBVIOUS
  <2> QED
    BY <1>2, <1>7, <1>9, <1>11, <2>1, Zenon
<1>17. Flow(c, v, r, s)
  BY <1>1, <1>12, <1>13, <1>14, <1>15, <1>16 DEF Flow, lr
<1>18. ASSUME Whole(c, w, q, s) PROVE Whole(c, v, r, s)
  <2>1. lr + 1 \in 1 .. (lr + 1) /\ \A k \in 1 .. s : k \in Int
    BY <1>1
  <2>2. \A k \in 1 .. s : k <= lw \/ Before(q, (lr + 1) + 1, c, k)
    BY <1>3, <1>7, <1>18
  <2>3. \A k \in 1 .. s : k <= lw + 1 \/ Before(r, lr + 1, c, k)
    BY <1>11, <2>1, <2>2, Zenon
  <2> QED
    BY <1>1, <2>3 DEF Whole, lr
<1> QED
  BY <1>6, <1>17, <1>18

(* The first frame under way is the Fin of c: all was written. *)
LEMMA FlowFin ==
  ASSUME NEW c, NEW w, NEW q, NEW s \in Nat, Len(q) \in Nat, Len(q) > 0, Len(w) \in Nat,
         Own(q[1], c, "Fin"), Flow(c, w, q, s)
  PROVE  Len(w) = s
<1>1. 1 \in 1 .. Len(q) /\ \A k : ~Before(q, 1, c, k)
  BY DEF Before
<1>2. Len(w) <= s /\ \A k \in 1 .. s : k <= Len(w)
  BY <1>1 DEF Flow
<1>3. s > 0 => s \in 1 .. s
  OBVIOUS
<1> QED
  BY <1>2, <1>3

-----------------------------------------------------------------------------
(* The order of frames of different connections on one id.                 *)

LEMMA GuardCut ==
  ASSUME NEW c, NEW sid, NEW q, NEW r,
         Len(q) \in Nat, Len(r) \in Nat, Len(r) <= Len(q),
         \A i \in 1 .. Len(r) : r[i] = q[i],
         Guarded(c, sid, q)
  PROVE  Guarded(c, sid, r)
<1>1. \A j \in 1 .. Len(r) : j \in 1 .. Len(q) /\ \A i \in 1 .. (j - 1) : i \in 1 .. Len(r)
  OBVIOUS
<1> QED
  BY <1>1 DEF Guarded, ClosedBefore

LEMMA GuardDrop ==
  ASSUME NEW c, NEW sid, NEW q, NEW r, NEW p \in 1 .. Len(q),
         Len(q) \in Nat, Len(r) = Len(q) - 1,
         \A i \in 1 .. (p - 1) : r[i] = q[i],
         \A i \in p .. Len(r) : r[i] = q[i + 1],
         ~Own(q[p], c, "Close"),
         Guarded(c, sid, q)
  PROVE  Guarded(c, sid, r)
<1> DEFINE lq == Len(q)
           lr == Len(r)
<1>1. lq \in Nat /\ lr \in Nat /\ lr = lq - 1 /\ p \in 1 .. lq
  OBVIOUS
<1>2. \A j \in 1 .. lq : q[j].sid = sid /\ q[j].conn # c => ClosedBefore(q, j, c)
  BY DEF Guarded
<1>3. /\ \A i \in 1 .. (p - 1) : r[i] = q[i]
      /\ \A i \in p .. lr : r[i] = q[i + 1]
  OBVIOUS
<1> HIDE DEF lq, lr
<1>4. ASSUME NEW j \in 1 .. lr, r[j].sid = sid, r[j].conn # c PROVE ClosedBefore(r, j, c)
  <2>1. PICK i \in 1 .. lq : i # p /\ Own(q[i], c, "Close") /\ (j < p => i < j) /\ (j >= p => i <= j)
    <3>1. CASE j < p
      <4>1. j \in 1 .. (p - 1) /\ j \in 1 .. lq
        BY <1>1, <3>1
      <4>2. PICK i \in 1 .. (j - 1) : Own(q[i], c, "Close")
        BY <1>2, <1>3, <1>4, <4>1 DEF ClosedBefore
      <4>3. i \in 1 .. lq /\ i < j /\ ~(j >= p)
        BY <1>1, <3>1
      <4> QED
        BY <4>2, <4>3
    <3>2. CASE j >= p
      <4>1. j \in p .. lr /\ j + 1 \in 1 .. lq
        BY <1>1, <3>2
      <4>2. PICK i \in 1 .. ((j + 1) - 1) : Own(q[i], c, "Close")
        BY <1>2, <1>3, <1>4, <4>1 DEF ClosedBefore
      <4>3. i \in 1 .. lq /\ i <= j /\ ~(j < p)
        BY <1>1, <3>2
      <4> QED
        BY <4>2, <4>3
    <3> QED
      BY <1>1, <3>1, <3>2
  <2>2. CASE i < p
    <3>1. i \in 1 .. (p - 1) /\ i \in 1 .. (j - 1)
      BY <1>1, <2>1, <2>2
    <3> QED
      BY <1>3, <2>1, <3>1 DEF ClosedBefore
  <2>3. CASE i > p
    <3>1. i - 1 \in p .. lr /\ i - 1 \in 1 .. (j - 1) /\ (i - 1) + 1 = i
      BY <1>1, <2>1, <2>3
    <3>2. r[i - 1] = q[i]
      BY <1>3, <3>1
    <3> QED
      BY <2>1, <3>1, <3>2 DEF ClosedBefore
  <2> QED
    BY <1>1, <2>1, <2>2, <2>3
<1> QED
  BY <1>4 DEF Guarded, lr

LEMMA GuardAppend ==
  ASSUME NEW c, NEW sid, NEW q, NEW r, Len(q) \in Nat, Len(r) = Len(q) + 1,
         \A i \in 1 .. Len(q) : r[i] = q[i],
         r[Len(r)].sid = sid /\ r[Len(r)].conn # c => ClosedBefore(q, Len(q) + 1, c),
         Guarded(c, sid, q)
  PROVE  Guarded(c, sid, r)
<1> DEFINE lq == Len(q)
<1>1. lq \in Nat /\ Len(r) = lq + 1 /\ \A i \in 1 .. lq : r[i] = q[i]
  OBVIOUS
<1>2. \A j \in 1 .. lq : q[j].sid = sid /\ q[j].conn # c => ClosedBefore(q, j, c)
  BY DEF Guarded
<1>3. r[lq + 1].sid = sid /\ r[lq + 1].conn # c => ClosedBefore(q, lq + 1, c)
  OBVIOUS
<1> HIDE DEF lq
<1>4. /\ \A j \in 1 .. (lq + 1) : j \in 1 .. lq \/ j = lq + 1
      /\ \A j \in 1 .. (lq + 1) : \A i \in 1 .. (j - 1) : i \in 1 .. lq
  BY <1>1
<1>5. \A j \in 1 .. (lq + 1) : ClosedBefore(q, j, c) => ClosedBefore(r, j, c)
  BY <1>1, <1>4 DEF ClosedBefore
<1>6. \A j \in 1 .. (lq + 1) : r[j].sid = sid /\ r[j].conn # c => ClosedBefore(r, j, c)
  BY <1>1, <1>2, <1>3, <1>4, <1>5, Zenon
<1> QED
  BY <1>1, <1>6 DEF Guarded

LEMMA ClosedAppend ==
  ASSUME NEW c, NEW q, NEW r, Len(q) \in Nat, Len(r) = Len(q) + 1,
         \A i \in 1 .. Len(q) : r[i] = q[i]
  PROVE  /\ ClosedBefore(q, Len(q) + 1, c) => ClosedBefore(r, Len(r) + 1, c)
         /\ Own(r[Len(r)], c, "Close") => ClosedBefore(r, Len(r) + 1, c)
<1>1. /\ (Len(q) + 1) - 1 = Len(q) /\ (Len(r) + 1) - 1 = Len(r) /\ Len(r) \in 1 .. Len(r)
      /\ \A i \in 1 .. Len(q) : i \in 1 .. Len(r)
  OBVIOUS
<1> QED
  BY <1>1 DEF ClosedBefore

LEMMA ClosedDrop ==
  ASSUME NEW c, NEW q, NEW r, NEW p \in 1 .. Len(q),
         Len(q) \in Nat, Len(r) = Len(q) - 1,
         \A i \in 1 .. (p - 1) : r[i] = q[i],
         \A i \in p .. Len(r) : r[i] = q[i + 1],
         ~Own(q[p], c, "Close"), ClosedBefore(q, Len(q) + 1, c)
  PROVE  ClosedBefore(r, Len(r) + 1, c)
<1>1. PICK i \in 1 .. ((Len(q) + 1) - 1) : Own(q[i], c, "Close")
  BY DEF ClosedBefore
<1>2. CASE i < p
  <2>1. i \in 1 .. (p - 1) /\ i \in 1 .. ((Len(r) + 1) - 1)
    BY <1>2
  <2> QED
    BY <1>1, <2>1 DEF ClosedBefore
<1>3. CASE i > p
  <2>1. i - 1 \in p .. Len(r) /\ i - 1 \in 1 .. ((Len(r) + 1) - 1) /\ (i - 1) + 1 = i
    BY <1>3
  <2>2. r[i - 1] = q[i]
    BY <2>1
  <2> QED
    BY <1>1, <2>1, <2>2 DEF ClosedBefore
<1> QED
  BY <1>1, <1>2, <1>3

LEMMA NoFinCut ==
  ASSUME NEW c, NEW q, NEW r, Len(q) \in Nat, Len(r) \in Nat, Len(r) <= Len(q),
         \A i \in 1 .. Len(r) : r[i] = q[i], NoFin(q, c)
  PROVE  NoFin(r, c)
<1>1. \A j \in 1 .. Len(r) : j \in 1 .. Len(q)
  OBVIOUS
<1> QED
  BY <1>1 DEF NoFin

LEMMA NoFinDrop ==
  ASSUME NEW c, NEW q, NEW r, NEW p \in 1 .. Len(q), Len(q) \in Nat, Len(r) = Len(q) - 1,
         \A i \in 1 .. (p - 1) : r[i] = q[i],
         \A i \in p .. Len(r) : r[i] = q[i + 1],
         NoFin(q, c)
  PROVE  NoFin(r, c)
<1>1. \A j \in 1 .. Len(r) : (j \in 1 .. (p - 1) /\ j \in 1 .. Len(q)) \/ (j \in p .. Len(r) /\ j + 1 \in 1 .. Len(q))
  OBVIOUS
<1> QED
  BY <1>1 DEF NoFin

LEMMA NoFinAppend ==
  ASSUME NEW c, NEW q, NEW r, Len(q) \in Nat, Len(r) = Len(q) + 1,
         \A i \in 1 .. Len(q) : r[i] = q[i], ~Own(r[Len(r)], c, "Fin"), NoFin(q, c)
  PROVE  NoFin(r, c)
<1>1. \A j \in 1 .. Len(r) : j \in 1 .. Len(q) \/ j = Len(r)
  OBVIOUS
<1> QED
  BY <1>1 DEF NoFin

-----------------------------------------------------------------------------
(* What is under way is the channel a followed by the direction b.         *)

LEMMA PipeIs ==
  ASSUME NEW S, NEW a \in Seq(S), NEW b \in Seq(S)
  PROVE  /\ a \o b \in Seq(S) /\ Len(a \o b) = Len(a) + Len(b)
         /\ Len(a) \in Nat /\ Len(b) \in Nat
         /\ \A i \in 1 .. Len(a) : (a \o b)[i] = a[i]
         /\ \A i \in 1 .. Len(b) : (a \o b)[Len(a) + i] = b[i]
         /\ \A i \in (Len(a) + 1) .. (Len(a) + Len(b)) : (a \o b)[i] = b[i - Len(a)]
  OBVIOUS

LEMMA PipeAppend ==
  ASSUME NEW S, NEW a \in Seq(S), NEW b \in Seq(S), NEW x \in S
  PROVE  a \o Append(b, x) = Append(a \o b, x)
  BY AppendIsConcat, ConcatAssociative, ConcatProperties

LEMMA Appended ==
  ASSUME NEW S, NEW q \in Seq(S), NEW x \in S
  PROVE  /\ Append(q, x) \in Seq(S) /\ Len(Append(q, x)) = Len(q) + 1 /\ Len(q) \in Nat
         /\ Append(q, x)[Len(Append(q, x))] = x
         /\ \A i \in 1 .. Len(q) : Append(q, x)[i] = q[i]
  OBVIOUS

LEMMA Beheaded ==
  ASSUME NEW S, NEW q \in Seq(S), q # <<>>
  PROVE  /\ Tail(q) \in Seq(S) /\ Len(Tail(q)) = Len(q) - 1 /\ Len(q) \in Nat /\ Len(q) > 0
         /\ Head(q) = q[1] /\ Head(q) \in S
         /\ \A i \in 1 .. (Len(q) - 1) : Tail(q)[i] = q[i + 1]
  OBVIOUS

(* The head of the direction leaves and does not join the channel. *)
LEMMA PipeDrop ==
  ASSUME NEW S, NEW a \in Seq(S), NEW b \in Seq(S), b # <<>>
  PROVE  LET q == a \o b
             r == a \o Tail(b)
             p == Len(a) + 1
         IN  /\ p \in 1 .. Len(q) /\ q[p] = Head(b) /\ Len(r) = Len(q) - 1 /\ r \in Seq(S) /\ q \in Seq(S)
             /\ \A i \in 1 .. (p - 1) : r[i] = q[i]
             /\ \A i \in p .. Len(r) : r[i] = q[i + 1]
<1>1. PICK t : t = Tail(b)
  OBVIOUS
<1>2. PICK q : q = a \o b
  OBVIOUS
<1>3. PICK r : r = a \o t
  OBVIOUS
<1>4. /\ t \in Seq(S) /\ Len(t) = Len(b) - 1 /\ Len(b) > 0 /\ Head(b) = b[1]
      /\ \A i \in 1 .. (Len(b) - 1) : t[i] = b[i + 1]
  BY <1>1, Beheaded
<1>5. /\ q \in Seq(S) /\ Len(q) = Len(a) + Len(b) /\ Len(a) \in Nat /\ Len(b) \in Nat
      /\ \A i \in 1 .. Len(a) : q[i] = a[i]
      /\ \A i \in 1 .. Len(b) : q[Len(a) + i] = b[i]
  BY <1>2, PipeIs
<1>6. /\ r \in Seq(S) /\ Len(r) = Len(a) + Len(t)
      /\ \A i \in 1 .. Len(a) : r[i] = a[i]
      /\ \A i \in 1 .. Len(t) : r[Len(a) + i] = t[i]
  BY <1>3, <1>4, PipeIs
<1>7. PICK la \in Nat : la = Len(a)
  BY <1>5
<1>8. PICK lb \in Nat : lb = Len(b)
  BY <1>5
<1>9. Len(r) = la + (lb - 1) /\ Len(q) = la + lb /\ lb > 0
  BY <1>4, <1>5, <1>6, <1>7, <1>8
<1>10. q[la + 1] = b[1] /\ la + 1 \in 1 .. (la + lb)
  <2>1. 1 \in 1 .. lb /\ la + 1 \in 1 .. (la + lb)
    BY <1>9
  <2> QED
    BY <1>5, <1>7, <1>8, <2>1
<1>11. \A i \in (la + 1) .. (la + (lb - 1)) : r[i] = q[i + 1]
  <2> SUFFICES ASSUME NEW i \in (la + 1) .. (la + (lb - 1)) PROVE r[i] = q[i + 1]
    OBVIOUS
  <2>1. PICK k \in 1 .. (lb - 1) : i = la + k
    <3>1. i - la \in 1 .. (lb - 1) /\ i = la + (i - la)
      OBVIOUS
    <3> QED
      BY <3>1
  <2>2. k + 1 \in 1 .. lb /\ i + 1 = la + (k + 1)
    BY <2>1
  <2>3. r[la + k] = t[k] /\ t[k] = b[k + 1]
    BY <1>4, <1>6, <1>7, <1>8, <1>9
  <2>4. q[la + (k + 1)] = b[k + 1]
    BY <1>5, <1>7, <1>8, <2>2
  <2> QED
    BY <2>1, <2>2, <2>3, <2>4
<1>12. \A i \in 1 .. ((la + 1) - 1) : r[i] = q[i]
  <2>1. (la + 1) - 1 = la
    OBVIOUS
  <2> QED
    BY <1>5, <1>6, <1>7, <2>1
<1>13. Len(r) = Len(q) - 1
  BY <1>9
<1>14. /\ Len(a) + 1 \in 1 .. Len(q) /\ q[Len(a) + 1] = Head(b)
       /\ \A i \in 1 .. ((Len(a) + 1) - 1) : r[i] = q[i]
       /\ \A i \in (Len(a) + 1) .. Len(r) : r[i] = q[i + 1]
  BY <1>4, <1>7, <1>9, <1>10, <1>11, <1>12
<1> QED
  BY <1>1, <1>2, <1>3, <1>5, <1>6, <1>13, <1>14

(* It joins the channel, perhaps as another kind of frame. *)
LEMMA PipeRoute ==
  ASSUME NEW S, NEW a \in Seq(S), NEW b \in Seq(S), b # <<>>, NEW y \in S
  PROVE  LET q == a \o b
             r == Append(a, y) \o Tail(b)
         IN  /\ Len(r) = Len(q) /\ Len(q) \in Nat /\ r \in Seq(S) /\ q \in Seq(S)
             /\ \A i \in 1 .. Len(q) : r[i] = q[i] \/ (r[i] = y /\ q[i] = Head(b))
             /\ y = Head(b) => r = q
<1>1. PICK t : t = Tail(b)
  OBVIOUS
<1>2. PICK q : q = a \o b
  OBVIOUS
<1>3. PICK d : d = Append(a, y)
  OBVIOUS
<1>4. PICK r : r = d \o t
  OBVIOUS
<1>5. /\ t \in Seq(S) /\ Len(t) = Len(b) - 1 /\ Len(b) > 0 /\ Head(b) = b[1]
      /\ \A i \in 1 .. (Len(b) - 1) : t[i] = b[i + 1]
  BY <1>1, Beheaded
<1>6. /\ q \in Seq(S) /\ Len(q) = Len(a) + Len(b) /\ Len(a) \in Nat /\ Len(b) \in Nat
      /\ \A i \in 1 .. Len(a) : q[i] = a[i]
      /\ \A i \in 1 .. Len(b) : q[Len(a) + i] = b[i]
  BY <1>2, PipeIs
<1>7. d \in Seq(S) /\ Len(d) = Len(a) + 1 /\ d[Len(a) + 1] = y /\ \A i \in 1 .. Len(a) : d[i] = a[i]
  BY <1>3, Appended
<1>8. /\ r \in Seq(S) /\ Len(r) = Len(d) + Len(t)
      /\ \A i \in 1 .. Len(d) : r[i] = d[i]
      /\ \A i \in 1 .. Len(t) : r[Len(d) + i] = t[i]
  <2>1. d \in Seq(S) /\ t \in Seq(S)
    BY <1>5, <1>7
  <2> QED
    BY <1>4, <2>1, PipeIs
<1>9. PICK la \in Nat : la = Len(a)
  BY <1>6
<1>10. PICK lb \in Nat : lb = Len(b)
  BY <1>6
<1>11. Len(r) = la + lb /\ Len(q) = la + lb /\ lb > 0
  BY <1>5, <1>6, <1>7, <1>8, <1>9, <1>10
<1>12. ASSUME NEW i \in 1 .. (la + lb)
       PROVE  r[i] = q[i] \/ (r[i] = y /\ q[i] = Head(b))
  <2>1. CASE i \in 1 .. la
    <3>1. i \in 1 .. (la + 1)
      BY <2>1
    <3> QED
      BY <1>6, <1>7, <1>8, <1>9, <2>1, <3>1
  <2>2. CASE i = la + 1
    <3>1. i \in 1 .. (la + 1) /\ 1 \in 1 .. lb
      BY <1>11, <2>2
    <3>2. r[i] = y
      BY <1>7, <1>8, <1>9, <2>2, <3>1
    <3>3. q[i] = b[1]
      BY <1>6, <1>9, <1>10, <2>2, <3>1
    <3> QED
      BY <1>5, <3>2, <3>3
  <2>3. CASE i > la + 1
    <3>1. PICK k \in 1 .. (lb - 1) : i = (la + 1) + k
      <4>1. i - (la + 1) \in 1 .. (lb - 1) /\ i = (la + 1) + (i - (la + 1))
        BY <2>3
      <4> QED
        BY <4>1
    <3>2. k + 1 \in 1 .. lb /\ i = la + (k + 1)
      BY <3>1
    <3>3. r[(la + 1) + k] = t[k] /\ t[k] = b[k + 1]
      BY <1>5, <1>7, <1>8, <1>9, <1>10
    <3>4. q[la + (k + 1)] = b[k + 1]
      BY <1>6, <1>9, <1>10, <3>2
    <3> QED
      BY <3>1, <3>2, <3>3, <3>4
  <2> QED
    BY <2>1, <2>2, <2>3
<1>13. Len(r) = Len(q) /\ Len(q) \in Nat /\ \A i \in 1 .. Len(q) : r[i] = q[i] \/ (r[i] = y /\ q[i] = Head(b))
  BY <1>11, <1>12
<1>14. ASSUME y = Head(b) PROVE r = q
  BY <1>6, <1>8, <1>13, <1>14, SeqEqual
<1> QED
  BY <1>1, <1>2, <1>3, <1>4, <1>6, <1>8, <1>13, <1>14

(* The first event of the channel is taken. *)
LEMMA PipeTake ==
  ASSUME NEW S, NEW a \in Seq(S), NEW b \in Seq(S), a # <<>>
  PROVE  LET q == a \o b
             r == Tail(a) \o b
         IN  /\ q[1] = Head(a) /\ Len(r) = Len(q) - 1 /\ Len(q) \in Nat /\ Len(q) > 0
             /\ r \in Seq(S) /\ q \in Seq(S)
             /\ \A i \in 1 .. Len(r) : r[i] = q[i + 1]
<1>1. PICK t : t = Tail(a)
  OBVIOUS
<1>2. PICK q : q = a \o b
  OBVIOUS
<1>3. PICK r : r = t \o b
  OBVIOUS
<1>4. /\ t \in Seq(S) /\ Len(t) = Len(a) - 1 /\ Len(a) > 0 /\ Head(a) = a[1]
      /\ \A i \in 1 .. (Len(a) - 1) : t[i] = a[i + 1]
  BY <1>1, Beheaded
<1>5. /\ q \in Seq(S) /\ Len(q) = Len(a) + Len(b) /\ Len(a) \in Nat /\ Len(b) \in Nat
      /\ \A i \in 1 .. Len(a) : q[i] = a[i]
      /\ \A i \in 1 .. Len(b) : q[Len(a) + i] = b[i]
  BY <1>2, PipeIs
<1>6. /\ r \in Seq(S) /\ Len(r) = Len(t) + Len(b)
      /\ \A i \in 1 .. Len(t) : r[i] = t[i]
      /\ \A i \in 1 .. Len(b) : r[Len(t) + i] = b[i]
  <2>1. t \in Seq(S)
    BY <1>4
  <2> QED
    BY <1>3, <2>1, PipeIs
<1>7. PICK la \in Nat : la = Len(a)
  BY <1>5
<1>8. PICK lb \in Nat : lb = Len(b)
  BY <1>5
<1>9. Len(r) = (la - 1) + lb /\ Len(q) = la + lb /\ la > 0 /\ Len(t) = la - 1
  BY <1>4, <1>5, <1>6, <1>7, <1>8
<1>10. q[1] = a[1]
  <2>1. 1 \in 1 .. la
    BY <1>9
  <2> QED
    BY <1>5, <1>7, <2>1
<1>11. ASSUME NEW i \in 1 .. ((la - 1) + lb) PROVE r[i] = q[i + 1]
  <2>1. CASE i \in 1 .. (la - 1)
    <3>1. i + 1 \in 1 .. la
      BY <2>1
    <3> QED
      BY <1>4, <1>5, <1>6, <1>7, <1>9, <2>1, <3>1
  <2>2. CASE i > la - 1
    <3>1. PICK k \in 1 .. lb : i = (la - 1) + k
      <4>1. i - (la - 1) \in 1 .. lb /\ i = (la - 1) + (i - (la - 1))
        BY <2>2
      <4> QED
        BY <4>1
    <3>2. i + 1 = la + k
      BY <3>1
    <3>3. r[(la - 1) + k] = b[k] /\ q[la + k] = b[k]
      BY <1>5, <1>6, <1>7, <1>8, <1>9
    <3> QED
      BY <3>1, <3>2, <3>3
  <2> QED
    BY <2>1, <2>2
<1>12. Len(r) = Len(q) - 1 /\ Len(q) \in Nat /\ Len(q) > 0
  BY <1>9
<1>13. \A i \in 1 .. Len(r) : r[i] = q[i + 1]
  BY <1>9, <1>11
<1> QED
  BY <1>1, <1>2, <1>3, <1>4, <1>5, <1>6, <1>10, <1>12, <1>13

(* The end of the direction is lost. *)
LEMMA PipeCut ==
  ASSUME NEW S, NEW a \in Seq(S), NEW b \in Seq(S), NEW n \in 0 .. Len(b)
  PROVE  LET q == a \o b
             t == SubSeq(b, 1, n)
             r == a \o t
         IN  /\ t \in Seq(S) /\ Len(t) = n /\ \A i \in 1 .. n : t[i] = b[i]
             /\ r \in Seq(S) /\ q \in Seq(S) /\ Len(r) \in Nat /\ Len(q) \in Nat /\ Len(r) <= Len(q)
             /\ \A i \in 1 .. Len(r) : r[i] = q[i]
<1>1. PICK t : t = SubSeq(b, 1, n)
  OBVIOUS
<1>2. PICK q : q = a \o b
  OBVIOUS
<1>3. PICK r : r = a \o t
  OBVIOUS
<1>4. t \in Seq(S) /\ Len(t) = n /\ \A i \in 1 .. n : t[i] = b[i]
  <2>1. n \in Int /\ Len(b) \in Nat /\ \A i \in 1 .. n : i \in 1 .. Len(b) /\ b[i] \in S
    OBVIOUS
  <2>2. t \in Seq(S)
    BY <1>1, <2>1, SubSeqProperties
  <2> QED
    BY <1>1, <2>1, <2>2
<1>5. /\ q \in Seq(S) /\ Len(q) = Len(a) + Len(b) /\ Len(a) \in Nat /\ Len(b) \in Nat
      /\ \A i \in 1 .. Len(a) : q[i] = a[i]
      /\ \A i \in 1 .. Len(b) : q[Len(a) + i] = b[i]
  BY <1>2, PipeIs
<1>6. /\ r \in Seq(S) /\ Len(r) = Len(a) + n
      /\ \A i \in 1 .. Len(a) : r[i] = a[i]
      /\ \A i \in 1 .. n : r[Len(a) + i] = t[i]
  <2>1. t \in Seq(S)
    BY <1>4
  <2>2. /\ r \in Seq(S) /\ Len(r) = Len(a) + Len(t)
        /\ \A i \in 1 .. Len(a) : r[i] = a[i]
        /\ \A i \in 1 .. Len(t) : r[Len(a) + i] = t[i]
    BY <1>3, <2>1, PipeIs
  <2> QED
    BY <1>4, <2>2
<1>7. Len(r) \in Nat /\ Len(q) \in Nat /\ Len(r) <= Len(q)
  BY <1>5, <1>6
<1>8. ASSUME NEW i \in 1 .. Len(r) PROVE r[i] = q[i]
  <2>1. CASE i \in 1 .. Len(a)
    BY <1>5, <1>6, <2>1
  <2>2. CASE ~(i \in 1 .. Len(a))
    <3>1. PICK k \in 1 .. n : i = Len(a) + k
      <4>1. i - Len(a) \in 1 .. n /\ i = Len(a) + (i - Len(a))
        BY <1>5, <1>6, <1>7, <2>2
      <4> QED
        BY <4>1
    <3>2. k \in 1 .. Len(b)
      BY <1>5
    <3> QED
      BY <1>4, <1>5, <1>6, <3>1, <3>2
  <2> QED
    BY <2>1, <2>2
<1> QED
  BY <1>1, <1>2, <1>3, <1>4, <1>5, <1>6, <1>7, <1>8

-----------------------------------------------------------------------------
(* The invariant of the direction to the server.                           *)

Running == {"connect", "loop"}
Alive == {"idle", "connect", "loop"}
Active == {"open", "loop", "exit", "drop"}
Gone == {"drop", "done"}
CTask == Tasks({"idle", "open", "loop", "exit", "drop", "done"})
STask == Tasks({"idle", "refused", "connect", "loop", "exit", "notify", "cleanup", "done"})

TunnelTypes ==
  /\ creg \in Registries /\ sreg \in Registries
  /\ next_id \in 0 .. (MAX_SESSIONS - 1)
  /\ cl \in [Conns -> CTask] /\ srv \in [Conns -> STask]
  /\ schan \in [Conns -> Seq(Frames)] /\ tgt \in [Conns -> Seq(Frames)]
  /\ up \in Seq(Frames)

(* What the tables say of the tasks: an id of the client has one owner     *)
(* that may send, as long as the SRT connection is up.                     *)
Owned ==
  /\ link => \A c \in Conns : cl[c].phase \in Active => creg[cl[c].sid] = c
  /\ \A sid \in Sids : sreg[sid] # NoOwner =>
       srv[sreg[sid]].sid = sid /\ srv[sreg[sid]].phase # "idle"

(* A task of the server belongs to a task of the client. *)
Named ==
  /\ \A c \in Conns : cl[c].sid = 0 => cl[c].phase \in {"idle", "done"} /\ srv[c].phase = "idle"
  /\ \A c \in Conns : cl[c].phase = "idle" => cl[c].sid = 0
  /\ \A c \in Conns : cl[c].phase = "open" => srv[c].phase = "idle"
  /\ \A c \in Conns : srv[c].phase # "idle" => srv[c].sid = cl[c].sid
  /\ \A c \in Conns : srv[c].phase = "idle" => schan[c] = <<>>
  /\ \A c \in Conns : \A j \in 1 .. Len(schan[c]) :
       schan[c][j].sid = srv[c].sid /\ schan[c][j].ftype \in {"Data", "Fin", "Close"}

(* The frames under way: whose they are, *)
FrameOwner ==
  \A j \in 1 .. Len(up) : up[j].sid = cl[up[j].conn].sid /\ cl[up[j].conn].phase \notin {"idle", "open"}
(* that an Open is still ahead of its task and a Close behind it, *)
FrameKinds ==
  \A j \in 1 .. Len(up) : /\ up[j].ftype = "Open" => srv[up[j].conn].phase = "idle"
                          /\ up[j].ftype = "Close" => cl[up[j].conn].phase \in Gone
OpenAhead ==
  \A j \in 1 .. Len(up) : srv[up[j].conn].phase = "idle" => \E i \in 1 .. j : Own(up[i], up[j].conn, "Open")
(* that nothing of a connection comes before its Open or after its Close,  *)
OwnOrder ==
  \A i, j \in 1 .. Len(up) :
    i < j /\ up[i].conn = up[j].conn => up[j].ftype # "Open" /\ up[i].ftype # "Close"
(* and that the connections that use an id follow each other.  *)
Grouped ==
  \A i, j \in 1 .. Len(up) :
    i < j /\ up[i].sid = up[j].sid /\ up[i].conn # up[j].conn
      => \E l \in i .. (j - 1) : Own(up[l], up[i].conn, "Close")
(* Until the SRT connection is lost none of the two is missing.            *)
CloseBehind ==
  link => \A j \in 1 .. Len(up) :
            cl[up[j].conn].phase \in Gone => \E l \in j .. Len(up) : Own(up[l], up[j].conn, "Close")
OpenUnderway ==
  link => \A c \in Conns :
            srv[c].phase = "idle" /\ cl[c].phase \notin {"idle", "open"} /\ cl[c].sid # 0
              => \E i \in 1 .. Len(up) : Own(up[i], c, "Open")

UpInv ==
  FrameOwner /\ FrameKinds /\ OpenAhead /\ OwnOrder /\ Grouped /\ CloseBehind /\ OpenUnderway

(* What connection c still gets: its events, and the frames under way as   *)
(* long as they reach its channel.                                         *)
Fed(c) == srv[c].phase = "idle" \/ (srv[c].phase \in Running /\ sreg[srv[c].sid] = c)
Pipe(c) == IF Fed(c) THEN schan[c] \o up ELSE schan[c]

StreamInv(c) ==
  /\ Numbered(tgt[c], c)
  /\ srv[c].phase \in Alive => Flow(c, tgt[c], Pipe(c), cl[c].sent)
  /\ srv[c].phase \in Alive /\ ~cl[c].eof => NoFin(Pipe(c), c)
  /\ srv[c].phase \in Running => Guarded(c, srv[c].sid, Pipe(c))
  /\ link /\ Fed(c) => Whole(c, tgt[c], Pipe(c), cl[c].sent)
  /\ link /\ Fed(c) /\ cl[c].phase \in Gone /\ cl[c].sid # 0 => ClosedBefore(Pipe(c), Len(Pipe(c)) + 1, c)
  /\ srv[c].fin => cl[c].eof /\ Len(tgt[c]) = cl[c].sent

TunnelInv == TunnelTypes /\ Owned /\ Named /\ UpInv /\ \A c \in Conns : StreamInv(c)

-----------------------------------------------------------------------------
(* The frames under way.                                                   *)

LEMMA FrameIs ==
  ASSUME NEW u \in Seq(Frames)
  PROVE  /\ Len(u) \in Nat
         /\ \A i \in 1 .. Len(u) : u[i] \in Frames /\ u[i].conn \in Conns /\ u[i].sid \in Sids /\ u[i].n \in Nat
<1>1. Len(u) \in Nat /\ \A i \in 1 .. Len(u) : u[i] \in Frames
  OBVIOUS
<1>2. \A m \in Frames : m.conn \in Conns /\ m.sid \in Sids /\ m.n \in Nat
  BY DEF Frames
<1> QED
  BY <1>1, <1>2

(* One of them arrives. *)
LEMMA UpTail ==
  ASSUME UpInv, up \in Seq(Frames), up # <<>>, up' = Tail(up), cl' = cl, link' = link,
         \A c \in Conns : srv'[c].phase = "idle" <=> srv[c].phase = "idle" /\ ~Own(Head(up), c, "Open")
  PROVE  UpInv'
<1> DEFINE l == Len(up)
           u == up'
<1>1. l \in Nat /\ l > 0 /\ Len(u) = l - 1 /\ Head(up) = up[1] /\ \A i \in 1 .. (l - 1) : u[i] = up[i + 1]
  BY Beheaded
<1>2. \A i \in 1 .. l : up[i].conn \in Conns
  BY FrameIs
<1>3. /\ \A j \in 1 .. l : up[j].sid = cl[up[j].conn].sid /\ cl[up[j].conn].phase \notin {"idle", "open"}
      /\ \A j \in 1 .. l : /\ up[j].ftype = "Open" => srv[up[j].conn].phase = "idle"
                           /\ up[j].ftype = "Close" => cl[up[j].conn].phase \in Gone
      /\ \A j \in 1 .. l : srv[up[j].conn].phase = "idle" => \E i \in 1 .. j : Own(up[i], up[j].conn, "Open")
      /\ \A i, j \in 1 .. l : i < j /\ up[i].conn = up[j].conn => up[j].ftype # "Open" /\ up[i].ftype # "Close"
      /\ \A i, j \in 1 .. l : i < j /\ up[i].sid = up[j].sid /\ up[i].conn # up[j].conn
           => \E k \in i .. (j - 1) : Own(up[k], up[i].conn, "Close")
      /\ link => \A j \in 1 .. l :
            cl[up[j].conn].phase \in Gone => \E k \in j .. l : Own(up[k], up[j].conn, "Close")
      /\ link => \A c \in Conns :
            srv[c].phase = "idle" /\ cl[c].phase \notin {"idle", "open"} /\ cl[c].sid # 0
              => \E i \in 1 .. l : Own(up[i], c, "Open")
  BY DEF UpInv, FrameOwner, FrameKinds, OpenAhead, OwnOrder, Grouped, CloseBehind, OpenUnderway
<1>4. \A c \in Conns : srv'[c].phase = "idle" <=> srv[c].phase = "idle" /\ ~Own(up[1], c, "Open")
  BY <1>1
<1> HIDE DEF l, u
<1>5. /\ \A j \in 1 .. (l - 1) : j + 1 \in 1 .. l /\ u[j] = up[j + 1] /\ u[j].conn \in Conns
      /\ \A i, j \in 1 .. (l - 1) : i < j => i + 1 < j + 1
      /\ 1 \in 1 .. l /\ \A j \in 1 .. (l - 1) : 1 < j + 1
  BY <1>1, <1>2
<1>6. \A j \in 1 .. (l - 1) : u[j].sid = cl[u[j].conn].sid /\ cl[u[j].conn].phase \notin {"idle", "open"}
  <2> SUFFICES ASSUME NEW j \in 1 .. (l - 1)
               PROVE  up[j + 1].sid = cl[up[j + 1].conn].sid /\ cl[up[j + 1].conn].phase \notin {"idle", "open"}
    BY <1>5
  <2> QED
    BY <1>3, <1>5
<1>7. \A j \in 1 .. (l - 1) : /\ u[j].ftype = "Open" => srv'[u[j].conn].phase = "idle"
                              /\ u[j].ftype = "Close" => cl[u[j].conn].phase \in Gone
  <2> SUFFICES ASSUME NEW j \in 1 .. (l - 1)
               PROVE  /\ up[j + 1].ftype = "Open" => srv'[up[j + 1].conn].phase = "idle"
                      /\ up[j + 1].ftype = "Close" => cl[up[j + 1].conn].phase \in Gone
    BY <1>5
  <2>1. up[j + 1].ftype = "Open" => ~Own(up[1], up[j + 1].conn, "Open")
    BY <1>3, <1>5 DEF Own
  <2> QED
    BY <1>2, <1>3, <1>4, <1>5, <2>1
<1>8. \A j \in 1 .. (l - 1) : srv'[u[j].conn].phase = "idle" => \E i \in 1 .. j : Own(u[i], u[j].conn, "Open")
  <2> SUFFICES ASSUME NEW j \in 1 .. (l - 1), srv'[up[j + 1].conn].phase = "idle"
               PROVE  \E i \in 1 .. j : Own(u[i], up[j + 1].conn, "Open")
    BY <1>5
  <2>1. srv[up[j + 1].conn].phase = "idle" /\ ~Own(up[1], up[j + 1].conn, "Open")
    BY <1>2, <1>4, <1>5
  <2>2. PICK i \in 1 .. (j + 1) : Own(up[i], up[j + 1].conn, "Open")
    BY <1>3, <1>5, <2>1
  <2>3. i # 1
    BY <2>1, <2>2
  <2>4. i - 1 \in 1 .. j /\ i - 1 \in 1 .. (l - 1) /\ (i - 1) + 1 = i
    BY <1>1, <2>3
  <2>5. u[i - 1] = up[i]
    BY <1>5, <2>4
  <2> QED
    BY <2>2, <2>4, <2>5
<1>9. \A i, j \in 1 .. (l - 1) : i < j /\ u[i].conn = u[j].conn => u[j].ftype # "Open" /\ u[i].ftype # "Close"
  <2> SUFFICES ASSUME NEW i \in 1 .. (l - 1), NEW j \in 1 .. (l - 1), i < j, up[i + 1].conn = up[j + 1].conn
               PROVE  up[j + 1].ftype # "Open" /\ up[i + 1].ftype # "Close"
    BY <1>5
  <2> QED
    BY <1>3, <1>5
<1>10. \A i, j \in 1 .. (l - 1) : i < j /\ u[i].sid = u[j].sid /\ u[i].conn # u[j].conn
           => \E k \in i .. (j - 1) : Own(u[k], u[i].conn, "Close")
  <2> SUFFICES ASSUME NEW i \in 1 .. (l - 1), NEW j \in 1 .. (l - 1), i < j,
                      up[i + 1].sid = up[j + 1].sid, up[i + 1].conn # up[j + 1].conn
               PROVE  \E k \in i .. (j - 1) : Own(u[k], up[i + 1].conn, "Close")
    BY <1>5
  <2>1. PICK k \in (i + 1) .. ((j + 1) - 1) : Own(up[k], up[i + 1].conn, "Close")
    BY <1>3, <1>5
  <2>2. k - 1 \in i .. (j - 1) /\ k - 1 \in 1 .. (l - 1) /\ (k - 1) + 1 = k
    BY <1>1
  <2>3. u[k - 1] = up[k]
    BY <1>5, <2>2
  <2> QED
    BY <2>1, <2>2, <2>3
<1>11. link => \A j \in 1 .. (l - 1) :
            cl[u[j].conn].phase \in Gone => \E k \in j .. (l - 1) : Own(u[k], u[j].conn, "Close")
  <2> SUFFICES ASSUME link, NEW j \in 1 .. (l - 1), cl[up[j + 1].conn].phase \in Gone
               PROVE  \E k \in j .. (l - 1) : Own(u[k], up[j + 1].conn, "Close")
    BY <1>5
  <2>1. PICK k \in (j + 1) .. l : Own(up[k], up[j + 1].conn, "Close")
    BY <1>3, <1>5
  <2>2. k - 1 \in j .. (l - 1) /\ k - 1 \in 1 .. (l - 1) /\ (k - 1) + 1 = k
    BY <1>1
  <2>3. u[k - 1] = up[k]
    BY <1>5, <2>2
  <2> QED
    BY <2>1, <2>2, <2>3
<1>12. link => \A c \in Conns :
            srv'[c].phase = "idle" /\ cl[c].phase \notin {"idle", "open"} /\ cl[c].sid # 0
              => \E i \in 1 .. (l - 1) : Own(u[i], c, "Open")
  <2> SUFFICES ASSUME link, NEW c \in Conns, srv'[c].phase = "idle", cl[c].phase \notin {"idle", "open"}, cl[c].sid # 0
               PROVE  \E i \in 1 .. (l - 1) : Own(u[i], c, "Open")
    OBVIOUS
  <2>1. srv[c].phase = "idle" /\ ~Own(up[1], c, "Open")
    BY <1>4
  <2>2. PICK i \in 1 .. l : Own(up[i], c, "Open")
    BY <1>3, <2>1
  <2>3. i # 1
    BY <2>1, <2>2
  <2>4. i - 1 \in 1 .. (l - 1) /\ (i - 1) + 1 = i
    BY <1>1, <2>3
  <2>5. u[i - 1] = up[i]
    BY <1>5, <2>4
  <2> QED
    BY <2>2, <2>4, <2>5
<1>13. Len(up') = l - 1
  BY <1>1 DEF u
<1> QED
  BY <1>6, <1>7, <1>8, <1>9, <1>10, <1>11, <1>12, <1>13
  DEF UpInv, FrameOwner, FrameKinds, OpenAhead, OwnOrder, Grouped, CloseBehind, OpenUnderway, u

-----------------------------------------------------------------------------
(* The stream of one connection, by what a step does to it.                *)

LEMMA PipeType ==
  ASSUME NEW c \in Conns, schan[c] \in Seq(Frames), up \in Seq(Frames)
  PROVE  /\ Pipe(c) \in Seq(Frames) /\ Len(Pipe(c)) \in Nat
         /\ \A i \in 1 .. Len(Pipe(c)) : Pipe(c)[i].n \in Nat
<1>1. schan[c] \o up \in Seq(Frames)
  BY PipeIs
<1>2. Pipe(c) \in Seq(Frames)
  BY <1>1 DEF Pipe
<1> QED
  BY <1>2, FrameIs

(* Nothing is sent for it; the end of what is under way may be lost. *)
LEMMA StreamShorter ==
  ASSUME NEW c \in Conns, StreamInv(c), Len(Pipe(c)) \in Nat,
         tgt'[c] = tgt[c], cl'[c].sent = cl[c].sent, cl[c].eof => cl'[c].eof,
         srv'[c].phase \in Alive =>
           /\ srv[c].phase \in Alive
           /\ Len(Pipe(c)') \in Nat /\ Len(Pipe(c)') <= Len(Pipe(c))
           /\ \A i \in 1 .. Len(Pipe(c)') : Pipe(c)'[i] = Pipe(c)[i],
         srv'[c].phase \in Running => srv[c].phase \in Running /\ srv'[c].sid = srv[c].sid,
         srv'[c].fin => srv[c].fin,
         link' /\ Fed(c)' => link /\ Fed(c) /\ Pipe(c)' = Pipe(c),
         link' /\ Fed(c)' /\ cl'[c].phase \in Gone /\ cl'[c].sid # 0 => cl[c].phase \in Gone /\ cl[c].sid # 0
  PROVE  StreamInv(c)'
<1>0. srv'[c].phase \in Running => srv'[c].phase \in Alive
  BY DEF Running, Alive
<1>1. Numbered(tgt'[c], c)
  BY DEF StreamInv
<1>2. srv'[c].phase \in Alive => Flow(c, tgt'[c], Pipe(c)', cl'[c].sent)
  <2> SUFFICES ASSUME srv'[c].phase \in Alive PROVE Flow(c, tgt[c], Pipe(c)', cl[c].sent)
    OBVIOUS
  <2>1. Flow(c, tgt[c], Pipe(c), cl[c].sent)
    BY DEF StreamInv
  <2> QED
    BY <2>1, FlowCut
<1>3. srv'[c].phase \in Alive /\ ~cl'[c].eof => NoFin(Pipe(c)', c)
  <2> SUFFICES ASSUME srv'[c].phase \in Alive, ~cl'[c].eof PROVE NoFin(Pipe(c)', c)
    OBVIOUS
  <2>1. NoFin(Pipe(c), c)
    BY DEF StreamInv
  <2> QED
    BY <2>1, NoFinCut
<1>4. srv'[c].phase \in Running => Guarded(c, srv'[c].sid, Pipe(c)')
  <2> SUFFICES ASSUME srv'[c].phase \in Running PROVE Guarded(c, srv[c].sid, Pipe(c)')
    OBVIOUS
  <2>1. Guarded(c, srv[c].sid, Pipe(c))
    BY DEF StreamInv
  <2> QED
    BY <1>0, <2>1, GuardCut
<1>5. link' /\ Fed(c)' => Whole(c, tgt'[c], Pipe(c)', cl'[c].sent)
  BY DEF StreamInv
<1>6. link' /\ Fed(c)' /\ cl'[c].phase \in Gone /\ cl'[c].sid # 0 => ClosedBefore(Pipe(c)', Len(Pipe(c)') + 1, c)
  BY DEF StreamInv
<1>7. srv'[c].fin => cl'[c].eof /\ Len(tgt'[c]) = cl'[c].sent
  BY DEF StreamInv
<1> QED
  BY <1>1, <1>2, <1>3, <1>4, <1>5, <1>6, <1>7 DEF StreamInv

(* Data is read for it and does not join what is under way to it. *)
LEMMA StreamGrow ==
  ASSUME NEW c \in Conns, StreamInv(c), schan[c] \in Seq(Frames), up \in Seq(Frames),
         Len(tgt[c]) \in Nat, cl[c].sent \in Nat,
         ~cl[c].eof, cl'[c].sent = cl[c].sent + 1, ~cl'[c].eof,
         tgt'[c] = tgt[c], srv'[c] = srv[c], Pipe(c)' = Pipe(c),
         Fed(c)' <=> Fed(c), ~(link' /\ Fed(c))
  PROVE  StreamInv(c)'
<1> DEFINE q == Pipe(c)
           s == cl[c].sent
<1>1. Len(q) \in Nat /\ \A i \in 1 .. Len(q) : q[i].n \in Nat
  BY PipeType
<1>2. Numbered(tgt'[c], c)
  BY DEF StreamInv
<1>3. srv'[c].phase \in Alive => NoFin(q, c)
  BY DEF StreamInv
<1>4. srv'[c].phase \in Alive => Flow(c, tgt[c], q, s + 1)
  <2> SUFFICES ASSUME srv[c].phase \in Alive PROVE Flow(c, tgt[c], q, s + 1)
    OBVIOUS
  <2>1. Flow(c, tgt[c], q, s) /\ NoFin(q, c)
    BY <1>3 DEF StreamInv
  <2> HIDE DEF q, s
  <2>2. s \in Nat
    BY DEF s
  <2> QED
    BY <1>1, <2>1, <2>2, FlowGrow
<1>5. srv'[c].phase \in Running => Guarded(c, srv'[c].sid, q)
  BY DEF StreamInv
<1>6. ~srv'[c].fin
  BY DEF StreamInv
<1> QED
  BY <1>2, <1>3, <1>4, <1>5, <1>6 DEF StreamInv

(* Another connection sends a frame. *)
LEMMA StreamForeign ==
  ASSUME NEW c \in Conns, NEW x \in Frames, StreamInv(c), schan[c] \in Seq(Frames), up \in Seq(Frames),
         link, Fed(c), Fed(c)', Pipe(c)' = Append(Pipe(c), x), x.conn # c,
         srv'[c] = srv[c], tgt'[c] = tgt[c], cl'[c] = cl[c], link' = link,
         srv[c].phase \in Running /\ x.sid = srv[c].sid => cl[c].phase \in Gone /\ cl[c].sid # 0
  PROVE  StreamInv(c)'
<1> DEFINE q == Pipe(c)
           r == Pipe(c)'
           w == tgt[c]
           s == cl[c].sent
<1>0. q \in Seq(Frames)
  BY PipeType
<1>1. Len(q) \in Nat /\ Len(r) = Len(q) + 1 /\ r[Len(r)] = x /\ \A i \in 1 .. Len(q) : r[i] = q[i]
  BY <1>0, Appended
<1>2. srv[c].phase \in Alive
  BY DEF Fed, Alive, Running
<1>3. Flow(c, w, q, s) /\ Whole(c, w, q, s) /\ (~cl[c].eof => NoFin(q, c))
  BY <1>2 DEF StreamInv
<1>4. ~Own(x, c, "Data") /\ ~Own(x, c, "Fin")
  BY DEF Own
<1>5. srv[c].phase \in Running => Guarded(c, srv[c].sid, q)
  BY DEF StreamInv
<1>6. srv[c].phase \in Running /\ x.sid = srv[c].sid => ClosedBefore(q, Len(q) + 1, c)
  BY DEF StreamInv
<1>7. cl[c].phase \in Gone /\ cl[c].sid # 0 => ClosedBefore(q, Len(q) + 1, c)
  BY DEF StreamInv
<1> HIDE DEF q, r, s, w
<1>8. Flow(c, w, r, s) /\ Whole(c, w, r, s)
  BY <1>1, <1>3, <1>4, FlowOther
<1>9. ~cl[c].eof => NoFin(r, c)
  BY <1>1, <1>3, <1>4, NoFinAppend
<1>10. srv[c].phase \in Running => Guarded(c, srv[c].sid, r)
  BY <1>1, <1>5, <1>6, GuardAppend
<1>11. cl[c].phase \in Gone /\ cl[c].sid # 0 => ClosedBefore(r, Len(r) + 1, c)
  BY <1>1, <1>7, ClosedAppend
<1>12. Numbered(w, c) /\ (srv[c].fin => cl[c].eof /\ Len(w) = s)
  BY DEF StreamInv, w, s
<1> USE DEF w, s, r
<1> QED
  BY <1>8, <1>9, <1>10, <1>11, <1>12 DEF StreamInv

(* It sends a frame itself. *)
LEMMA StreamOwn ==
  ASSUME NEW c \in Conns, NEW x \in Frames, StreamInv(c), schan[c] \in Seq(Frames), up \in Seq(Frames),
         Len(tgt[c]) \in Nat, cl[c].sent \in Nat,
         link, Fed(c), Fed(c)', Pipe(c)' = Append(Pipe(c), x), x.conn = c,
         srv'[c] = srv[c], tgt'[c] = tgt[c], link' = link,
         cl[c].eof => cl'[c].eof,
         x.ftype = "Data" => ~cl[c].eof /\ x.n = cl[c].sent + 1 /\ cl'[c].sent = cl[c].sent + 1,
         x.ftype # "Data" => cl'[c].sent = cl[c].sent,
         x.ftype = "Fin" => cl'[c].eof,
         cl'[c].phase \in Gone => x.ftype = "Close"
  PROVE  StreamInv(c)'
<1> DEFINE q == Pipe(c)
           r == Pipe(c)'
           w == tgt[c]
           s == cl[c].sent
<1>0. q \in Seq(Frames)
  BY PipeType
<1>1. Len(q) \in Nat /\ Len(r) = Len(q) + 1 /\ r[Len(r)] = x /\ \A i \in 1 .. Len(q) : r[i] = q[i]
  BY <1>0, Appended
<1>2. srv[c].phase \in Alive
  BY DEF Fed, Alive, Running
<1>3. Flow(c, w, q, s) /\ Whole(c, w, q, s) /\ (~cl[c].eof => NoFin(q, c))
  BY <1>2 DEF StreamInv
<1>4. srv[c].phase \in Running => Guarded(c, srv[c].sid, q)
  BY DEF StreamInv
<1>5. \A i \in 1 .. Len(q) : q[i].n \in Nat
  BY PipeType
<1>6. s \in Nat /\ Len(w) \in Nat
  OBVIOUS
<1>7. Numbered(w, c) /\ (srv[c].fin => cl[c].eof /\ Len(w) = s)
  BY DEF StreamInv
<1> HIDE DEF q, r, s, w
<1>8. Flow(c, w, r, cl'[c].sent) /\ Whole(c, w, r, cl'[c].sent)
  <2>1. CASE x.ftype = "Data"
    <3>1. IsData(x, c, s + 1) /\ NoFin(q, c) /\ cl'[c].sent = s + 1
      BY <1>3, <2>1 DEF IsData, s
    <3>2. Flow(c, w, r, s + 1) /\ Whole(c, w, r, s + 1)
      BY <1>1, <1>3, <1>5, <1>6, <3>1, FlowData
    <3> QED
      BY <3>1, <3>2
  <2>2. CASE x.ftype # "Data"
    <3>1. ~Own(x, c, "Data") /\ cl'[c].sent = s
      BY <2>2 DEF Own, s
    <3>2. Flow(c, w, r, s) /\ Whole(c, w, r, s)
      BY <1>1, <1>3, <3>1, FlowOther
    <3> QED
      BY <3>1, <3>2
  <2> QED
    BY <2>1, <2>2
<1>9. ~cl'[c].eof => NoFin(r, c)
  <2>1. ~cl'[c].eof => ~Own(x, c, "Fin")
    BY DEF Own
  <2> QED
    BY <1>1, <1>3, <2>1, NoFinAppend
<1>10. srv[c].phase \in Running => Guarded(c, srv[c].sid, r)
  BY <1>1, <1>4, GuardAppend
<1>11. cl'[c].phase \in Gone => ClosedBefore(r, Len(r) + 1, c)
  <2>1. cl'[c].phase \in Gone => Own(x, c, "Close")
    BY DEF Own
  <2> QED
    BY <1>1, <2>1, ClosedAppend
<1>12. srv[c].fin => cl'[c].eof /\ Len(w) = cl'[c].sent
  BY <1>7 DEF s
<1> USE DEF w, r
<1> QED
  BY <1>7, <1>8, <1>9, <1>10, <1>11, <1>12 DEF StreamInv

(* A frame of another connection arrives, and not in its channel. *)
LEMMA StreamDrop ==
  ASSUME NEW c \in Conns, StreamInv(c), schan[c] \in Seq(Frames), up \in Seq(Frames), up # <<>>,
         Fed(c) => Head(up).conn # c,
         up' = Tail(up), schan'[c] = schan[c], srv'[c] = srv[c], Fed(c)' <=> Fed(c),
         tgt'[c] = tgt[c], cl'[c] = cl[c], link' = link
  PROVE  StreamInv(c)'
<1>1. CASE ~Fed(c)
  <2>1. Pipe(c) = schan[c] /\ Pipe(c)' = schan[c]
    BY <1>1 DEF Pipe
  <2>2. Len(Pipe(c)) \in Nat
    BY PipeType
  <2> HIDE DEF Pipe
  <2> QED
    BY <1>1, <2>1, <2>2, StreamShorter
<1>2. CASE Fed(c)
  <2> DEFINE q == Pipe(c)
             r == Pipe(c)'
             w == tgt[c]
             s == cl[c].sent
             p == Len(schan[c]) + 1
  <2>1. q = schan[c] \o up /\ r = schan[c] \o Tail(up)
    BY <1>2 DEF Pipe
  <2>2. /\ p \in 1 .. Len(q) /\ q[p] = Head(up) /\ Len(r) = Len(q) - 1 /\ q \in Seq(Frames)
        /\ \A i \in 1 .. (p - 1) : r[i] = q[i]
        /\ \A i \in p .. Len(r) : r[i] = q[i + 1]
    <3> DEFINE a == schan[c]
    <3>1. a \in Seq(Frames) /\ q = a \o up /\ r = a \o Tail(up) /\ p = Len(a) + 1
      BY <2>1
    <3> HIDE DEF q, r, p, a
    <3> QED
      BY <3>1, PipeDrop
  <2>3. Len(q) \in Nat
    BY <2>2
  <2>4. srv[c].phase \in Alive
    BY <1>2 DEF Fed, Alive, Running
  <2>5. Flow(c, w, q, s) /\ (~cl[c].eof => NoFin(q, c)) /\ (link => Whole(c, w, q, s))
    BY <1>2, <2>4 DEF StreamInv
  <2>6. srv[c].phase \in Running => Guarded(c, srv[c].sid, q)
    BY DEF StreamInv
  <2>7. link /\ cl[c].phase \in Gone /\ cl[c].sid # 0 => ClosedBefore(q, Len(q) + 1, c)
    BY <1>2 DEF StreamInv
  <2>8. Numbered(w, c) /\ (srv[c].fin => cl[c].eof /\ Len(w) = s)
    BY DEF StreamInv
  <2>9. ~Own(q[p], c, "Data") /\ ~Own(q[p], c, "Close")
    BY <1>2, <2>2 DEF Own
  <2> HIDE DEF q, r, w, s, p
  <2>10. Flow(c, w, r, s) /\ (link => Whole(c, w, r, s))
    BY <2>2, <2>3, <2>5, <2>9, FlowDrop
  <2>11. ~cl[c].eof => NoFin(r, c)
    BY <2>2, <2>3, <2>5, NoFinDrop
  <2>12. srv[c].phase \in Running => Guarded(c, srv[c].sid, r)
    BY <2>2, <2>3, <2>6, <2>9, GuardDrop
  <2>13. link /\ cl[c].phase \in Gone /\ cl[c].sid # 0 => ClosedBefore(r, Len(r) + 1, c)
    BY <2>2, <2>3, <2>7, <2>9, ClosedDrop
  <2> USE DEF w, s, r
  <2> QED
    BY <2>8, <2>10, <2>11, <2>12, <2>13 DEF StreamInv
<1> QED
  BY <1>1, <1>2

(* Its Open arrives and its task starts. *)
LEMMA StreamOpen ==
  ASSUME NEW c \in Conns, StreamInv(c), UpInv, schan[c] = <<>>, up \in Seq(Frames), up # <<>>,
         Own(Head(up), c, "Open"), srv[c].phase = "idle",
         up' = Tail(up), schan'[c] = schan[c], tgt'[c] = tgt[c], cl'[c] = cl[c], link' = link,
         srv'[c].phase = "connect", srv'[c].sid = Head(up).sid, ~srv'[c].fin, Fed(c)'
  PROVE  StreamInv(c)'
<1> DEFINE q == Pipe(c)
           r == Pipe(c)'
           w == tgt[c]
           s == cl[c].sent
           e == schan[c]
<1>0. e \in Seq(Frames) /\ Len(e) = 0
  OBVIOUS
<1>1. Fed(c)
  BY DEF Fed
<1>2. q = e \o up /\ r = e \o Tail(up)
  BY <1>1 DEF Pipe
<1> HIDE DEF e
<1>3. /\ 1 \in 1 .. Len(q) /\ q[1] = Head(up) /\ Len(r) = Len(q) - 1 /\ q \in Seq(Frames)
      /\ \A i \in 1 .. (1 - 1) : r[i] = q[i]
      /\ \A i \in 1 .. Len(r) : r[i] = q[i + 1]
  <2> HIDE DEF q, r
  <2>1. Len(e) + 1 = 1
    BY <1>0
  <2>2. /\ Len(e) + 1 \in 1 .. Len(q) /\ q[Len(e) + 1] = Head(up) /\ Len(r) = Len(q) - 1 /\ q \in Seq(Frames)
        /\ \A i \in 1 .. ((Len(e) + 1) - 1) : r[i] = q[i]
        /\ \A i \in (Len(e) + 1) .. Len(r) : r[i] = q[i + 1]
    BY <1>0, <1>2, PipeDrop
  <2> QED
    BY <2>1, <2>2
<1>4. Len(q) \in Nat /\ Len(q) = Len(up) /\ \A i \in 1 .. Len(up) : q[i] = up[i]
  <2> HIDE DEF q
  <2>1. /\ Len(q) = Len(e) + Len(up) /\ Len(up) \in Nat
        /\ \A i \in 1 .. Len(up) : q[Len(e) + i] = up[i]
    BY <1>0, <1>2, PipeIs
  <2> QED
    BY <1>0, <2>1
<1>5. Flow(c, w, q, s) /\ (~cl[c].eof => NoFin(q, c)) /\ (link => Whole(c, w, q, s))
  BY <1>1 DEF StreamInv, Alive
<1>6. link /\ cl[c].phase \in Gone /\ cl[c].sid # 0 => ClosedBefore(q, Len(q) + 1, c)
  BY <1>1 DEF StreamInv
<1>7. Numbered(w, c)
  BY DEF StreamInv
<1>8. ~Own(q[1], c, "Data") /\ ~Own(q[1], c, "Close")
  BY <1>3 DEF Own
<1> HIDE DEF q, r, w, s
<1>9. Flow(c, w, r, s) /\ (link => Whole(c, w, r, s))
  BY <1>3, <1>4, <1>5, <1>8, FlowDrop
<1>10. ~cl[c].eof => NoFin(r, c)
  BY <1>3, <1>4, <1>5, NoFinDrop
<1>11. Guarded(c, Head(up).sid, r)
  <2> SUFFICES ASSUME NEW j \in 1 .. Len(r), r[j].sid = Head(up).sid, r[j].conn # c
               PROVE  ClosedBefore(r, j, c)
    BY DEF Guarded
  <2>1. j \in Nat /\ j >= 1 /\ j + 1 \in 1 .. Len(up) /\ r[j] = up[j + 1] /\ 1 \in 1 .. Len(up) /\ 1 < j + 1
    BY <1>3, <1>4
  <2>2. Head(up) = up[1] /\ up[1].conn = c /\ up[1].ftype = "Open"
    BY <1>3, <1>4 DEF Own
  <2>3. PICK l \in 1 .. ((j + 1) - 1) : Own(up[l], c, "Close")
    BY <2>1, <2>2 DEF UpInv, Grouped
  <2>4. l # 1
    BY <2>2, <2>3 DEF Own
  <2>5. l - 1 \in 1 .. (j - 1) /\ l - 1 \in 1 .. Len(r) /\ (l - 1) + 1 = l /\ l \in 1 .. Len(up)
    BY <1>3, <1>4, <2>1, <2>4
  <2>6. r[l - 1] = up[l]
    BY <1>3, <1>4, <2>5
  <2> QED
    BY <2>3, <2>5, <2>6 DEF ClosedBefore
<1>12. link /\ cl[c].phase \in Gone /\ cl[c].sid # 0 => ClosedBefore(r, Len(r) + 1, c)
  BY <1>3, <1>4, <1>6, <1>8, ClosedDrop
<1> USE DEF w, s, r
<1> QED
  BY <1>7, <1>9, <1>10, <1>11, <1>12 DEF StreamInv

(* Its task takes Data from the channel and writes it to the target. *)
LEMMA StreamData ==
  ASSUME NEW c \in Conns, StreamInv(c), schan[c] \in Seq(Frames), up \in Seq(Frames), schan[c] # <<>>,
         tgt[c] \in Seq(Frames), cl[c].sent \in Nat, srv[c].phase \in Running,
         Head(schan[c]).sid = srv[c].sid, Head(schan[c]).ftype = "Data",
         tgt'[c] = Append(tgt[c], Head(schan[c])), schan'[c] = Tail(schan[c]),
         srv'[c] = srv[c], ~srv[c].fin, up' = up, Fed(c)' <=> Fed(c), cl'[c] = cl[c], link' = link
  PROVE  StreamInv(c)'
<1> DEFINE q == Pipe(c)
           r == Pipe(c)'
           w == tgt[c]
           v == tgt'[c]
           s == cl[c].sent
<1>1. /\ q[1] = Head(schan[c]) /\ Len(r) = Len(q) - 1 /\ Len(q) \in Nat /\ Len(q) > 0
      /\ \A i \in 1 .. Len(r) : r[i] = q[i + 1]
  <2>1. CASE Fed(c)
    <3>1. q = schan[c] \o up /\ r = Tail(schan[c]) \o up
      BY <2>1 DEF Pipe
    <3>2. /\ (schan[c] \o up)[1] = Head(schan[c]) /\ Len(Tail(schan[c]) \o up) = Len(schan[c] \o up) - 1
          /\ Len(schan[c] \o up) \in Nat /\ Len(schan[c] \o up) > 0
          /\ \A i \in 1 .. Len(Tail(schan[c]) \o up) : (Tail(schan[c]) \o up)[i] = (schan[c] \o up)[i + 1]
      <4> DEFINE a == schan[c]
      <4>1. a \in Seq(Frames) /\ a # <<>> /\ schan[c] = a
        OBVIOUS
      <4> HIDE DEF a
      <4> QED
        BY <4>1, PipeTake, SMTT(30)
    <3> HIDE DEF q, r
    <3> QED
      BY <3>1, <3>2
  <2>2. CASE ~Fed(c)
    <3>1. q = schan[c] /\ r = Tail(schan[c])
      BY <2>2 DEF Pipe
    <3> HIDE DEF q, r
    <3>2. /\ Len(Tail(schan[c])) = Len(schan[c]) - 1 /\ Len(schan[c]) \in Nat /\ Len(schan[c]) > 0
          /\ Head(schan[c]) = schan[c][1]
          /\ \A i \in 1 .. (Len(schan[c]) - 1) : Tail(schan[c])[i] = schan[c][i + 1]
      BY Beheaded
    <3> QED
      BY <3>1, <3>2
  <2> QED
    BY <2>1, <2>2
<1>2. \A i \in 1 .. Len(q) : q[i].n \in Nat
  BY PipeType
<1>3. /\ Len(w) \in Nat /\ Len(v) = Len(w) + 1 /\ v[Len(v)] = Head(schan[c])
      /\ \A i \in 1 .. Len(w) : v[i] = w[i]
  <2>1. Head(schan[c]) \in Frames
    BY Beheaded
  <2> QED
    BY <2>1, Appended
<1>4. Flow(c, w, q, s) /\ Guarded(c, srv[c].sid, q) /\ Numbered(w, c) /\ (~cl[c].eof => NoFin(q, c))
  BY DEF StreamInv, Running, Alive
<1>5. link /\ Fed(c) => Whole(c, w, q, s)
  BY DEF StreamInv
<1>6. link /\ Fed(c) /\ cl[c].phase \in Gone /\ cl[c].sid # 0 => ClosedBefore(q, Len(q) + 1, c)
  BY DEF StreamInv
<1>7. s \in Nat
  OBVIOUS
<1> HIDE DEF q, r, w, v, s
<1>8. 1 \in 1 .. Len(q) /\ \A i \in 1 .. (1 - 1) : r[i] = q[i]
  BY <1>1
<1>9. q[1].conn = c
  <2>1. q[1].sid = srv[c].sid /\ q[1].conn # c => ClosedBefore(q, 1, c)
    BY <1>4, <1>8 DEF Guarded
  <2>2. ~ClosedBefore(q, 1, c)
    BY DEF ClosedBefore
  <2> QED
    BY <1>1, <2>1, <2>2
<1>10. Own(q[1], c, "Data") /\ ~Own(q[1], c, "Close")
  BY <1>1, <1>9 DEF Own
<1>11. Numbered(v, c) /\ Flow(c, v, r, s) /\ (Whole(c, w, q, s) => Whole(c, v, r, s))
  BY <1>1, <1>2, <1>3, <1>4, <1>7, <1>10, FlowTake
<1>12. ~cl[c].eof => NoFin(r, c)
  BY <1>1, <1>4, <1>8, NoFinDrop
<1>13. Guarded(c, srv[c].sid, r)
  BY <1>1, <1>4, <1>8, <1>10, GuardDrop
<1>14. link /\ Fed(c) /\ cl[c].phase \in Gone /\ cl[c].sid # 0 => ClosedBefore(r, Len(r) + 1, c)
  BY <1>1, <1>6, <1>8, <1>10, ClosedDrop
<1> USE DEF w, v, s, r
<1> QED
  BY <1>5, <1>11, <1>12, <1>13, <1>14 DEF StreamInv

(* Its task takes Fin from the channel. *)
LEMMA StreamFin ==
  ASSUME NEW c \in Conns, StreamInv(c), schan[c] \in Seq(Frames), up \in Seq(Frames), schan[c] # <<>>,
         tgt[c] \in Seq(Frames), cl[c].sent \in Nat, srv[c].phase \in Running,
         Head(schan[c]).sid = srv[c].sid, Head(schan[c]).ftype = "Fin",
         tgt'[c] = tgt[c], schan'[c] = Tail(schan[c]),
         srv'[c].sid = srv[c].sid, up' = up, Fed(c)' => Fed(c), cl'[c] = cl[c], link' = link,
         srv'[c].phase \in Running => (Fed(c)' <=> Fed(c)), srv'[c].phase # "idle"
  PROVE  StreamInv(c)'
<1> DEFINE q == Pipe(c)
           r == Pipe(c)'
           w == tgt[c]
           s == cl[c].sent
<1>0. /\ srv'[c].phase \in Alive => srv'[c].phase \in Running
      /\ Fed(c)' => srv'[c].phase \in Running
  BY DEF Alive, Running, Fed
<1>1. /\ q[1] = Head(schan[c]) /\ Len(q) \in Nat /\ Len(q) > 0
      /\ srv'[c].phase \in Running => Len(r) = Len(q) - 1 /\ \A i \in 1 .. Len(r) : r[i] = q[i + 1]
  <2>1. CASE Fed(c)
    <3>1. q = schan[c] \o up /\ (srv'[c].phase \in Running => r = Tail(schan[c]) \o up)
      BY <2>1 DEF Pipe
    <3>2. /\ (schan[c] \o up)[1] = Head(schan[c]) /\ Len(Tail(schan[c]) \o up) = Len(schan[c] \o up) - 1
          /\ Len(schan[c] \o up) \in Nat /\ Len(schan[c] \o up) > 0
          /\ \A i \in 1 .. Len(Tail(schan[c]) \o up) : (Tail(schan[c]) \o up)[i] = (schan[c] \o up)[i + 1]
      <4> DEFINE a == schan[c]
      <4>1. a \in Seq(Frames) /\ a # <<>> /\ schan[c] = a
        OBVIOUS
      <4> HIDE DEF a
      <4> QED
        BY <4>1, PipeTake
    <3> HIDE DEF q, r
    <3> QED
      BY <3>1, <3>2
  <2>2. CASE ~Fed(c)
    <3>1. q = schan[c] /\ (srv'[c].phase \in Running => r = Tail(schan[c]))
      BY <2>2 DEF Pipe
    <3> HIDE DEF q, r
    <3>2. /\ Len(Tail(schan[c])) = Len(schan[c]) - 1 /\ Len(schan[c]) \in Nat /\ Len(schan[c]) > 0
          /\ Head(schan[c]) = schan[c][1]
          /\ \A i \in 1 .. (Len(schan[c]) - 1) : Tail(schan[c])[i] = schan[c][i + 1]
      BY Beheaded
    <3> QED
      BY <3>1, <3>2
  <2> QED
    BY <2>1, <2>2
<1>2. Len(w) \in Nat /\ s \in Nat
  OBVIOUS
<1>3. Flow(c, w, q, s) /\ Guarded(c, srv[c].sid, q) /\ Numbered(w, c) /\ (~cl[c].eof => NoFin(q, c))
  BY DEF StreamInv, Running, Alive
<1>4. link /\ Fed(c) => Whole(c, w, q, s)
  BY DEF StreamInv
<1>5. link /\ Fed(c) /\ cl[c].phase \in Gone /\ cl[c].sid # 0 => ClosedBefore(q, Len(q) + 1, c)
  BY DEF StreamInv
<1> HIDE DEF q, r, w, s
<1>6. 1 \in 1 .. Len(q) /\ \A i \in 1 .. (1 - 1) : r[i] = q[i]
  BY <1>1
<1>7. q[1].conn = c
  <2>1. q[1].sid = srv[c].sid /\ q[1].conn # c => ClosedBefore(q, 1, c)
    BY <1>3, <1>6 DEF Guarded
  <2>2. ~ClosedBefore(q, 1, c)
    BY DEF ClosedBefore
  <2> QED
    BY <1>1, <2>1, <2>2
<1>8. Own(q[1], c, "Fin") /\ ~Own(q[1], c, "Data") /\ ~Own(q[1], c, "Close")
  BY <1>1, <1>7 DEF Own
<1>9. Len(w) = s
  BY <1>1, <1>2, <1>3, <1>8, FlowFin
<1>10. cl[c].eof
  BY <1>3, <1>6, <1>8 DEF NoFin
<1>11. srv'[c].phase \in Running => Flow(c, w, r, s) /\ (Whole(c, w, q, s) => Whole(c, w, r, s))
  BY <1>1, <1>3, <1>6, <1>8, FlowDrop
<1>12. srv'[c].phase \in Running => Guarded(c, srv[c].sid, r)
  BY <1>1, <1>3, <1>6, <1>8, GuardDrop
<1>13. link /\ Fed(c)' /\ cl[c].phase \in Gone /\ cl[c].sid # 0 => ClosedBefore(r, Len(r) + 1, c)
  BY <1>0, <1>1, <1>5, <1>6, <1>8, ClosedDrop
<1> USE DEF w, s, r
<1> QED
  BY <1>0, <1>3, <1>4, <1>9, <1>10, <1>11, <1>12, <1>13 DEF StreamInv

-----------------------------------------------------------------------------
(* The frames under way, continued.                                        *)

(* The tasks move and nothing is sent. *)
LEMMA UpSame ==
  ASSUME UpInv, up \in Seq(Frames), up' = up, link' => link,
         \A c \in Conns : srv'[c].phase = "idle" <=> srv[c].phase = "idle",
         \A c \in Conns : cl[c].phase \notin {"idle", "open"} =>
           /\ cl'[c].phase \notin {"idle", "open"} /\ cl'[c].sid = cl[c].sid
           /\ cl[c].phase \in Gone => cl'[c].phase \in Gone,
         link' => \A c \in Conns : cl[c].phase \notin {"idle", "open"} /\ cl'[c].phase \in Gone => cl[c].phase \in Gone,
         link' => \A c \in Conns : cl'[c].phase \notin {"idle", "open"} /\ cl'[c].sid # 0
                                     => cl[c].phase \notin {"idle", "open"} /\ cl[c].sid # 0
  PROVE  UpInv'
<1>1. \A j \in 1 .. Len(up) : up[j].conn \in Conns
  BY FrameIs
<1>2. FrameOwner'
  BY <1>1 DEF UpInv, FrameOwner
<1>3. FrameKinds'
  BY <1>1 DEF UpInv, FrameOwner, FrameKinds
<1>4. OpenAhead'
  BY <1>1 DEF UpInv, OpenAhead
<1>5. OwnOrder'
  BY DEF UpInv, OwnOrder
<1>6. Grouped'
  BY DEF UpInv, Grouped
<1>7. CloseBehind'
  <2> SUFFICES ASSUME link', NEW j \in 1 .. Len(up), cl'[up[j].conn].phase \in Gone
               PROVE  \E l \in j .. Len(up) : Own(up[l], up[j].conn, "Close")
    BY DEF CloseBehind
  <2>1. cl[up[j].conn].phase \in Gone
    BY <1>1 DEF UpInv, FrameOwner
  <2> QED
    BY <2>1 DEF UpInv, CloseBehind
<1>8. OpenUnderway'
  BY DEF UpInv, OpenUnderway
<1> QED
  BY <1>2, <1>3, <1>4, <1>5, <1>6, <1>7, <1>8 DEF UpInv

(* The SRT connection is lost. *)
LEMMA UpCut ==
  ASSUME UpInv, up \in Seq(Frames), NEW n \in 0 .. Len(up), up' = SubSeq(up, 1, n), ~link',
         srv' = srv, cl' = cl
  PROVE  UpInv'
<1>1. Len(up) \in Nat /\ Len(up') = n /\ \A i \in 1 .. n : up'[i] = up[i]
  BY SubSeqProperties
<1>2. /\ \A i \in 1 .. n : i \in 1 .. Len(up)
      /\ \A j \in 1 .. n : \A i \in 1 .. j : i \in 1 .. n
      /\ \A i, j \in 1 .. n : \A l \in i .. (j - 1) : l \in 1 .. n
  BY <1>1
<1>3. FrameOwner'
  BY <1>1, <1>2 DEF UpInv, FrameOwner
<1>4. FrameKinds'
  BY <1>1, <1>2 DEF UpInv, FrameKinds
<1>5. OpenAhead'
  <2> SUFFICES ASSUME NEW j \in 1 .. n, srv[up[j].conn].phase = "idle"
               PROVE  \E i \in 1 .. j : Own(up'[i], up[j].conn, "Open")
    BY <1>1 DEF OpenAhead
  <2>1. PICK i \in 1 .. j : Own(up[i], up[j].conn, "Open")
    BY <1>2 DEF UpInv, OpenAhead
  <2> QED
    BY <1>1, <1>2, <2>1
<1>6. OwnOrder'
  BY <1>1, <1>2 DEF UpInv, OwnOrder
<1>7. Grouped'
  <2> SUFFICES ASSUME NEW i \in 1 .. n, NEW j \in 1 .. n, i < j, up[i].sid = up[j].sid, up[i].conn # up[j].conn
               PROVE  \E l \in i .. (j - 1) : Own(up'[l], up[i].conn, "Close")
    BY <1>1 DEF Grouped
  <2>1. PICK l \in i .. (j - 1) : Own(up[l], up[i].conn, "Close")
    BY <1>2 DEF UpInv, Grouped
  <2> QED
    BY <1>1, <1>2, <2>1
<1> QED
  BY <1>3, <1>4, <1>5, <1>6, <1>7 DEF UpInv, CloseBehind, OpenUnderway

(* A connection sends a frame. *)
LEMMA UpAppend ==
  ASSUME UpInv, up \in Seq(Frames), NEW x \in Frames, NEW c0 \in Conns, x.conn = c0,
         up' = Append(up, x), link, link' = link, srv' = srv,
         \A c \in Conns : c # c0 => cl'[c] = cl[c],
         x.sid = cl[c0].sid, cl'[c0].sid = cl[c0].sid, cl[c0].sid # 0,
         cl[c0].phase \notin Gone, cl'[c0].phase \notin {"idle", "open"},
         x.ftype = "Open" => cl[c0].phase = "open" /\ srv[c0].phase = "idle",
         x.ftype # "Open" => cl[c0].phase \notin {"idle", "open"},
         cl'[c0].phase \in Gone <=> x.ftype = "Close",
         \A d \in Conns : d # c0 /\ cl[d].sid = cl[c0].sid => cl[d].phase \in Gone
  PROVE  UpInv'
<1> DEFINE l == Len(up)
           u == up'
<1>1. l \in Nat /\ Len(u) = l + 1 /\ u[l + 1] = x /\ \A i \in 1 .. l : u[i] = up[i]
  BY Appended
<1>2. \A i \in 1 .. l : up[i].conn \in Conns
  BY FrameIs
<1>3. /\ \A j \in 1 .. l : up[j].sid = cl[up[j].conn].sid /\ cl[up[j].conn].phase \notin {"idle", "open"}
      /\ \A j \in 1 .. l : /\ up[j].ftype = "Open" => srv[up[j].conn].phase = "idle"
                           /\ up[j].ftype = "Close" => cl[up[j].conn].phase \in Gone
      /\ \A j \in 1 .. l : srv[up[j].conn].phase = "idle" => \E i \in 1 .. j : Own(up[i], up[j].conn, "Open")
      /\ \A i, j \in 1 .. l : i < j /\ up[i].conn = up[j].conn => up[j].ftype # "Open" /\ up[i].ftype # "Close"
      /\ \A i, j \in 1 .. l : i < j /\ up[i].sid = up[j].sid /\ up[i].conn # up[j].conn
           => \E k \in i .. (j - 1) : Own(up[k], up[i].conn, "Close")
      /\ \A j \in 1 .. l : cl[up[j].conn].phase \in Gone => \E k \in j .. l : Own(up[k], up[j].conn, "Close")
      /\ \A c \in Conns :
            srv[c].phase = "idle" /\ cl[c].phase \notin {"idle", "open"} /\ cl[c].sid # 0
              => \E i \in 1 .. l : Own(up[i], c, "Open")
  BY DEF UpInv, FrameOwner, FrameKinds, OpenAhead, OwnOrder, Grouped, CloseBehind, OpenUnderway
<1> HIDE DEF l, u
<1>4. /\ \A j \in 1 .. (l + 1) : j \in 1 .. l \/ j = l + 1
      /\ \A i, j \in 1 .. (l + 1) : i < j => i \in 1 .. l
      /\ l + 1 \in 1 .. (l + 1) /\ \A i \in 1 .. l : i \in 1 .. (l + 1) /\ i < l + 1
      /\ \A j \in 1 .. l : \A i \in 1 .. j : i \in 1 .. l
      /\ \A i, j \in 1 .. l : \A k \in i .. (j - 1) : k \in 1 .. l
      /\ \A j \in 1 .. l : \A k \in j .. l : k \in 1 .. l /\ k \in j .. (l + 1) /\ k \in j .. ((l + 1) - 1)
      /\ \A j \in 1 .. (l + 1) : l + 1 \in j .. (l + 1)
  BY <1>1
<1>5. FrameOwner'
  <2>1. \A j \in 1 .. (l + 1) : u[j].sid = cl'[u[j].conn].sid /\ cl'[u[j].conn].phase \notin {"idle", "open"}
    BY <1>1, <1>2, <1>3, <1>4, SMTT(30)
  <2> QED
    BY <1>1, <2>1 DEF FrameOwner, u
<1>6. FrameKinds'
  <2>1. \A j \in 1 .. (l + 1) : /\ u[j].ftype = "Open" => srv[u[j].conn].phase = "idle"
                                /\ u[j].ftype = "Close" => cl'[u[j].conn].phase \in Gone
    BY <1>1, <1>2, <1>3, <1>4, SMTT(30)
  <2> QED
    BY <1>1, <2>1 DEF FrameKinds, u
<1>7. OpenAhead'
  <2>1. ASSUME NEW j \in 1 .. l, srv[u[j].conn].phase = "idle"
        PROVE  \E i \in 1 .. j : Own(u[i], u[j].conn, "Open")
    <3>1. PICK i \in 1 .. j : Own(up[i], up[j].conn, "Open")
      BY <1>1, <1>3, <2>1
    <3> QED
      BY <1>1, <1>4, <3>1
  <2>2. ASSUME srv[c0].phase = "idle"
        PROVE  \E i \in 1 .. (l + 1) : Own(u[i], c0, "Open")
    <3>1. CASE x.ftype = "Open"
      BY <1>1, <1>4, <3>1 DEF Own
    <3>2. CASE x.ftype # "Open"
      <4>1. PICK i \in 1 .. l : Own(up[i], c0, "Open")
        BY <1>3, <2>2, <3>2
      <4> QED
        BY <1>1, <1>4, <4>1
    <3> QED
      BY <3>1, <3>2
  <2>3. \A j \in 1 .. (l + 1) : srv[u[j].conn].phase = "idle" => \E i \in 1 .. j : Own(u[i], u[j].conn, "Open")
    BY <1>1, <1>4, <2>1, <2>2
  <2> QED
    BY <1>1, <2>3 DEF OpenAhead, u
<1>8. OwnOrder'
  <2> SUFFICES ASSUME NEW i \in 1 .. (l + 1), NEW j \in 1 .. (l + 1), i < j, u[i].conn = u[j].conn
               PROVE  u[j].ftype # "Open" /\ u[i].ftype # "Close"
    BY <1>1 DEF OwnOrder, u
  <2>1. i \in 1 .. l /\ u[i] = up[i]
    BY <1>1, <1>4
  <2>2. CASE j \in 1 .. l
    BY <1>1, <1>3, <2>1, <2>2
  <2>3. CASE j = l + 1
    <3>1. up[i].conn = c0 /\ u[j] = x
      BY <1>1, <2>1, <2>3
    <3>2. cl[c0].phase \notin {"idle", "open"} /\ (up[i].ftype = "Close" => cl[c0].phase \in Gone)
      BY <1>3, <2>1, <3>1
    <3> QED
      BY <2>1, <3>1, <3>2
  <2> QED
    BY <1>4, <2>2, <2>3
<1>9. Grouped'
  <2> SUFFICES ASSUME NEW i \in 1 .. (l + 1), NEW j \in 1 .. (l + 1), i < j,
                      u[i].sid = u[j].sid, u[i].conn # u[j].conn
               PROVE  \E k \in i .. (j - 1) : Own(u[k], u[i].conn, "Close")
    BY <1>1 DEF Grouped, u
  <2>1. i \in 1 .. l /\ u[i] = up[i]
    BY <1>1, <1>4
  <2>2. CASE j \in 1 .. l
    <3>1. PICK k \in i .. (j - 1) : Own(up[k], up[i].conn, "Close")
      BY <1>1, <1>3, <2>1, <2>2
    <3> QED
      BY <1>1, <1>4, <2>1, <2>2, <3>1
  <2>3. CASE j = l + 1
    <3>1. up[i].conn # c0 /\ up[i].sid = cl[c0].sid /\ up[i].sid = cl[up[i].conn].sid
      BY <1>1, <1>3, <2>1, <2>3
    <3>2. cl[up[i].conn].phase \in Gone
      BY <1>2, <2>1, <3>1
    <3>3. PICK k \in i .. l : Own(up[k], up[i].conn, "Close")
      BY <1>3, <2>1, <3>2
    <3> QED
      BY <1>1, <1>4, <2>1, <2>3, <3>3
  <2> QED
    BY <1>4, <2>2, <2>3
<1>10. CloseBehind'
  <2> SUFFICES ASSUME NEW j \in 1 .. (l + 1), cl'[u[j].conn].phase \in Gone
               PROVE  \E k \in j .. (l + 1) : Own(u[k], u[j].conn, "Close")
    BY <1>1 DEF CloseBehind, u
  <2>1. CASE u[j].conn = c0
    <3>1. Own(u[l + 1], c0, "Close")
      BY <1>1, <2>1 DEF Own
    <3> QED
      BY <1>4, <2>1, <3>1
  <2>2. CASE u[j].conn # c0
    <3>1. j \in 1 .. l /\ u[j] = up[j]
      BY <1>1, <1>4, <2>2
    <3>2. cl[up[j].conn].phase \in Gone
      BY <1>2, <2>2, <3>1
    <3>3. PICK k \in j .. l : Own(up[k], up[j].conn, "Close")
      BY <1>3, <3>1, <3>2
    <3> QED
      BY <1>1, <1>4, <3>1, <3>3
  <2> QED
    BY <2>1, <2>2
<1>11. OpenUnderway'
  <2> SUFFICES ASSUME NEW c \in Conns, srv[c].phase = "idle", cl'[c].phase \notin {"idle", "open"}, cl'[c].sid # 0
               PROVE  \E i \in 1 .. (l + 1) : Own(u[i], c, "Open")
    BY <1>1 DEF OpenUnderway, u
  <2>1. CASE c = c0 /\ x.ftype = "Open"
    BY <1>1, <1>4, <2>1 DEF Own
  <2>2. CASE ~(c = c0 /\ x.ftype = "Open")
    <3>1. cl[c].phase \notin {"idle", "open"} /\ cl[c].sid # 0
      BY <2>2
    <3>2. PICK i \in 1 .. l : Own(up[i], c, "Open")
      BY <1>3, <3>1
    <3> QED
      BY <1>1, <1>4, <3>2
  <2> QED
    BY <2>1, <2>2
<1> QED
  BY <1>5, <1>6, <1>7, <1>8, <1>9, <1>10, <1>11 DEF UpInv

-----------------------------------------------------------------------------
(* Tasks.                                                                  *)

LEMMA TaskIs ==
  ASSUME NEW P, NEW t \in Tasks(P)
  PROVE  /\ t.phase \in P /\ t.sid \in Sids \cup {0} /\ t.sent \in Nat /\ t.eof \in BOOLEAN /\ t.fin \in BOOLEAN
  BY DEF Tasks

LEMMA TaskPhase ==
  ASSUME NEW P, NEW t \in Tasks(P), NEW p \in P
  PROVE  LET u == [t EXCEPT !.phase = p]
         IN  u \in Tasks(P) /\ u.phase = p /\ u.sid = t.sid /\ u.sent = t.sent /\ u.eof = t.eof /\ u.fin = t.fin
  BY DEF Tasks

LEMMA TaskSent ==
  ASSUME NEW P, NEW t \in Tasks(P)
  PROVE  LET u == [t EXCEPT !.sent = @ + 1]
         IN  u \in Tasks(P) /\ u.phase = t.phase /\ u.sid = t.sid /\ u.sent = t.sent + 1 /\ u.eof = t.eof /\ u.fin = t.fin
  BY DEF Tasks

LEMMA AfterReadIs ==
  ASSUME NEW P, NEW t \in Tasks(P), "exit" \in P, NEW ok \in BOOLEAN
  PROVE  LET u == AfterRead(t, ok)
         IN  /\ u \in Tasks(P) /\ u.sid = t.sid /\ u.eof = t.eof /\ u.fin = t.fin
             /\ u.phase \in {t.phase, "exit"} /\ u.sent \in {t.sent, t.sent + 1}
             /\ ok => u.sent = t.sent + 1
<1>1. CASE ok
  BY <1>1, TaskSent DEF AfterRead
<1>2. CASE ~ok
  BY <1>2, TaskPhase DEF AfterRead, Leave
<1> QED
  BY <1>1, <1>2

LEMMA AfterEofIs ==
  ASSUME NEW P, NEW t \in Tasks(P), "exit" \in P, NEW ok \in BOOLEAN
  PROVE  LET u == AfterEof(t, ok)
         IN  /\ u \in Tasks(P) /\ u.sid = t.sid /\ u.sent = t.sent /\ u.fin = t.fin
             /\ u.phase \in {t.phase, "exit"} /\ (t.eof => u.eof) /\ (ok => u.eof)
<1>1. CASE ok
  <2> DEFINE p == IF t.fin THEN "exit" ELSE t.phase
  <2>1. p \in P /\ p \in {t.phase, "exit"}
    BY TaskIs
  <2>2. AfterEof(t, ok) = [t EXCEPT !.eof = TRUE, !.phase = p]
    BY <1>1 DEF AfterEof
  <2> HIDE DEF p
  <2> DEFINE v == AfterEof(t, ok)
  <2>3. /\ v \in Tasks(P) /\ v.phase = p /\ v.sid = t.sid /\ v.sent = t.sent
        /\ v.fin = t.fin /\ v.eof = TRUE
    BY <2>1, <2>2 DEF Tasks
  <2> HIDE DEF v
  <2>4. v.eof
    BY <2>3, Zenon
  <2>5. /\ v \in Tasks(P) /\ v.sid = t.sid /\ v.sent = t.sent /\ v.fin = t.fin
        /\ v.phase \in {t.phase, "exit"}
    BY <2>1, <2>3, Zenon
  <2> QED
    BY <1>1, <2>4, <2>5, Zenon DEF v
<1>2. CASE ~ok
  BY <1>2, TaskPhase DEF AfterEof, Leave
<1> QED
  BY <1>1, <1>2

LEMMA AfterEventIs ==
  ASSUME NEW P, NEW t \in Tasks(P), "exit" \in P, NEW f \in {"Data", "Fin", "Close"}, NEW write \in BOOLEAN
  PROVE  LET u == AfterEvent(t, f, write)
         IN  /\ u \in Tasks(P) /\ u.sid = t.sid /\ u.sent = t.sent /\ u.eof = t.eof
             /\ u.phase \in {t.phase, "exit"}
             /\ f = "Data" /\ write => u = t
             /\ f # "Fin" => u.fin = t.fin
             /\ f # "Fin" /\ ~(f = "Data" /\ write) => u.phase = "exit"
             /\ f = "Fin" => u.fin
<1>1. CASE f = "Fin"
  <2> DEFINE p == IF t.eof THEN "exit" ELSE t.phase
  <2>1. p \in P /\ p \in {t.phase, "exit"}
    BY TaskIs
  <2>2. AfterEvent(t, f, write) = [t EXCEPT !.fin = TRUE, !.phase = p]
    BY <1>1 DEF AfterEvent
  <2> HIDE DEF p
  <2> DEFINE v == AfterEvent(t, f, write)
  <2>3. /\ v \in Tasks(P) /\ v.phase = p /\ v.sid = t.sid /\ v.sent = t.sent
        /\ v.eof = t.eof /\ v.fin = TRUE
    BY <2>1, <2>2 DEF Tasks
  <2> HIDE DEF v
  <2>4. v.fin
    BY <2>3, Zenon
  <2>5. /\ v \in Tasks(P) /\ v.sid = t.sid /\ v.sent = t.sent /\ v.eof = t.eof
        /\ v.phase \in {t.phase, "exit"}
    BY <2>1, <2>3, Zenon
  <2> QED
    BY <1>1, <2>4, <2>5, Zenon DEF v
<1>2. CASE f = "Data" /\ write
  <2>1. AfterEvent(t, f, write) = t
    BY <1>2 DEF AfterEvent
  <2> QED
    BY <1>2, <2>1
<1>3. CASE f # "Fin" /\ ~(f = "Data" /\ write)
  <2>1. AfterEvent(t, f, write) = [t EXCEPT !.phase = "exit"]
    BY <1>3 DEF AfterEvent, Leave
  <2> QED
    BY <1>3, <2>1, TaskPhase
<1> QED
  BY <1>1, <1>2, <1>3

(* The id allocate takes is free. *)
LEMMA FirstFreeIs ==
  ASSUME NEW reg \in Registries, ~Full(reg), NEW k \in 0 .. (MAX_SESSIONS - 1)
  PROVE  /\ FirstFree(reg, k) \in Sids /\ reg[FirstFree(reg, k)] = NoOwner
         /\ NextId(FirstFree(reg, k)) \in 0 .. (MAX_SESSIONS - 1)
<1> DEFINE free == Sids \ Occupied(reg)
           try == {TriesBefore(k, sid) : sid \in free}
<1>0. MAX_SESSIONS \in Nat /\ MAX_SESSIONS > 1
  BY RegistryAssumption
<1>1. free # {}
  <2> SUFFICES ASSUME free = {} PROVE FALSE
    OBVIOUS
  <2>1. Occupied(reg) = 1 .. (MAX_SESSIONS - 1)
    BY DEF Occupied, Sids
  <2>2. Cardinality(1 .. (MAX_SESSIONS - 1)) = MAX_SESSIONS - 1
    <3>1. MAX_SESSIONS - 1 \in Nat
      BY <1>0
    <3> QED
      BY <1>0, <3>1, FS_Interval
  <2> QED
    BY <1>0, <2>1, <2>2 DEF Full
<1>2. \A sid \in free : TriesBefore(k, sid) \in Nat
  <2> SUFFICES ASSUME NEW sid \in free PROVE TriesBefore(k, sid) \in Nat
    OBVIOUS
  <2>1. sid - k \in Int
    BY <1>0 DEF Sids
  <2> QED
    BY <1>0, <2>1 DEF TriesBefore
<1>3. try \subseteq Nat /\ try # {}
  BY <1>1, <1>2
<1>4. PICK n \in try : \A m \in try : n <= m
  BY <1>3, LeastNat
<1>5. PICK sid \in free : n = TriesBefore(k, sid)
  BY <1>4
<1>6. \A other \in free : TriesBefore(k, sid) <= TriesBefore(k, other)
  BY <1>4, <1>5
<1>7. FirstFree(reg, k) \in free
  <2> HIDE DEF free
  <2>1. FirstFree(reg, k) =
          CHOOSE s \in free : \A other \in free : TriesBefore(k, s) <= TriesBefore(k, other)
    BY DEF FirstFree, free
  <2> QED
    BY <1>6, <2>1, Zenon
<1>8. FirstFree(reg, k) \in Sids /\ reg[FirstFree(reg, k)] = NoOwner
  BY <1>7 DEF Occupied
<1>9. \A s \in Sids : NextId(s) \in 0 .. (MAX_SESSIONS - 1)
  BY <1>0 DEF Sids, NextId
<1> QED
  BY <1>8, <1>9

LEMMA EmptyTable ==
  NoSessions \in Registries /\ \A s \in Sids : NoSessions[s] = NoOwner
  BY DEF NoSessions, Registries

LEMMA NoOwnerIsNone == NoOwner \notin Conns
  BY RegistryAssumption DEF Conns

LEMMA FrameMade ==
  ASSUME NEW f \in {"Open", "Data", "Fin", "Close", "Rst"}, NEW sid \in Sids, NEW c \in Conns, NEW n \in Nat
  PROVE  LET x == Msg(f, sid, c, n)
         IN  x \in Frames /\ x.ftype = f /\ x.sid = sid /\ x.conn = c /\ x.n = n
  BY DEF Msg, Frames

-----------------------------------------------------------------------------
(* Steps of the client.                                                    *)

LEMMA Typed ==
  ASSUME TunnelTypes, NEW c \in Conns
  PROVE  /\ cl[c] \in CTask /\ srv[c] \in STask
         /\ cl[c].sent \in Nat /\ cl[c].sid \in Sids \cup {0} /\ srv[c].sid \in Sids \cup {0}
         /\ cl[c].phase \in {"idle", "open", "loop", "exit", "drop", "done"}
         /\ srv[c].phase \in {"idle", "refused", "connect", "loop", "exit", "notify", "cleanup", "done"}
         /\ schan[c] \in Seq(Frames) /\ tgt[c] \in Seq(Frames) /\ Len(tgt[c]) \in Nat /\ up \in Seq(Frames)
<1>1. cl[c] \in CTask /\ srv[c] \in STask /\ schan[c] \in Seq(Frames) /\ tgt[c] \in Seq(Frames) /\ up \in Seq(Frames)
  BY DEF TunnelTypes
<1>2. /\ cl[c].phase \in {"idle", "open", "loop", "exit", "drop", "done"}
      /\ cl[c].sent \in Nat /\ cl[c].sid \in Sids \cup {0}
  BY <1>1, TaskIs DEF CTask
<1>3. /\ srv[c].phase \in {"idle", "refused", "connect", "loop", "exit", "notify", "cleanup", "done"}
      /\ srv[c].sid \in Sids \cup {0}
  BY <1>1, TaskIs DEF STask
<1> QED
  BY <1>1, <1>2, <1>3

LEMMA ZeroIsNone == 0 \notin Sids
  BY DEF Sids

(* A task of the client moves and nothing is sent. *)
LEMMA ClientKeeps ==
  ASSUME TunnelInv, NEW c0 \in Conns, NEW t \in CTask,
         cl' = [cl EXCEPT ![c0] = t], up' = up, link' = link, UNCHANGED serverVars,
         creg' \in Registries, next_id' \in 0 .. (MAX_SESSIONS - 1),
         link => \A c \in Conns : cl'[c].phase \in Active => creg'[cl'[c].sid] = c,
         t.sent = cl[c0].sent \/ (~link /\ t.sent = cl[c0].sent + 1 /\ ~cl[c0].eof /\ ~t.eof),
         cl[c0].eof => t.eof,
         cl[c0].phase \notin {"idle", "open"} =>
           t.phase \notin {"idle", "open"} /\ t.sid = cl[c0].sid /\ (cl[c0].phase \in Gone => t.phase \in Gone),
         link /\ cl[c0].phase \notin {"idle", "open"} /\ t.phase \in Gone => cl[c0].phase \in Gone,
         link /\ t.phase \notin {"idle", "open"} /\ t.sid # 0 => cl[c0].phase \notin {"idle", "open"} /\ cl[c0].sid # 0,
         t.sid = 0 => t.phase \in {"idle", "done"} /\ srv[c0].phase = "idle",
         t.phase = "idle" => t.sid = 0,
         t.phase = "open" => srv[c0].phase = "idle",
         srv[c0].phase # "idle" => t.sid = cl[c0].sid
  PROVE  TunnelInv'
<1>0. TunnelTypes /\ Owned /\ Named /\ UpInv /\ \A c \in Conns : StreamInv(c)
  BY DEF TunnelInv
<1>1. /\ sreg' = sreg /\ srv' = srv /\ schan' = schan /\ tgt' = tgt
  BY DEF serverVars
<1>2. cl \in [Conns -> CTask]
  BY <1>0 DEF TunnelTypes
<1>3. cl' \in [Conns -> CTask] /\ cl'[c0] = t /\ \A c \in Conns : c # c0 => cl'[c] = cl[c]
  BY <1>2
<1>4. TunnelTypes'
  BY <1>0, <1>1, <1>3 DEF TunnelTypes
<1>5. Owned'
  BY <1>0, <1>1 DEF Owned
<1>6. Named'
  BY <1>0, <1>1, <1>3 DEF Named
<1>7. up \in Seq(Frames)
  BY <1>0 DEF TunnelTypes
<1>8. UpInv'
  BY <1>0, <1>1, <1>3, <1>7, UpSame
<1>9. ASSUME NEW c \in Conns PROVE StreamInv(c)'
  <2>1. (Fed(c)' <=> Fed(c)) /\ Pipe(c)' = Pipe(c)
    BY <1>1 DEF Fed, Pipe
  <2>2. /\ schan[c] \in Seq(Frames) /\ Len(tgt[c]) \in Nat /\ cl[c].sent \in Nat
    BY <1>0, Typed
  <2>3. Len(Pipe(c)) \in Nat /\ \A i \in 1 .. Len(Pipe(c)) : Pipe(c)'[i] = Pipe(c)[i]
    BY <1>7, <2>1, <2>2, PipeType
  <2>4. StreamInv(c)
    BY <1>0
  <2>5. srv'[c] = srv[c] /\ tgt'[c] = tgt[c] /\ (cl[c].eof => cl'[c].eof)
    BY <1>1, <1>3
  <2>6. link /\ cl'[c].phase \in Gone /\ cl'[c].sid # 0 => cl[c].phase \in Gone /\ cl[c].sid # 0
    BY <1>3 DEF Gone
  <2>7. CASE cl'[c].sent = cl[c].sent
    <3>1. Len(Pipe(c)') <= Len(Pipe(c)) /\ Len(Pipe(c)') \in Nat
      BY <2>1, <2>3
    <3> QED
      BY <2>1, <2>3, <2>4, <2>5, <2>6, <2>7, <3>1, StreamShorter
  <2>8. CASE cl'[c].sent # cl[c].sent
    <3>1. ~link /\ cl'[c].sent = cl[c].sent + 1 /\ ~cl[c].eof /\ ~cl'[c].eof
      BY <1>3, <2>8
    <3> QED
      BY <1>7, <2>1, <2>2, <2>4, <2>5, <3>1, StreamGrow
  <2> QED
    BY <2>7, <2>8
<1> QED
  BY <1>4, <1>5, <1>6, <1>8, <1>9 DEF TunnelInv

(* A task of the client sends a frame. *)
LEMMA ClientPuts ==
  ASSUME TunnelInv, NEW c0 \in Conns, NEW t \in CTask, NEW x \in Frames,
         cl' = [cl EXCEPT ![c0] = t], link, link' = link, up' = Append(up, x), UNCHANGED serverVars,
         UNCHANGED <<creg, next_id>>,
         x.conn = c0, x.sid = cl[c0].sid,
         cl[c0].phase \in {"open", "loop", "exit"},
         t.sid = cl[c0].sid, t.phase \in {"loop", "exit", "drop"},
         x.ftype = "Open" <=> cl[c0].phase = "open",
         x.ftype = "Close" <=> t.phase = "drop",
         x.ftype = "Data" => ~cl[c0].eof /\ x.n = cl[c0].sent + 1 /\ t.sent = cl[c0].sent + 1 /\ ~t.eof,
         x.ftype # "Data" => t.sent = cl[c0].sent,
         x.ftype = "Fin" => t.eof,
         cl[c0].eof => t.eof
  PROVE  TunnelInv'
<1>0. TunnelTypes /\ Owned /\ Named /\ UpInv /\ \A c \in Conns : StreamInv(c)
  BY DEF TunnelInv
<1>1. /\ sreg' = sreg /\ srv' = srv /\ schan' = schan /\ tgt' = tgt /\ creg' = creg /\ next_id' = next_id
  BY DEF serverVars
<1>2. cl \in [Conns -> CTask]
  BY <1>0 DEF TunnelTypes
<1>3. cl' \in [Conns -> CTask] /\ cl'[c0] = t /\ \A c \in Conns : c # c0 => cl'[c] = cl[c]
  BY <1>2
<1>4. up \in Seq(Frames) /\ up' \in Seq(Frames)
  <2>1. up \in Seq(Frames)
    BY <1>0 DEF TunnelTypes
  <2> QED
    BY <2>1, Appended
<1>5. TunnelTypes'
  BY <1>0, <1>1, <1>3, <1>4 DEF TunnelTypes
<1>6. cl[c0].phase \in Active /\ t.phase \in Active /\ cl[c0].phase \notin Gone /\ cl[c0].sid # 0
  <2>1. cl[c0].phase \notin {"idle", "done"}
    OBVIOUS
  <2>2. cl[c0].sid # 0
    BY <1>0, <2>1 DEF Named
  <2> QED
    BY <2>2 DEF Active, Gone
<1>7. Owned'
  BY <1>0, <1>1, <1>3, <1>6 DEF Owned
<1>8. Named'
  BY <1>0, <1>1, <1>3, <1>6 DEF Named
<1>9. \A d \in Conns : d # c0 /\ cl[d].sid = cl[c0].sid => cl[d].phase \in Gone
  <2> SUFFICES ASSUME NEW d \in Conns, d # c0, cl[d].sid = cl[c0].sid PROVE cl[d].phase \in Gone
    OBVIOUS
  <2>1. cl[d].phase \notin Active
    BY <1>0, <1>6 DEF Owned
  <2>2. cl[d].phase # "idle"
    BY <1>0, <1>6 DEF Named
  <2>3. cl[d].phase \in {"idle", "open", "loop", "exit", "drop", "done"}
    BY <1>0, Typed
  <2> QED
    BY <2>1, <2>2, <2>3 DEF Active, Gone
<1>10. UpInv'
  <2>1. x.ftype = "Open" => cl[c0].phase = "open" /\ srv[c0].phase = "idle"
    BY <1>0 DEF Named
  <2>2. x.ftype # "Open" => cl[c0].phase \notin {"idle", "open"}
    OBVIOUS
  <2>3. cl'[c0].phase \in Gone <=> x.ftype = "Close"
    BY <1>3 DEF Gone
  <2>4. cl'[c0].phase \notin {"idle", "open"}
    BY <1>3
  <2> QED
    BY <1>0, <1>1, <1>3, <1>4, <1>6, <1>9, <2>1, <2>2, <2>3, <2>4, UpAppend
<1>11. ASSUME NEW c \in Conns PROVE StreamInv(c)'
  <2>1. (Fed(c)' <=> Fed(c))
    BY <1>1 DEF Fed
  <2>2. /\ schan[c] \in Seq(Frames) /\ Len(tgt[c]) \in Nat /\ cl[c].sent \in Nat
    BY <1>0, Typed
  <2>3. Len(Pipe(c)) \in Nat
    BY <1>4, <2>2, PipeType
  <2>4. StreamInv(c)
    BY <1>0
  <2>5. srv'[c] = srv[c] /\ tgt'[c] = tgt[c]
    BY <1>1
  <2>6. CASE Fed(c)
    <3>1. Pipe(c)' = Append(Pipe(c), x)
      <4>1. Pipe(c) = schan[c] \o up /\ Pipe(c)' = schan[c] \o Append(up, x)
        BY <1>1, <2>1, <2>6 DEF Pipe
      <4> DEFINE a == schan[c]
      <4>2. a \in Seq(Frames) /\ schan[c] = a
        BY <2>2
      <4> HIDE DEF a
      <4>3. a \o Append(up, x) = Append(a \o up, x)
        BY <1>4, <4>2, PipeAppend
      <4> QED
        BY <4>1, <4>2, <4>3
    <3>2. CASE c = c0
      <4>1. /\ cl[c].eof => cl'[c].eof
            /\ x.ftype = "Data" => ~cl[c].eof /\ x.n = cl[c].sent + 1 /\ cl'[c].sent = cl[c].sent + 1
            /\ x.ftype # "Data" => cl'[c].sent = cl[c].sent
            /\ x.ftype = "Fin" => cl'[c].eof
            /\ x.conn = c
        BY <1>3, <3>2
      <4>2. cl'[c].phase \in Gone => x.ftype = "Close"
        BY <1>3, <3>2 DEF Gone
      <4> QED
        BY <1>4, <2>1, <2>2, <2>4, <2>5, <2>6, <3>1, <4>1, <4>2, StreamOwn
    <3>3. CASE c # c0
      <4>1. cl'[c] = cl[c] /\ x.conn # c
        BY <1>3, <3>3
      <4>2. srv[c].phase \in Running /\ x.sid = srv[c].sid => cl[c].phase \in Gone /\ cl[c].sid # 0
        <5> SUFFICES ASSUME srv[c].phase \in Running, x.sid = srv[c].sid
                     PROVE  cl[c].phase \in Gone /\ cl[c].sid # 0
          OBVIOUS
        <5>1. srv[c].phase # "idle"
          BY DEF Running
        <5>2. cl[c].sid = cl[c0].sid
          BY <1>0, <5>1 DEF Named
        <5> QED
          BY <1>6, <1>9, <3>3, <5>2
      <4> QED
        BY <1>4, <2>1, <2>2, <2>4, <2>5, <2>6, <3>1, <4>1, <4>2, StreamForeign
    <3> QED
      BY <3>2, <3>3
  <2>7. CASE ~Fed(c)
    <3>1. Pipe(c)' = Pipe(c)
      BY <1>1, <2>1, <2>7 DEF Pipe
    <3>2. CASE cl'[c].sent = cl[c].sent
      <4>1. Len(Pipe(c)') <= Len(Pipe(c)) /\ Len(Pipe(c)') \in Nat
            /\ \A i \in 1 .. Len(Pipe(c)') : Pipe(c)'[i] = Pipe(c)[i]
        BY <2>3, <3>1
      <4>2. cl[c].eof => cl'[c].eof
        BY <1>3
      <4> QED
        BY <2>1, <2>3, <2>4, <2>5, <2>7, <3>2, <4>1, <4>2, StreamShorter
    <3>3. CASE cl'[c].sent # cl[c].sent
      <4>1. cl'[c].sent = cl[c].sent + 1 /\ ~cl[c].eof /\ ~cl'[c].eof
        BY <1>3, <3>3
      <4> QED
        BY <1>4, <2>1, <2>2, <2>4, <2>5, <2>7, <3>1, <4>1, StreamGrow
    <3> QED
      BY <3>2, <3>3
  <2> QED
    BY <2>6, <2>7
<1> QED
  BY <1>5, <1>7, <1>8, <1>10, <1>11 DEF TunnelInv

-----------------------------------------------------------------------------
(* Steps of the server.                                                    *)

LEMMA RunningHasId ==
  ASSUME TunnelTypes, Named, NEW c \in Conns, srv[c].phase # "idle"
  PROVE  srv[c].sid \in Sids /\ srv[c].sid = cl[c].sid
<1>1. srv[c].sid = cl[c].sid /\ cl[c].sid # 0
  BY DEF Named
<1> QED
  BY <1>1, Typed

(* Tasks of the server move; for each the step was looked at, or it takes  *)
(* nothing from its channel or leaves its loop.                            *)
LEMMA ServerMoves ==
  ASSUME TunnelInv, cl' = cl, creg' = creg, next_id' = next_id, up' = up, link' = link,
         srv' \in [Conns -> STask], tgt' \in [Conns -> Seq(Frames)], schan' \in [Conns -> Seq(Frames)],
         sreg' \in Registries, \A sid \in Sids : sreg'[sid] = sreg[sid] \/ sreg'[sid] = NoOwner,
         \A c \in Conns : srv'[c].phase = "idle" <=> srv[c].phase = "idle",
         \A c \in Conns : srv'[c].sid = srv[c].sid,
         \A c \in Conns : \/ schan'[c] = schan[c]
                          \/ srv[c].phase # "idle" /\ schan'[c] = <<>>
                          \/ srv[c].phase # "idle" /\ schan[c] # <<>> /\ schan'[c] = Tail(schan[c]),
         \A c \in Conns : \/ StreamInv(c)'
                          \/ /\ tgt'[c] = tgt[c] /\ (srv'[c].fin => srv[c].fin)
                             /\ srv'[c].phase \in Running => srv[c].phase \in Running /\ schan'[c] = schan[c]
  PROVE  TunnelInv'
<1>0. TunnelTypes /\ Owned /\ Named /\ UpInv /\ \A c \in Conns : StreamInv(c)
  BY DEF TunnelInv
<1>1. TunnelTypes'
  BY <1>0 DEF TunnelTypes
<1>2. Owned'
  <2>1. link' => \A c \in Conns : cl'[c].phase \in Active => creg'[cl'[c].sid] = c
    BY <1>0 DEF Owned
  <2>2. ASSUME NEW sid \in Sids, sreg'[sid] # NoOwner
        PROVE  srv'[sreg'[sid]].sid = sid /\ srv'[sreg'[sid]].phase # "idle"
    <3>1. sreg'[sid] = sreg[sid] /\ sreg[sid] # NoOwner
      BY <2>2
    <3>2. sreg[sid] \in Conns
      BY <1>0, <3>1 DEF TunnelTypes, Registries, Conns
    <3>3. srv[sreg[sid]].sid = sid /\ srv[sreg[sid]].phase # "idle"
      BY <1>0, <3>1 DEF Owned
    <3> QED
      BY <3>1, <3>2, <3>3
  <2> QED
    BY <2>1, <2>2 DEF Owned
<1>3. Named'
  <2>1. ASSUME NEW c \in Conns, NEW j \in 1 .. Len(schan'[c])
        PROVE  schan'[c][j].sid = srv'[c].sid /\ schan'[c][j].ftype \in {"Data", "Fin", "Close"}
    <3>1. CASE schan'[c] = schan[c]
      BY <1>0, <2>1, <3>1 DEF Named
    <3>2. CASE schan'[c] = <<>>
      BY <2>1, <3>2
    <3>3. CASE schan[c] # <<>> /\ schan'[c] = Tail(schan[c])
      <4>1. schan[c] \in Seq(Frames)
        BY <1>0, Typed
      <4>2. /\ Len(Tail(schan[c])) = Len(schan[c]) - 1 /\ Len(schan[c]) \in Nat
            /\ \A i \in 1 .. (Len(schan[c]) - 1) : Tail(schan[c])[i] = schan[c][i + 1]
        BY <3>3, <4>1, Beheaded
      <4>3. j + 1 \in 1 .. Len(schan[c]) /\ schan'[c][j] = schan[c][j + 1]
        BY <2>1, <3>3, <4>2
      <4> QED
        BY <1>0, <4>3 DEF Named
    <3> QED
      BY <3>1, <3>2, <3>3
  <2>2. \A c \in Conns : srv'[c].phase = "idle" => schan'[c] = <<>>
    BY <1>0 DEF Named
  <2>3. ASSUME NEW c \in Conns
        PROVE  /\ cl'[c].sid = 0 => cl'[c].phase \in {"idle", "done"} /\ srv'[c].phase = "idle"
               /\ cl'[c].phase = "idle" => cl'[c].sid = 0
               /\ cl'[c].phase = "open" => srv'[c].phase = "idle"
               /\ srv'[c].phase # "idle" => srv'[c].sid = cl'[c].sid
    <3>1. /\ cl[c].sid = 0 => cl[c].phase \in {"idle", "done"} /\ srv[c].phase = "idle"
          /\ cl[c].phase = "idle" => cl[c].sid = 0
          /\ cl[c].phase = "open" => srv[c].phase = "idle"
          /\ srv[c].phase # "idle" => srv[c].sid = cl[c].sid
      BY <1>0 DEF Named
    <3>2. cl'[c] = cl[c] /\ srv'[c].sid = srv[c].sid /\ (srv'[c].phase = "idle" <=> srv[c].phase = "idle")
      OBVIOUS
    <3> QED
      BY <3>1, <3>2
  <2> QED
    BY <2>1, <2>2, <2>3 DEF Named
<1>4. UpInv'
  <2>1. up \in Seq(Frames)
    BY <1>0 DEF TunnelTypes
  <2> QED
    BY <1>0, <2>1, UpSame
<1>5. ASSUME NEW c \in Conns PROVE StreamInv(c)'
  <2> SUFFICES ASSUME ~StreamInv(c)' PROVE StreamInv(c)'
    OBVIOUS
  <2>1. /\ tgt'[c] = tgt[c] /\ (srv'[c].fin => srv[c].fin)
        /\ srv'[c].phase \in Running => srv[c].phase \in Running /\ schan'[c] = schan[c]
    OBVIOUS
  <2>2. /\ srv'[c].phase = "idle" => schan'[c] = schan[c]
        /\ srv'[c].phase = "idle" <=> srv[c].phase = "idle"
        /\ srv'[c].sid = srv[c].sid
    OBVIOUS
  <2>3. schan[c] \in Seq(Frames) /\ up \in Seq(Frames)
    BY <1>0, Typed
  <2>4. Fed(c)' => Fed(c) /\ Pipe(c)' = Pipe(c)
    <3> SUFFICES ASSUME Fed(c)' PROVE Fed(c) /\ Pipe(c)' = Pipe(c)
      OBVIOUS
    <3>1. schan'[c] = schan[c]
      BY <2>1, <2>2 DEF Fed
    <3>2. CASE srv'[c].phase = "idle"
      <4>1. Fed(c)
        BY <2>2, <3>2 DEF Fed
      <4> QED
        BY <3>1, <4>1 DEF Pipe
    <3>3. CASE srv'[c].phase # "idle"
      <4>1. srv'[c].phase \in Running /\ sreg'[srv[c].sid] = c /\ srv[c].phase \in Running
        BY <2>1, <2>2, <3>3 DEF Fed
      <4>2. srv[c].sid \in Sids /\ c # NoOwner
        BY <1>0, <2>2, <3>3, RunningHasId, NoOwnerIsNone
      <4>3. sreg[srv[c].sid] = c
        BY <4>1, <4>2
      <4>4. Fed(c)
        BY <4>1, <4>3 DEF Fed
      <4> QED
        BY <3>1, <4>4 DEF Pipe
    <3> QED
      BY <3>2, <3>3
  <2>5. Len(Pipe(c)) \in Nat
    BY <2>3, PipeType
  <2>6. srv'[c].phase \in Alive =>
           /\ srv[c].phase \in Alive
           /\ Len(Pipe(c)') \in Nat /\ Len(Pipe(c)') <= Len(Pipe(c))
           /\ \A i \in 1 .. Len(Pipe(c)') : Pipe(c)'[i] = Pipe(c)[i]
    <3> SUFFICES ASSUME srv'[c].phase \in Alive
                 PROVE  /\ srv[c].phase \in Alive
                        /\ Len(Pipe(c)') \in Nat /\ Len(Pipe(c)') <= Len(Pipe(c))
                        /\ \A i \in 1 .. Len(Pipe(c)') : Pipe(c)'[i] = Pipe(c)[i]
      OBVIOUS
    <3>1. srv[c].phase \in Alive
      BY <2>1, <2>2 DEF Alive, Running
    <3>2. CASE Fed(c)'
      BY <2>4, <2>5, <3>1, <3>2
    <3>3. CASE ~Fed(c)'
      <4>1. Pipe(c)' = schan[c]
        BY <2>1, <2>2, <3>3 DEF Pipe, Fed, Alive, Running
      <4>2. Pipe(c) = schan[c] \o up \/ Pipe(c) = schan[c]
        BY DEF Pipe
      <4>3. /\ Len(schan[c] \o up) = Len(schan[c]) + Len(up) /\ Len(schan[c]) \in Nat /\ Len(up) \in Nat
            /\ \A i \in 1 .. Len(schan[c]) : (schan[c] \o up)[i] = schan[c][i]
        <5> DEFINE a == schan[c]
        <5>1. a \in Seq(Frames) /\ schan[c] = a
          BY <2>3
        <5> HIDE DEF a
        <5> QED
          BY <2>3, <5>1, PipeIs
      <4>4. Len(schan[c]) <= Len(Pipe(c)) /\ \A i \in 1 .. Len(schan[c]) : schan[c][i] = Pipe(c)[i]
        BY <4>2, <4>3
      <4> QED
        BY <3>1, <4>1, <4>3, <4>4
    <3> QED
      BY <3>2, <3>3
  <2>7. StreamInv(c)
    BY <1>0
  <2> QED
    BY <2>1, <2>2, <2>4, <2>5, <2>6, <2>7, StreamShorter
<1> QED
  BY <1>1, <1>2, <1>3, <1>4, <1>5 DEF TunnelInv

(* The dispatcher routes a frame. *)
LEMMA ServerRoutes ==
  ASSUME TunnelInv, cl' = cl, creg' = creg, next_id' = next_id, link' = link,
         srv' = srv, tgt' = tgt, sreg' = sreg,
         up # <<>>, up' = Tail(up), Head(up).ftype \in {"Data", "Fin", "Close"},
         schan' = Route(schan, sreg, Dead, Head(up))
  PROVE  TunnelInv'
<1> DEFINE x == Head(up)
<1>0. TunnelTypes /\ Owned /\ Named /\ UpInv /\ \A c \in Conns : StreamInv(c)
  BY DEF TunnelInv
<1>1. up \in Seq(Frames) /\ schan \in [Conns -> Seq(Frames)] /\ sreg \in [Sids -> Conns \cup {NoOwner}]
  BY <1>0 DEF TunnelTypes, Registries, Conns
<1>2. /\ Tail(up) \in Seq(Frames) /\ x \in Frames /\ x = up[1] /\ 1 \in 1 .. Len(up)
      /\ x.conn \in Conns /\ x.sid \in Sids
  <2>1. Tail(up) \in Seq(Frames) /\ x \in Frames /\ x = up[1] /\ Len(up) \in Nat /\ Len(up) > 0
    BY <1>1, Beheaded
  <2> QED
    BY <1>1, <2>1, FrameIs
<1>3. x.sid = cl[x.conn].sid /\ srv[x.conn].phase # "idle"
  <2>1. x.sid = cl[x.conn].sid
    BY <1>0, <1>2 DEF UpInv, FrameOwner
  <2>2. srv[x.conn].phase = "idle" => \E i \in 1 .. 1 : Own(up[i], x.conn, "Open")
    BY <1>0, <1>2 DEF UpInv, OpenAhead
  <2>3. ~\E i \in 1 .. 1 : Own(up[i], x.conn, "Open")
    BY <1>2 DEF Own
  <2> QED
    BY <2>1, <2>2, <2>3
<1>4. srv[x.conn].sid = x.sid
  BY <1>0, <1>2, <1>3 DEF Named
<1>5. UpInv'
  <2>1. \A c \in Conns : ~Own(Head(up), c, "Open")
    BY DEF Own
  <2> QED
    BY <1>0, <1>1, <2>1, UpTail
<1>6. Owned'
  BY <1>0 DEF Owned
<1>7. CASE Routable(sreg, x.sid, Dead)
  <2> DEFINE d == sreg[x.sid]
  <2>1. d \in Conns /\ d \notin Dead
    BY <1>1, <1>2, <1>7 DEF Routable
  <2>2. schan' = [schan EXCEPT ![d] = Append(@, x)]
    BY <1>7 DEF Route
  <2>3. srv[d].sid = x.sid /\ srv[d].phase # "idle"
    BY <1>0, <1>2, <1>7 DEF Owned, Routable
  <2> HIDE DEF d
  <2>4. schan'[d] = Append(schan[d], x) /\ \A c \in Conns : c # d => schan'[c] = schan[c]
    BY <1>1, <2>1, <2>2
  <2>5. schan[d] \in Seq(Frames)
    BY <1>1, <2>1
  <2>6. /\ Append(schan[d], x) \in Seq(Frames) /\ Len(Append(schan[d], x)) = Len(schan[d]) + 1 /\ Len(schan[d]) \in Nat
        /\ Append(schan[d], x)[Len(Append(schan[d], x))] = x
        /\ \A i \in 1 .. Len(schan[d]) : Append(schan[d], x)[i] = schan[d][i]
    <3> DEFINE a == schan[d]
    <3>1. a \in Seq(Frames) /\ schan[d] = a
      BY <2>5
    <3> HIDE DEF a, x
    <3> QED
      BY <1>2, <3>1, Appended
  <2>7. schan' \in [Conns -> Seq(Frames)]
    BY <1>1, <2>1, <2>2, <2>6
  <2>8. TunnelTypes'
    BY <1>0, <1>2, <2>7 DEF TunnelTypes
  <2>9. Named'
    <3>1. ASSUME NEW c \in Conns, NEW j \in 1 .. Len(schan'[c])
          PROVE  schan'[c][j].sid = srv[c].sid /\ schan'[c][j].ftype \in {"Data", "Fin", "Close"}
      <4>1. CASE c # d
        BY <1>0, <2>4, <3>1, <4>1 DEF Named
      <4>2. CASE c = d /\ j = Len(schan[d]) + 1
        BY <2>3, <2>4, <2>6, <4>2
      <4>3. CASE c = d /\ j # Len(schan[d]) + 1
        <5>1. j \in 1 .. Len(schan[d]) /\ schan'[c][j] = schan[d][j]
          BY <2>4, <2>6, <3>1, <4>3
        <5> QED
          BY <1>0, <4>3, <5>1 DEF Named
      <4> QED
        BY <4>1, <4>2, <4>3
    <3>2. \A c \in Conns : srv[c].phase = "idle" => schan'[c] = <<>>
      BY <1>0, <2>3, <2>4 DEF Named
    <3> QED
      BY <1>0, <3>1, <3>2 DEF Named
  <2>10. ASSUME NEW c \in Conns PROVE StreamInv(c)'
    <3>1. Fed(c)' <=> Fed(c)
      BY DEF Fed
    <3>2. StreamInv(c) /\ schan[c] \in Seq(Frames)
      BY <1>0, <1>1
    <3>3. Len(Pipe(c)) \in Nat
      BY <1>1, <3>2, PipeType
    <3>4. CASE c = d /\ Fed(c)
      <4>1. Pipe(c) = schan[d] \o up /\ Pipe(c)' = Append(schan[d], x) \o Tail(up)
        BY <2>4, <3>1, <3>4 DEF Pipe
      <4>2. Append(schan[d], x) \o Tail(up) = schan[d] \o up
        <5> DEFINE a == schan[d]
        <5>1. a \in Seq(Frames) /\ schan[d] = a
          BY <2>5
        <5> HIDE DEF a
        <5> QED
          BY <1>1, <1>2, <5>1, PipeRoute, SMTT(30)
      <4>3. Pipe(c)' = Pipe(c)
        BY <4>1, <4>2
      <4>4. Len(Pipe(c)') <= Len(Pipe(c)) /\ Len(Pipe(c)') \in Nat
            /\ \A i \in 1 .. Len(Pipe(c)') : Pipe(c)'[i] = Pipe(c)[i]
        BY <3>3, <4>3
      <4> QED
        BY <3>1, <3>2, <3>3, <4>3, <4>4, StreamShorter
    <3>5. CASE c = d /\ ~Fed(c)
      <4>1. srv[c].phase \notin Running /\ srv[c].phase # "idle"
        BY <2>3, <3>5 DEF Fed, d
      <4>2. srv'[c].phase \notin Alive /\ srv'[c].phase \notin Running
        BY <4>1 DEF Alive, Running
      <4> QED
        BY <3>1, <3>2, <3>3, <3>5, <4>2, StreamShorter
    <3>6. CASE c # d
      <4>1. Fed(c) => Head(up).conn # c
        BY <1>3, <1>4, <3>6 DEF Fed, d
      <4>2. schan'[c] = schan[c]
        BY <2>4, <3>6
      <4> QED
        BY <1>1, <3>1, <3>2, <4>1, <4>2, StreamDrop
    <3> QED
      BY <3>4, <3>5, <3>6
  <2> QED
    BY <1>5, <1>6, <2>8, <2>9, <2>10 DEF TunnelInv
<1>8. CASE ~Routable(sreg, x.sid, Dead)
  <2>1. schan' = schan
    BY <1>8 DEF Route
  <2>2. TunnelTypes'
    BY <1>0, <1>2, <2>1 DEF TunnelTypes
  <2>3. Named'
    BY <1>0, <2>1 DEF Named
  <2>4. ASSUME NEW c \in Conns PROVE StreamInv(c)'
    <3>1. Fed(c)' <=> Fed(c)
      BY DEF Fed
    <3>2. StreamInv(c) /\ schan[c] \in Seq(Frames)
      BY <1>0, <1>1
    <3>3. Fed(c) => Head(up).conn # c
      <4> SUFFICES ASSUME Fed(c), x.conn = c PROVE FALSE
        OBVIOUS
      <4>1. srv[c].phase \in Running /\ sreg[x.sid] = c
        BY <1>3, <1>4 DEF Fed
      <4>2. c \notin Dead /\ c # NoOwner
        BY <4>1, NoOwnerIsNone DEF Dead, Running
      <4> QED
        BY <1>8, <4>1, <4>2 DEF Routable
    <3> QED
      BY <1>1, <2>1, <3>1, <3>2, <3>3, StreamDrop
  <2> QED
    BY <1>5, <1>6, <2>2, <2>3, <2>4 DEF TunnelInv
<1> QED
  BY <1>7, <1>8

(* The dispatcher starts the task of an Open, or refuses it. *)
LEMMA ServerStarts ==
  ASSUME TunnelInv, cl' = cl, creg' = creg, next_id' = next_id, link' = link, tgt' = tgt, schan' = schan,
         up # <<>>, up' = Tail(up), Head(up).ftype = "Open", NEW p \in {"connect", "refused"},
         srv' = [srv EXCEPT ![Head(up).conn] = [NoTask EXCEPT !.phase = p, !.sid = Head(up).sid]],
         \/ p = "connect" /\ sreg[Head(up).sid] = NoOwner /\ sreg' = [sreg EXCEPT ![Head(up).sid] = Head(up).conn]
         \/ p = "refused" /\ sreg' = sreg
  PROVE  TunnelInv'
<1> DEFINE x == Head(up)
           c0 == x.conn
           u == [NoTask EXCEPT !.phase = p, !.sid = x.sid]
<1>0. TunnelTypes /\ Owned /\ Named /\ UpInv /\ \A c \in Conns : StreamInv(c)
  BY DEF TunnelInv
<1>1. up \in Seq(Frames) /\ schan \in [Conns -> Seq(Frames)] /\ sreg \in Registries /\ srv \in [Conns -> STask]
  BY <1>0 DEF TunnelTypes
<1>2. Tail(up) \in Seq(Frames) /\ x = up[1] /\ 1 \in 1 .. Len(up) /\ c0 \in Conns /\ x.sid \in Sids
  <2>1. Tail(up) \in Seq(Frames) /\ x = up[1] /\ Len(up) \in Nat /\ Len(up) > 0
    BY <1>1, Beheaded
  <2> QED
    BY <1>1, <2>1, FrameIs
<1>3. u \in STask /\ u.phase = p /\ u.sid = x.sid /\ u.fin = FALSE
  BY <1>2 DEF STask, Tasks, NoTask
<1>4. /\ x.sid = cl[c0].sid /\ cl[c0].phase \notin {"idle", "open"} /\ srv[c0].phase = "idle"
  BY <1>0, <1>2 DEF UpInv, FrameOwner, FrameKinds
<1>5. srv' = [srv EXCEPT ![c0] = u]
  OBVIOUS
<1>6. x.ftype = "Open" /\ Head(up) = x
  OBVIOUS
<1>7. \/ p = "connect" /\ sreg[x.sid] = NoOwner /\ sreg' = [sreg EXCEPT ![x.sid] = c0]
      \/ p = "refused" /\ sreg' = sreg
  OBVIOUS
<1>8. ~u.fin
  BY <1>3, Zenon
<1> HIDE DEF u, c0
<1>9. srv' \in [Conns -> STask] /\ srv'[c0] = u /\ \A c \in Conns : c # c0 => srv'[c] = srv[c]
  BY <1>1, <1>2, <1>3, <1>5
<1>10. /\ sreg' \in Registries
       /\ p = "connect" => sreg'[x.sid] = c0
       /\ \A s \in Sids : s # x.sid => sreg'[s] = sreg[s]
       /\ p = "refused" => sreg' = sreg
  <2>1. CASE p = "connect"
    <3>1. c0 \in Conns \cup {NoOwner} /\ x.sid \in Sids /\ sreg' = [sreg EXCEPT ![x.sid] = c0]
      BY <1>2, <1>7, <2>1
    <3> HIDE DEF x
    <3>2. sreg' \in Registries /\ sreg'[x.sid] = c0 /\ \A s \in Sids : s # x.sid => sreg'[s] = sreg[s]
      BY <1>1, <3>1 DEF Registries, Conns
    <3> QED
      BY <2>1, <3>2
  <2>2. CASE p = "refused"
    BY <1>1, <1>7, <2>2
  <2> QED
    BY <2>1, <2>2
<1>11. TunnelTypes'
  BY <1>0, <1>2, <1>9, <1>10 DEF TunnelTypes
<1>12. Owned'
  <2>1. ASSUME NEW s \in Sids, sreg'[s] # NoOwner
        PROVE  srv'[sreg'[s]].sid = s /\ srv'[sreg'[s]].phase # "idle"
    <3>1. CASE sreg'[s] = sreg[s]
      <4>1. srv[sreg[s]].sid = s /\ srv[sreg[s]].phase # "idle"
        BY <1>0, <2>1, <3>1 DEF Owned
      <4>2. sreg[s] \in Conns /\ sreg[s] # c0
        BY <1>1, <1>4, <2>1, <3>1, <4>1 DEF Registries, Conns
      <4> QED
        BY <1>9, <3>1, <4>1, <4>2
    <3>2. CASE sreg'[s] # sreg[s]
      BY <1>2, <1>3, <1>9, <1>10, <2>1, <3>2
    <3> QED
      BY <3>1, <3>2
  <2>2. link' => \A c \in Conns : cl'[c].phase \in Active => creg'[cl'[c].sid] = c
    BY <1>0 DEF Owned
  <2> QED
    BY <2>1, <2>2 DEF Owned
<1>13. Named'
  <2>1. srv'[c0].phase # "idle" /\ srv'[c0].sid = cl[c0].sid /\ cl[c0].sid # 0 /\ schan[c0] = <<>>
    BY <1>0, <1>2, <1>3, <1>4, <1>9, ZeroIsNone DEF Named
  <2> QED
    BY <1>0, <1>2, <1>4, <1>9, <2>1 DEF Named
<1>14. UpInv'
  <2>1. \A c \in Conns : Own(Head(up), c, "Open") <=> c = c0
    BY DEF Own, c0
  <2>2. \A c \in Conns : srv'[c].phase = "idle" <=> srv[c].phase = "idle" /\ ~Own(Head(up), c, "Open")
    BY <1>3, <1>9, <2>1
  <2> QED
    BY <1>0, <1>1, <2>2, UpTail
<1>15. ASSUME NEW c \in Conns PROVE StreamInv(c)'
  <2>1. StreamInv(c) /\ schan[c] \in Seq(Frames)
    BY <1>0, <1>1
  <2>2. Len(Pipe(c)) \in Nat
    BY <1>1, <2>1, PipeType
  <2>3. CASE c # c0
    <3>1. srv'[c] = srv[c] /\ Head(up).conn # c
      BY <1>9, <2>3 DEF c0
    <3>2. Fed(c)' <=> Fed(c)
      <4>1. CASE srv[c].phase = "idle"
        BY <3>1, <4>1 DEF Fed
      <4>2. CASE srv[c].phase # "idle"
        <5>1. srv[c].sid \in Sids /\ c # NoOwner
          BY <1>0, <4>2, RunningHasId, NoOwnerIsNone
        <5>2. sreg'[srv[c].sid] = c <=> sreg[srv[c].sid] = c
          BY <1>2, <1>7, <1>10, <2>3, <5>1
        <5> QED
          BY <3>1, <4>2, <5>2 DEF Fed
      <4> QED
        BY <4>1, <4>2
    <3> QED
      BY <1>1, <2>1, <3>1, <3>2, StreamDrop
  <2>4. CASE c = c0 /\ p = "connect"
    <3>1. /\ srv[c].phase = "idle" /\ srv'[c].phase = "connect" /\ srv'[c].sid = Head(up).sid /\ ~srv'[c].fin
      BY <1>3, <1>4, <1>8, <1>9, <2>4
    <3>2. schan[c] = <<>>
      BY <1>0, <3>1 DEF Named
    <3>3. Fed(c)'
      BY <1>10, <2>4, <3>1 DEF Fed, Running
    <3>4. Own(Head(up), c, "Open")
      BY <2>4 DEF Own, c0
    <3> QED
      BY <1>0, <1>1, <2>1, <3>1, <3>2, <3>3, <3>4, StreamOpen
  <2>5. CASE c = c0 /\ p = "refused"
    <3>1. srv'[c].phase = "refused" /\ ~srv'[c].fin
      BY <1>3, <1>8, <1>9, <2>5
    <3>2. srv'[c].phase \notin Alive /\ srv'[c].phase \notin Running /\ ~Fed(c)'
      BY <3>1 DEF Alive, Running, Fed
    <3> QED
      BY <2>1, <2>2, <3>1, <3>2, StreamShorter
  <2> QED
    BY <2>3, <2>4, <2>5
<1> QED
  BY <1>11, <1>12, <1>13, <1>14, <1>15 DEF TunnelInv

(* The SRT connection is lost. *)
LEMMA LinkBreaks ==
  ASSUME TunnelInv, LinkBreak
  PROVE  TunnelInv'
<1>0. TunnelTypes /\ Owned /\ Named /\ UpInv /\ \A c \in Conns : StreamInv(c)
  BY DEF TunnelInv
<1>1. PICK n \in 0 .. Len(up) : up' = SubSeq(up, 1, n)
  BY DEF LinkBreak
<1>2. /\ ~link' /\ cl' = cl /\ srv' = srv /\ creg' = creg /\ next_id' = next_id
      /\ sreg' = sreg /\ schan' = schan /\ tgt' = tgt
  BY DEF LinkBreak, clientVars, serverVars
<1>3. up \in Seq(Frames) /\ up' \in Seq(Frames)
  <2>1. up \in Seq(Frames) /\ <<>> \in Seq(Frames)
    BY <1>0 DEF TunnelTypes
  <2> QED
    BY <1>1, <2>1, PipeCut
<1>4. TunnelTypes'
  BY <1>0, <1>2, <1>3 DEF TunnelTypes
<1>5. Owned'
  BY <1>0, <1>2 DEF Owned
<1>6. Named'
  BY <1>0, <1>2 DEF Named
<1>7. UpInv'
  BY <1>0, <1>1, <1>2, <1>3, UpCut
<1>8. ASSUME NEW c \in Conns PROVE StreamInv(c)'
  <2>1. StreamInv(c) /\ schan[c] \in Seq(Frames)
    BY <1>0, Typed
  <2>2. Len(Pipe(c)) \in Nat
    BY <1>3, <2>1, PipeType
  <2>3. Fed(c)' <=> Fed(c)
    BY <1>2 DEF Fed
  <2>4. /\ Len(Pipe(c)') \in Nat /\ Len(Pipe(c)') <= Len(Pipe(c))
        /\ \A i \in 1 .. Len(Pipe(c)') : Pipe(c)'[i] = Pipe(c)[i]
    <3>1. CASE Fed(c)
      <4>1. Pipe(c) = schan[c] \o up /\ Pipe(c)' = schan[c] \o SubSeq(up, 1, n)
        BY <1>1, <1>2, <2>3, <3>1 DEF Pipe
      <4> DEFINE a == schan[c]
      <4>2. a \in Seq(Frames) /\ schan[c] = a
        BY <2>1
      <4> HIDE DEF a
      <4> QED
        BY <1>3, <4>1, <4>2, PipeCut
    <3>2. CASE ~Fed(c)
      <4>1. Pipe(c)' = Pipe(c)
        BY <1>2, <2>3, <3>2 DEF Pipe
      <4> QED
        BY <2>2, <4>1
    <3> QED
      BY <3>1, <3>2
  <2> QED
    BY <1>2, <2>1, <2>2, <2>4, StreamShorter
<1> QED
  BY <1>4, <1>5, <1>6, <1>7, <1>8 DEF TunnelInv

-----------------------------------------------------------------------------
(* Every action keeps the invariant.                                       *)

LEMMA TunnelSame ==
  ASSUME TunnelInv, UNCHANGED <<next_id, cl, sreg, srv, schan, tgt, link, up>>,
         creg' = creg \/ (~link /\ creg' \in Registries)
  PROVE  TunnelInv'
<1>1. TunnelTypes'
  BY DEF TunnelInv, TunnelTypes
<1>2. Owned' /\ Named'
  BY DEF TunnelInv, Owned, Named
<1>3. UpInv'
  BY DEF TunnelInv, UpInv, FrameOwner, FrameKinds, OpenAhead, OwnOrder, Grouped, CloseBehind, OpenUnderway
<1>4. ASSUME NEW c \in Conns PROVE StreamInv(c)'
  <2>1. (Fed(c)' <=> Fed(c)) /\ Pipe(c)' = Pipe(c)
    BY DEF Fed, Pipe
  <2>2. StreamInv(c)
    BY DEF TunnelInv
  <2> QED
    BY <2>1, <2>2 DEF StreamInv
<1> QED
  BY <1>1, <1>2, <1>3, <1>4 DEF TunnelInv

(* A task of the client moves within its loop, or the SRT connection is    *)
(* lost and what it sends goes nowhere.                                    *)
LEMMA ClientLoops ==
  ASSUME TunnelInv, NEW c0 \in Conns, NEW t \in CTask,
         cl' = [cl EXCEPT ![c0] = t], up' = up, UNCHANGED <<creg, next_id, serverVars, linkVars>>,
         t.sid = cl[c0].sid, t.phase \in {"loop", "exit", "drop"}, cl[c0].phase \in {"open", "loop", "exit"},
         link => cl[c0].phase = "loop" /\ t.phase # "drop",
         t.sent = cl[c0].sent \/ (~link /\ t.sent = cl[c0].sent + 1 /\ ~cl[c0].eof /\ ~t.eof),
         cl[c0].eof => t.eof
  PROVE  TunnelInv'
<1>0. TunnelTypes /\ Owned /\ Named
  BY DEF TunnelInv
<1>1. cl \in [Conns -> CTask] /\ creg' \in Registries /\ next_id' \in 0 .. (MAX_SESSIONS - 1)
  BY <1>0 DEF TunnelTypes
<1>2. cl'[c0] = t /\ \A c \in Conns : c # c0 => cl'[c] = cl[c]
  BY <1>1
<1>3. cl[c0].sid # 0
  BY <1>0 DEF Named
<1>4. link => \A c \in Conns : cl'[c].phase \in Active => creg'[cl'[c].sid] = c
  BY <1>0, <1>2 DEF Owned, Active
<1>5. cl[c0].phase \notin Gone /\ (link => t.phase \notin Gone)
  BY DEF Gone
<1>6. link' = link /\ UNCHANGED serverVars
  BY DEF linkVars
<1>7. t.phase \notin {"idle", "open"} /\ t.sid # 0
  BY <1>3
<1> QED
  BY <1>1, <1>4, <1>5, <1>6, <1>7, ClientKeeps

LEMMA CTaskPhases ==
  /\ "loop" \in {"idle", "open", "loop", "exit", "drop", "done"}
  /\ "exit" \in {"idle", "open", "loop", "exit", "drop", "done"}
  /\ "drop" \in {"idle", "open", "loop", "exit", "drop", "done"}
  /\ "done" \in {"idle", "open", "loop", "exit", "drop", "done"}
  /\ "open" \in {"idle", "open", "loop", "exit", "drop", "done"}
  OBVIOUS

LEMMA CTaskMove ==
  ASSUME NEW t \in CTask, NEW p \in {"idle", "open", "loop", "exit", "drop", "done"}
  PROVE  LET u == [t EXCEPT !.phase = p]
         IN  u \in CTask /\ u.phase = p /\ u.sid = t.sid /\ u.sent = t.sent /\ u.eof = t.eof /\ u.fin = t.fin
  BY TaskPhase DEF CTask

LEMMA AllocateKeeps ==
  ASSUME TunnelInv, NEW c0 \in Conns, Allocate(c0)
  PROVE  TunnelInv'
<1>0. TunnelTypes /\ Owned /\ Named
  BY DEF TunnelInv
<1>1. /\ cl \in [Conns -> CTask] /\ creg \in Registries /\ next_id \in 0 .. (MAX_SESSIONS - 1)
      /\ cl[c0] \in CTask
  BY <1>0 DEF TunnelTypes
<1>2. cl[c0].phase = "idle" /\ up' = up /\ link' = link /\ UNCHANGED serverVars
  BY DEF Allocate, linkVars
<1>3. cl[c0].sid = 0 /\ srv[c0].phase = "idle"
  BY <1>0, <1>2 DEF Named
<1>4. CASE Full(creg)
  <2> DEFINE t == [cl[c0] EXCEPT !.phase = "done"]
  <2>1. /\ t \in CTask /\ t.phase = "done" /\ t.sid = cl[c0].sid /\ t.sent = cl[c0].sent /\ t.eof = cl[c0].eof
    BY <1>1, CTaskMove
  <2>2. cl' = [cl EXCEPT ![c0] = t] /\ creg' = creg /\ next_id' = next_id
    BY <1>1, <1>4 DEF Allocate
  <2> HIDE DEF t
  <2>3. cl'[c0] = t /\ \A c \in Conns : c # c0 => cl'[c] = cl[c]
    BY <1>1, <2>2
  <2>4. link => \A c \in Conns : cl'[c].phase \in Active => creg'[cl'[c].sid] = c
    BY <1>0, <2>1, <2>2, <2>3 DEF Owned, Active
  <2>5. cl[c0].eof => t.eof
    BY <2>1, Zenon
  <2> QED
    BY <1>1, <1>2, <1>3, <2>1, <2>2, <2>4, <2>5, ClientKeeps
<1>5. CASE ~Full(creg)
  <2> DEFINE s == FirstFree(creg, next_id)
             t == [cl[c0] EXCEPT !.phase = "open", !.sid = s]
  <2>1. s \in Sids /\ creg[s] = NoOwner /\ NextId(s) \in 0 .. (MAX_SESSIONS - 1)
    BY <1>1, <1>5, FirstFreeIs
  <2>2. creg' = [creg EXCEPT ![s] = c0] /\ next_id' = NextId(s) /\ cl' = [cl EXCEPT ![c0] = t]
    BY <1>1, <1>5 DEF Allocate, Insert
  <2> HIDE DEF s
  <2>3. /\ t \in CTask /\ t.phase = "open" /\ t.sid = s /\ t.sent = cl[c0].sent /\ t.eof = cl[c0].eof
    <3> DEFINE v == cl[c0]
    <3>1. v \in CTask /\ cl[c0] = v
      BY <1>1
    <3> HIDE DEF v
    <3> QED
      BY <2>1, <3>1 DEF CTask, Tasks
  <2> HIDE DEF t
  <2>4. cl'[c0] = t /\ \A c \in Conns : c # c0 => cl'[c] = cl[c]
    BY <1>1, <2>2
  <2>5. /\ creg' \in Registries /\ creg'[s] = c0 /\ \A k \in Sids : k # s => creg'[k] = creg[k]
    BY <1>1, <2>1, <2>2 DEF Registries, Conns
  <2>6. link => \A c \in Conns : cl'[c].phase \in Active => creg'[cl'[c].sid] = c
    <3> SUFFICES ASSUME link, NEW c \in Conns, cl'[c].phase \in Active PROVE creg'[cl'[c].sid] = c
      OBVIOUS
    <3>1. CASE c = c0
      BY <2>3, <2>4, <2>5, <3>1
    <3>2. CASE c # c0
      <4>1. creg[cl[c].sid] = c /\ cl'[c] = cl[c]
        BY <1>0, <2>4, <3>2 DEF Owned
      <4>2. cl[c].phase \notin {"idle", "done"}
        BY <4>1 DEF Active
      <4>3. cl[c].sid # 0
        BY <1>0, <4>2 DEF Named
      <4>4. cl[c].sid \in Sids /\ cl[c].sid # s
        BY <1>0, <2>1, <4>1, <4>3, Typed, NoOwnerIsNone
      <4> QED
        BY <2>5, <4>1, <4>4
    <3> QED
      BY <3>1, <3>2
  <2>7. cl[c0].eof => t.eof
    BY <2>3, Zenon
  <2>8. t.sid # 0
    BY <2>1, <2>3, ZeroIsNone
  <2> QED
    BY <1>1, <1>2, <1>3, <2>1, <2>2, <2>3, <2>5, <2>6, <2>7, <2>8, ClientKeeps
<1> QED
  BY <1>4, <1>5

LEMMA ClientDropKeeps ==
  ASSUME TunnelInv, NEW c0 \in Conns, ClientDrop(c0)
  PROVE  TunnelInv'
<1> DEFINE t == [cl[c0] EXCEPT !.phase = "done"]
<1>0. TunnelTypes /\ Owned /\ Named
  BY DEF TunnelInv
<1>1. /\ cl \in [Conns -> CTask] /\ creg \in Registries /\ next_id \in 0 .. (MAX_SESSIONS - 1)
      /\ cl[c0] \in CTask
  BY <1>0 DEF TunnelTypes
<1>2. /\ cl[c0].phase = "drop" /\ up' = up /\ link' = link /\ UNCHANGED serverVars /\ next_id' = next_id
      /\ cl' = [cl EXCEPT ![c0] = t] /\ creg' = [creg EXCEPT ![cl[c0].sid] = NoOwner]
  BY <1>1 DEF ClientDrop, linkVars, Remove
<1>3. /\ t \in CTask /\ t.phase = "done" /\ t.sid = cl[c0].sid /\ t.sent = cl[c0].sent /\ t.eof = cl[c0].eof
  BY <1>1, CTaskMove
<1>4. cl[c0].sid # 0
  BY <1>0, <1>2 DEF Named
<1>5. cl[c0].sid \in Sids
  BY <1>0, <1>4, Typed
<1> HIDE DEF t
<1>6. cl'[c0] = t /\ \A c \in Conns : c # c0 => cl'[c] = cl[c]
  BY <1>1, <1>2
<1>7. creg' \in Registries /\ \A k \in Sids : k # cl[c0].sid => creg'[k] = creg[k]
  BY <1>1, <1>2, <1>5 DEF Registries
<1>8. link => \A c \in Conns : cl'[c].phase \in Active => creg'[cl'[c].sid] = c
  <2> SUFFICES ASSUME link, NEW c \in Conns, cl'[c].phase \in Active PROVE creg'[cl'[c].sid] = c
    OBVIOUS
  <2>1. c # c0
    BY <1>3, <1>6 DEF Active
  <2>2. creg[cl[c].sid] = c /\ cl'[c] = cl[c]
    BY <1>0, <1>6, <2>1 DEF Owned
  <2>3. creg[cl[c0].sid] = c0
    BY <1>0, <1>2 DEF Owned, Active
  <2>4. cl[c].phase \notin {"idle", "done"}
    BY <2>2 DEF Active
  <2>5. cl[c].sid # 0
    BY <1>0, <2>4 DEF Named
  <2>6. cl[c].sid \in Sids /\ cl[c].sid # cl[c0].sid
    BY <1>0, <2>1, <2>2, <2>3, <2>5, Typed
  <2> QED
    BY <1>7, <2>2, <2>6
<1>9. cl[c0].eof => t.eof
  BY <1>3, Zenon
<1>10. cl[c0].phase \in Gone /\ t.phase \in Gone
  BY <1>2, <1>3 DEF Gone
<1> QED
  BY <1>1, <1>2, <1>3, <1>4, <1>7, <1>8, <1>9, <1>10, ClientKeeps

LEMMA ClientOpenKeeps ==
  ASSUME TunnelInv, NEW c0 \in Conns, NEW ok \in BOOLEAN, ClientOpen(c0, ok)
  PROVE  TunnelInv'
<1> DEFINE t == IF ok THEN [cl[c0] EXCEPT !.phase = "loop"] ELSE Leave(cl[c0])
           p == IF ok THEN "loop" ELSE "exit"
           x == Msg("Open", cl[c0].sid, c0, 0)
<1>0. TunnelTypes /\ Named /\ cl[c0] \in CTask
  BY Typed DEF TunnelInv
<1>1. /\ cl[c0].phase = "open" /\ cl' = [cl EXCEPT ![c0] = t]
      /\ UNCHANGED <<creg, next_id, serverVars, linkVars>>
      /\ (link /\ up' = Append(up, x)) \/ (~link /\ up' = up)
  BY DEF ClientOpen, ClientTask, Put
<1>2. /\ t = [cl[c0] EXCEPT !.phase = p] /\ p \in {"loop", "exit"}
      /\ p \in {"idle", "open", "loop", "exit", "drop", "done"}
  BY DEF Leave
<1> HIDE DEF t, p
<1>3. t \in CTask /\ t.phase \in {"loop", "exit"} /\ t.sid = cl[c0].sid /\ t.sent = cl[c0].sent /\ t.eof = cl[c0].eof
  BY <1>0, <1>2, CTaskMove
<1>4. cl[c0].sid # 0
  BY <1>0, <1>1 DEF Named
<1>5. cl[c0].sid \in Sids
  BY <1>0, <1>4, Typed
<1>6. x \in Frames /\ x.ftype = "Open" /\ x.sid = cl[c0].sid /\ x.conn = c0
  BY <1>5, FrameMade
<1>7. cl[c0].eof => t.eof
  BY <1>3, Zenon
<1> HIDE DEF x
<1>8. CASE link /\ up' = Append(up, x)
  <2>1. link' = link /\ UNCHANGED <<creg, next_id>> /\ UNCHANGED serverVars
    BY <1>1 DEF linkVars
  <2>2. cl[c0].phase \in {"open", "loop", "exit"} /\ t.phase \in {"loop", "exit", "drop"}
    BY <1>1, <1>3
  <2>3. /\ x.ftype = "Open" <=> cl[c0].phase = "open"
        /\ x.ftype = "Close" <=> t.phase = "drop"
        /\ x.ftype # "Data" /\ x.ftype # "Fin"
    BY <1>1, <1>3, <1>6
  <2> QED
    BY <1>1, <1>3, <1>6, <1>7, <1>8, <2>1, <2>2, <2>3, ClientPuts
<1>9. CASE ~link /\ up' = up
  BY <1>1, <1>3, <1>7, <1>9, ClientLoops
<1> QED
  BY <1>1, <1>8, <1>9

LEMMA ClientReadKeeps ==
  ASSUME TunnelInv, NEW c0 \in Conns, NEW ok \in BOOLEAN, ClientRead(c0, ok)
  PROVE  TunnelInv'
<1> DEFINE t == AfterRead(cl[c0], ok)
           x == Msg("Data", cl[c0].sid, c0, cl[c0].sent + 1)
<1>0. TunnelTypes /\ Named /\ cl[c0] \in CTask /\ cl[c0].sent \in Nat
  BY Typed DEF TunnelInv
<1>1. /\ cl[c0].phase = "loop" /\ ~cl[c0].eof /\ cl' = [cl EXCEPT ![c0] = t]
      /\ UNCHANGED <<creg, next_id, serverVars, linkVars>>
      /\ (link /\ ok /\ up' = Append(up, x)) \/ (~link /\ up' = up)
  BY DEF ClientRead, ClientTask, Put
<1>2. /\ t \in CTask /\ t.sid = cl[c0].sid /\ t.eof = cl[c0].eof /\ t.phase \in {cl[c0].phase, "exit"}
      /\ t.sent \in {cl[c0].sent, cl[c0].sent + 1} /\ (ok => t.sent = cl[c0].sent + 1)
  BY <1>0, AfterReadIs, CTaskPhases DEF CTask
<1> HIDE DEF t
<1>3. cl[c0].sid # 0
  BY <1>0, <1>1 DEF Named
<1>4. cl[c0].sid \in Sids
  BY <1>0, <1>3, Typed
<1>5. x \in Frames /\ x.ftype = "Data" /\ x.sid = cl[c0].sid /\ x.conn = c0 /\ x.n = cl[c0].sent + 1
  <2>1. cl[c0].sent + 1 \in Nat
    BY <1>0
  <2> QED
    BY <1>4, <2>1, FrameMade
<1>6. ~t.eof
  BY <1>1, <1>2, Zenon
<1> HIDE DEF x
<1>7. CASE link /\ ok /\ up' = Append(up, x)
  <2>1. link' = link /\ UNCHANGED <<creg, next_id>> /\ UNCHANGED serverVars
    BY <1>1 DEF linkVars
  <2>2. cl[c0].phase \in {"open", "loop", "exit"} /\ t.phase \in {"loop", "exit", "drop"}
    BY <1>1, <1>2
  <2>3. /\ x.ftype = "Open" <=> cl[c0].phase = "open"
        /\ x.ftype = "Close" <=> t.phase = "drop"
        /\ x.ftype # "Fin" /\ t.sent = cl[c0].sent + 1
    BY <1>1, <1>2, <1>5, <1>7
  <2> QED
    BY <1>1, <1>2, <1>5, <1>6, <1>7, <2>1, <2>2, <2>3, ClientPuts
<1>8. CASE ~link /\ up' = up
  <2>1. t.phase \in {"loop", "exit", "drop"} /\ cl[c0].phase \in {"open", "loop", "exit"}
    BY <1>1, <1>2
  <2>2. t.sent = cl[c0].sent \/ (~link /\ t.sent = cl[c0].sent + 1 /\ ~cl[c0].eof /\ ~t.eof)
    BY <1>1, <1>2, <1>6, <1>8
  <2> QED
    BY <1>1, <1>2, <1>8, <2>1, <2>2, ClientLoops
<1> QED
  BY <1>1, <1>7, <1>8

LEMMA ClientEofKeeps ==
  ASSUME TunnelInv, NEW c0 \in Conns, NEW ok \in BOOLEAN, ClientEof(c0, ok)
  PROVE  TunnelInv'
<1> DEFINE t == AfterEof(cl[c0], ok)
           x == Msg("Fin", cl[c0].sid, c0, 0)
<1>0. TunnelTypes /\ Named /\ cl[c0] \in CTask /\ cl[c0].sent \in Nat
  BY Typed DEF TunnelInv
<1>1. /\ cl[c0].phase = "loop" /\ cl' = [cl EXCEPT ![c0] = t]
      /\ UNCHANGED <<creg, next_id, serverVars, linkVars>>
      /\ (link /\ ok /\ up' = Append(up, x)) \/ (~link /\ up' = up)
  BY DEF ClientEof, ClientTask, Put
<1>2. /\ t \in CTask /\ t.sid = cl[c0].sid /\ t.phase \in {cl[c0].phase, "exit"}
      /\ t.sent = cl[c0].sent /\ (cl[c0].eof => t.eof) /\ (ok => t.eof)
  BY <1>0, AfterEofIs, CTaskPhases DEF CTask
<1> HIDE DEF t
<1>3. cl[c0].sid # 0
  BY <1>0, <1>1 DEF Named
<1>4. cl[c0].sid \in Sids
  BY <1>0, <1>3, Typed
<1>5. x \in Frames /\ x.ftype = "Fin" /\ x.sid = cl[c0].sid /\ x.conn = c0
  BY <1>4, FrameMade
<1> HIDE DEF x
<1>6. CASE link /\ ok /\ up' = Append(up, x)
  <2>1. link' = link /\ UNCHANGED <<creg, next_id>> /\ UNCHANGED serverVars
    BY <1>1 DEF linkVars
  <2>2. cl[c0].phase \in {"open", "loop", "exit"} /\ t.phase \in {"loop", "exit", "drop"}
    BY <1>1, <1>2
  <2>3. /\ x.ftype = "Open" <=> cl[c0].phase = "open"
        /\ x.ftype = "Close" <=> t.phase = "drop"
        /\ x.ftype # "Data"
    BY <1>1, <1>2, <1>5, <1>6
  <2> QED
    BY <1>1, <1>2, <1>5, <1>6, <2>1, <2>2, <2>3, ClientPuts
<1>7. CASE ~link /\ up' = up
  <2>1. t.phase \in {"loop", "exit", "drop"} /\ cl[c0].phase \in {"open", "loop", "exit"}
    BY <1>1, <1>2
  <2> QED
    BY <1>1, <1>2, <1>7, <2>1, ClientLoops
<1> QED
  BY <1>1, <1>6, <1>7

LEMMA ClientCloseKeeps ==
  ASSUME TunnelInv, NEW c0 \in Conns, NEW ok \in BOOLEAN, ClientClose(c0, ok)
  PROVE  TunnelInv'
<1> DEFINE t == [cl[c0] EXCEPT !.phase = "drop"]
           x == Msg("Close", cl[c0].sid, c0, 0)
<1>0. TunnelTypes /\ Named /\ cl[c0] \in CTask
  BY Typed DEF TunnelInv
<1>1. /\ cl[c0].phase = "exit" /\ cl' = [cl EXCEPT ![c0] = t]
      /\ UNCHANGED <<creg, next_id, serverVars, linkVars>>
      /\ (link /\ up' = Append(up, x)) \/ (~link /\ up' = up)
  BY DEF ClientClose, ClientTask, Put
<1>2. t \in CTask /\ t.phase = "drop" /\ t.sid = cl[c0].sid /\ t.sent = cl[c0].sent /\ t.eof = cl[c0].eof
  BY <1>0, CTaskMove
<1> HIDE DEF t
<1>3. cl[c0].sid # 0
  BY <1>0, <1>1 DEF Named
<1>4. cl[c0].sid \in Sids
  BY <1>0, <1>3, Typed
<1>5. x \in Frames /\ x.ftype = "Close" /\ x.sid = cl[c0].sid /\ x.conn = c0
  BY <1>4, FrameMade
<1>6. cl[c0].eof => t.eof
  BY <1>2, Zenon
<1> HIDE DEF x
<1>7. CASE link /\ up' = Append(up, x)
  <2>1. link' = link /\ UNCHANGED <<creg, next_id>> /\ UNCHANGED serverVars
    BY <1>1 DEF linkVars
  <2>2. cl[c0].phase \in {"open", "loop", "exit"} /\ t.phase \in {"loop", "exit", "drop"}
    BY <1>1, <1>2
  <2>3. /\ x.ftype = "Open" <=> cl[c0].phase = "open"
        /\ x.ftype = "Close" <=> t.phase = "drop"
        /\ x.ftype # "Data" /\ x.ftype # "Fin"
    BY <1>1, <1>2, <1>5
  <2> QED
    BY <1>1, <1>2, <1>5, <1>6, <1>7, <2>1, <2>2, <2>3, ClientPuts
<1>8. CASE ~link /\ up' = up
  BY <1>1, <1>2, <1>6, <1>8, ClientLoops
<1> QED
  BY <1>1, <1>7, <1>8

(* The steps of the client's loop that send nothing. *)
LEMMA ClientQuietKeeps ==
  ASSUME TunnelInv, NEW c0 \in Conns,
         \/ ClientFail(c0) \/ ClientChannelClosed(c0)
  PROVE  TunnelInv'
<1> DEFINE t == [cl[c0] EXCEPT !.phase = "exit"]
<1>0. cl[c0] \in CTask
  BY Typed DEF TunnelInv
<1>1. /\ cl[c0].phase = "loop" /\ cl' = [cl EXCEPT ![c0] = t] /\ up' = up
      /\ UNCHANGED <<creg, next_id, serverVars, linkVars>>
  BY DEF ClientFail, ClientChannelClosed, Listening, ClientTask, Leave
<1>2. t \in CTask /\ t.phase = "exit" /\ t.sid = cl[c0].sid /\ t.sent = cl[c0].sent /\ t.eof = cl[c0].eof
  BY <1>0, CTaskMove
<1> HIDE DEF t
<1>3. cl[c0].eof => t.eof
  BY <1>2, Zenon
<1> QED
  BY <1>1, <1>2, <1>3, ClientLoops

-----------------------------------------------------------------------------
(* The other variables: what a channel and the direction to the client     *)
(* may hold.                                                               *)
DownFrames == [ftype : {"Data", "Fin", "Close", "Rst"}, sid : Sids, conn : Conns, n : Nat]

EventTypes ==
  /\ cchan \in [Conns -> Seq(Events)] /\ schan \in [Conns -> Seq(Events)]
  /\ app \in [Conns -> Seq(Events)] /\ tgt \in [Conns -> Seq(Events)]
  /\ down \in Seq(DownFrames)
  /\ link \in BOOLEAN /\ cliUp \in BOOLEAN /\ srvUp \in BOOLEAN

LEMMA ClientEventKeeps ==
  ASSUME TunnelInv, EventTypes, NEW c0 \in Conns, NEW write \in BOOLEAN, ClientEvent(c0, write)
  PROVE  TunnelInv'
<1> DEFINE f == Head(cchan[c0]).ftype
           t == AfterEvent(cl[c0], f, write)
<1>0. cl[c0] \in CTask
  BY Typed DEF TunnelInv
<1>1. /\ cl[c0].phase = "loop" /\ cl' = [cl EXCEPT ![c0] = t] /\ up' = up /\ cchan[c0] # <<>>
      /\ UNCHANGED <<creg, next_id, serverVars, linkVars>>
  BY DEF ClientEvent, Listening, ClientTask
<1>2. f \in {"Data", "Fin", "Close"}
  <2>1. cchan[c0] \in Seq(Events)
    BY DEF EventTypes
  <2>2. Head(cchan[c0]) \in Events
    BY <1>1, <2>1
  <2> QED
    BY <2>2 DEF Events
<1> HIDE DEF f
<1>3. t \in CTask /\ t.phase \in {cl[c0].phase, "exit"} /\ t.sid = cl[c0].sid /\ t.sent = cl[c0].sent /\ t.eof = cl[c0].eof
  BY <1>0, <1>2, AfterEventIs, CTaskPhases, SMTT(30) DEF CTask
<1> HIDE DEF t
<1>4. cl[c0].eof => t.eof
  BY <1>3, Zenon
<1>5. t.phase \in {"loop", "exit", "drop"} /\ t.phase # "drop"
  BY <1>1, <1>3
<1> QED
  BY <1>1, <1>3, <1>4, <1>5, ClientLoops

(* The client's task moves on nothing else. *)
LEMMA ClientNextKeeps ==
  ASSUME TunnelInv, EventTypes, NEW c \in Conns,
         \/ Allocate(c) \/ ClientStep(c) \/ ClientFail(c)
         \/ \E ok \in BOOLEAN : ClientRead(c, ok) \/ ClientEof(c, ok)
  PROVE  TunnelInv'
<1>1. CASE Allocate(c)
  BY <1>1, AllocateKeeps
<1>2. CASE ClientFail(c)
  BY <1>2, ClientQuietKeeps
<1>3. CASE \E ok \in BOOLEAN : ClientRead(c, ok) \/ ClientEof(c, ok)
  BY <1>3, ClientReadKeeps, ClientEofKeeps
<1>4. CASE ClientStep(c)
  BY <1>4, ClientOpenKeeps, ClientEventKeeps, ClientCloseKeeps, ClientQuietKeeps, ClientDropKeeps DEF ClientStep
<1> QED
  BY <1>1, <1>2, <1>3, <1>4

-----------------------------------------------------------------------------
(* The actions of the server.                                              *)

LEMMA STaskPhases ==
  /\ "loop" \in {"idle", "refused", "connect", "loop", "exit", "notify", "cleanup", "done"}
  /\ "exit" \in {"idle", "refused", "connect", "loop", "exit", "notify", "cleanup", "done"}
  /\ "notify" \in {"idle", "refused", "connect", "loop", "exit", "notify", "cleanup", "done"}
  /\ "cleanup" \in {"idle", "refused", "connect", "loop", "exit", "notify", "cleanup", "done"}
  /\ "done" \in {"idle", "refused", "connect", "loop", "exit", "notify", "cleanup", "done"}
  OBVIOUS

LEMMA STaskMove ==
  ASSUME NEW t \in STask, NEW p \in {"idle", "refused", "connect", "loop", "exit", "notify", "cleanup", "done"}
  PROVE  LET u == [t EXCEPT !.phase = p]
         IN  u \in STask /\ u.phase = p /\ u.sid = t.sid /\ u.sent = t.sent /\ u.eof = t.eof /\ u.fin = t.fin
  BY TaskPhase DEF STask

(* A task of the server moves and writes nothing; it stays in its loop and *)
(* takes no event, or it leaves the loop.                                  *)
LEMMA ServerLeaves ==
  ASSUME TunnelInv, NEW c0 \in Conns, NEW u \in STask,
         srv' = [srv EXCEPT ![c0] = u], cl' = cl, creg' = creg, next_id' = next_id, up' = up, link' = link,
         tgt' = tgt, schan' \in [Conns -> Seq(Frames)], sreg' \in Registries,
         \A sid \in Sids : sreg'[sid] = sreg[sid] \/ sreg'[sid] = NoOwner,
         srv[c0].phase # "idle", u.phase # "idle", u.sid = srv[c0].sid, u.fin => srv[c0].fin,
         u.phase \in Running => srv[c0].phase \in Running /\ schan' = schan,
         \A c \in Conns : c # c0 => schan'[c] = schan[c],
         \/ schan'[c0] = schan[c0]
         \/ schan'[c0] = <<>>
         \/ schan[c0] # <<>> /\ schan'[c0] = Tail(schan[c0])
  PROVE  TunnelInv'
<1>1. srv \in [Conns -> STask] /\ tgt' \in [Conns -> Seq(Frames)]
  BY DEF TunnelInv, TunnelTypes
<1>2. srv' \in [Conns -> STask] /\ srv'[c0] = u /\ \A c \in Conns : c # c0 => srv'[c] = srv[c]
  BY <1>1
<1>3. /\ \A c \in Conns : srv'[c].phase = "idle" <=> srv[c].phase = "idle"
      /\ \A c \in Conns : srv'[c].sid = srv[c].sid
  BY <1>2
<1>4. \A c \in Conns : \/ schan'[c] = schan[c]
                       \/ srv[c].phase # "idle" /\ schan'[c] = <<>>
                       \/ srv[c].phase # "idle" /\ schan[c] # <<>> /\ schan'[c] = Tail(schan[c])
  OBVIOUS
<1>5. \A c \in Conns : /\ tgt'[c] = tgt[c] /\ (srv'[c].fin => srv[c].fin)
                       /\ srv'[c].phase \in Running => srv[c].phase \in Running /\ schan'[c] = schan[c]
  BY <1>2
<1> QED
  BY <1>1, <1>2, <1>3, <1>4, <1>5, ServerMoves

LEMMA ServerQuietKeeps ==
  ASSUME TunnelInv, NEW c0 \in Conns, NEW ok \in BOOLEAN,
         \/ ServerConnect(c0, ok) \/ ServerRead(c0, ok) \/ ServerEof(c0, ok)
         \/ ServerFail(c0) \/ ServerChannelClosed(c0)
  PROVE  TunnelInv'
<1>0. TunnelTypes /\ srv[c0] \in STask
  BY Typed DEF TunnelInv
<1>1. /\ cl' = cl /\ creg' = creg /\ next_id' = next_id /\ up' = up /\ link' = link
      /\ sreg' = sreg /\ schan' = schan /\ tgt' = tgt /\ srv[c0].phase \in {"connect", "loop"}
  BY DEF ServerConnect, ServerRead, ServerEof, ServerFail, ServerChannelClosed, ServerTask, Listening,
         clientVars, linkVars
<1>2. \E u \in STask : /\ srv' = [srv EXCEPT ![c0] = u]
                       /\ u.phase # "idle" /\ u.sid = srv[c0].sid /\ u.fin = srv[c0].fin
  <2>1. CASE ServerConnect(c0, ok)
    <3> DEFINE p == IF ok THEN "loop" ELSE "notify"
               u == [srv[c0] EXCEPT !.phase = p]
    <3>1. p \in {"idle", "refused", "connect", "loop", "exit", "notify", "cleanup", "done"} /\ p # "idle"
      OBVIOUS
    <3>2. srv' = [srv EXCEPT ![c0] = u]
      BY <2>1 DEF ServerConnect, ServerTask
    <3> HIDE DEF p
    <3>3. u \in STask /\ u.phase = p /\ u.sid = srv[c0].sid /\ u.fin = srv[c0].fin
      BY <1>0, <3>1, STaskMove, ZenonT(30)
    <3> HIDE DEF u
    <3> QED
      BY <3>1, <3>2, <3>3
  <2>2. CASE ServerRead(c0, ok)
    <3> DEFINE u == AfterRead(srv[c0], ok)
    <3>1. srv' = [srv EXCEPT ![c0] = u]
      BY <2>2 DEF ServerRead, ServerTask
    <3>2. u \in STask /\ u.phase \in {srv[c0].phase, "exit"} /\ u.sid = srv[c0].sid /\ u.fin = srv[c0].fin
      BY <1>0, AfterReadIs, STaskPhases DEF STask
    <3> HIDE DEF u
    <3> QED
      BY <1>1, <3>1, <3>2
  <2>3. CASE ServerEof(c0, ok)
    <3> DEFINE u == AfterEof(srv[c0], ok)
    <3>1. srv' = [srv EXCEPT ![c0] = u]
      BY <2>3 DEF ServerEof, ServerTask
    <3>2. u \in STask /\ u.phase \in {srv[c0].phase, "exit"} /\ u.sid = srv[c0].sid /\ u.fin = srv[c0].fin
      BY <1>0, AfterEofIs, STaskPhases DEF STask
    <3> HIDE DEF u
    <3> QED
      BY <1>1, <3>1, <3>2
  <2>4. CASE ServerFail(c0) \/ ServerChannelClosed(c0)
    <3> DEFINE u == [srv[c0] EXCEPT !.phase = "exit"]
    <3>1. srv' = [srv EXCEPT ![c0] = u]
      BY <2>4 DEF ServerFail, ServerChannelClosed, ServerTask, Leave
    <3>2. u \in STask /\ u.phase = "exit" /\ u.sid = srv[c0].sid /\ u.fin = srv[c0].fin
      BY <1>0, STaskPhases, STaskMove
    <3> HIDE DEF u
    <3> QED
      BY <3>1, <3>2
  <2> QED
    BY <2>1, <2>2, <2>3, <2>4
<1>3. PICK u \in STask : /\ srv' = [srv EXCEPT ![c0] = u]
                         /\ u.phase # "idle" /\ u.sid = srv[c0].sid /\ u.fin = srv[c0].fin
  BY <1>2
<1>4. u.fin => srv[c0].fin
  BY <1>3, Zenon
<1>5. /\ schan' \in [Conns -> Seq(Frames)] /\ sreg' \in Registries
      /\ \A sid \in Sids : sreg'[sid] = sreg[sid] \/ sreg'[sid] = NoOwner
  BY <1>0, <1>1 DEF TunnelTypes
<1>6. srv[c0].phase # "idle" /\ srv[c0].phase \in Running
  BY <1>1 DEF Running
<1> QED
  BY <1>1, <1>3, <1>4, <1>5, <1>6, ServerLeaves

LEMMA ServerEndKeeps ==
  ASSUME TunnelInv, NEW c0 \in Conns, NEW ok \in BOOLEAN,
         ServerDrop(c0) \/ ServerNotify(c0, ok) \/ ServerCleanup(c0)
  PROVE  TunnelInv'
<1>0. TunnelTypes /\ Named /\ srv[c0] \in STask
  BY Typed DEF TunnelInv
<1>1. /\ cl' = cl /\ creg' = creg /\ next_id' = next_id /\ up' = up /\ link' = link /\ tgt' = tgt
      /\ srv[c0].phase \in {"exit", "notify", "cleanup"}
      /\ schan' = schan \/ schan' = [schan EXCEPT ![c0] = <<>>]
      /\ sreg' = sreg \/ sreg' = [sreg EXCEPT ![srv[c0].sid] = NoOwner]
  BY DEF ServerDrop, ServerNotify, ServerCleanup, ServerTask, clientVars, linkVars, Remove
<1>2. PICK p \in {"notify", "cleanup", "done"} : srv' = [srv EXCEPT ![c0] = [srv[c0] EXCEPT !.phase = p]]
  BY DEF ServerDrop, ServerNotify, ServerCleanup, ServerTask
<1> DEFINE u == [srv[c0] EXCEPT !.phase = p]
<1>3. u \in STask /\ u.phase = p /\ u.sid = srv[c0].sid /\ u.fin = srv[c0].fin
  <2>1. p \in {"idle", "refused", "connect", "loop", "exit", "notify", "cleanup", "done"}
    OBVIOUS
  <2> QED
    BY <1>0, <2>1, STaskMove, ZenonT(30)
<1> HIDE DEF u
<1>4. u.fin => srv[c0].fin
  BY <1>3, Zenon
<1>5. srv[c0].sid \in Sids
  BY <1>0, <1>1, RunningHasId
<1>6. schan \in [Conns -> Seq(Frames)] /\ sreg \in [Sids -> Conns \cup {NoOwner}]
  BY <1>0 DEF TunnelTypes, Registries, Conns
<1>7. /\ sreg' \in [Sids -> Conns \cup {NoOwner}]
      /\ \A sid \in Sids : sreg'[sid] = sreg[sid] \/ sreg'[sid] = NoOwner
  BY <1>1, <1>5, <1>6
<1>8. /\ schan' \in [Conns -> Seq(Frames)] /\ schan'[c0] \in {schan[c0], <<>>}
      /\ \A c \in Conns : c # c0 => schan'[c] = schan[c]
  <2>0. <<>> \in Seq(Frames)
    OBVIOUS
  <2>1. PICK e \in Seq(Frames) : e = <<>>
    BY <2>0, Zenon
  <2>2. schan' = schan \/ schan' = [schan EXCEPT ![c0] = e]
    BY <1>1, <2>1
  <2>3. CASE schan' = schan
    BY <1>6, <2>3
  <2>4. CASE schan' = [schan EXCEPT ![c0] = e]
    <3>1. schan' \in [Conns -> Seq(Frames)] /\ schan'[c0] = e /\ \A c \in Conns : c # c0 => schan'[c] = schan[c]
      BY <1>6, <2>4
    <3> QED
      BY <2>1, <3>1
  <2> QED
    BY <2>2, <2>3, <2>4
<1>9. srv[c0].phase # "idle" /\ u.phase # "idle" /\ u.phase \notin Running
  BY <1>1, <1>3 DEF Running
<1>10. sreg' \in Registries
  BY <1>7 DEF Registries, Conns
<1> QED
  <2>1. srv' = [srv EXCEPT ![c0] = u]
    BY <1>2 DEF u
  <2>2. \/ schan'[c0] = schan[c0]
        \/ schan'[c0] = <<>>
        \/ schan[c0] # <<>> /\ schan'[c0] = Tail(schan[c0])
    BY <1>8
  <2>3. u.phase \in Running => srv[c0].phase \in Running /\ schan' = schan
    BY <1>9
  <2> QED
    BY <1>1, <1>3, <1>4, <1>7, <1>8, <1>9, <1>10, <2>1, <2>2, <2>3, ServerLeaves

LEMMA ServerEventKeeps ==
  ASSUME TunnelInv, NEW c0 \in Conns, NEW write \in BOOLEAN, ServerEvent(c0, write)
  PROVE  TunnelInv'
<1> DEFINE m == Head(schan[c0])
           u == AfterEvent(srv[c0], m.ftype, write)
<1>0. TunnelTypes /\ Named /\ StreamInv(c0) /\ srv[c0] \in STask
  BY Typed DEF TunnelInv
<1>1. /\ cl' = cl /\ creg' = creg /\ next_id' = next_id /\ up' = up /\ link' = link /\ sreg' = sreg
      /\ srv[c0].phase = "loop" /\ ~srv[c0].fin /\ schan[c0] # <<>>
      /\ srv' = [srv EXCEPT ![c0] = u] /\ schan' = [schan EXCEPT ![c0] = Tail(schan[c0])]
      /\ tgt' = IF m.ftype = "Data" /\ write THEN [tgt EXCEPT ![c0] = Append(@, m)] ELSE tgt
  BY DEF ServerEvent, ServerTask, Listening, clientVars, linkVars
<1>2. /\ schan \in [Conns -> Seq(Frames)] /\ tgt \in [Conns -> Seq(Frames)] /\ srv \in [Conns -> STask]
      /\ sreg \in Registries /\ schan[c0] \in Seq(Frames) /\ tgt[c0] \in Seq(Frames)
      /\ up \in Seq(Frames) /\ cl[c0].sent \in Nat
  BY <1>0, Typed DEF TunnelTypes
<1>3. Tail(schan[c0]) \in Seq(Frames) /\ m = schan[c0][1] /\ m \in Frames /\ 1 \in 1 .. Len(schan[c0])
  <2>1. /\ Tail(schan[c0]) \in Seq(Frames) /\ Len(schan[c0]) \in Nat /\ Len(schan[c0]) > 0
        /\ m = schan[c0][1] /\ m \in Frames
    <3> DEFINE a == schan[c0]
    <3>1. a \in Seq(Frames) /\ a # <<>> /\ schan[c0] = a
      BY <1>1, <1>2
    <3> HIDE DEF a
    <3> QED
      BY <3>1, Beheaded
  <2> QED
    BY <2>1
<1>4. m.sid = srv[c0].sid /\ m.ftype \in {"Data", "Fin", "Close"}
  BY <1>0, <1>3 DEF Named
<1>5. schan' \in [Conns -> Seq(Frames)] /\ schan'[c0] = Tail(schan[c0]) /\ \A c \in Conns : c # c0 => schan'[c] = schan[c]
  BY <1>1, <1>2, <1>3
<1> HIDE DEF m
<1>6. /\ u \in STask /\ u.sid = srv[c0].sid /\ u.phase \in {srv[c0].phase, "exit"}
      /\ m.ftype = "Data" /\ write => u = srv[c0]
      /\ m.ftype # "Fin" => u.fin = srv[c0].fin
      /\ m.ftype # "Fin" /\ ~(m.ftype = "Data" /\ write) => u.phase = "exit"
  <2> DEFINE f == m.ftype
             v == srv[c0]
  <2>1. f \in {"Data", "Fin", "Close"} /\ v \in STask
    BY <1>0, <1>4
  <2> HIDE DEF f, v
  <2>2. LET w == AfterEvent(v, f, write)
        IN  /\ w \in STask /\ w.sid = v.sid /\ w.phase \in {v.phase, "exit"}
            /\ f = "Data" /\ write => w = v
            /\ f # "Fin" => w.fin = v.fin
            /\ f # "Fin" /\ ~(f = "Data" /\ write) => w.phase = "exit"
    BY <2>1, AfterEventIs, STaskPhases, SMTT(30) DEF STask
  <2> QED
    BY <2>2, Zenon DEF f, v
<1> HIDE DEF u
<1>7. srv' \in [Conns -> STask] /\ srv'[c0] = u /\ \A c \in Conns : c # c0 => srv'[c] = srv[c]
  BY <1>1, <1>2, <1>6
<1>8. u.phase # "idle" /\ srv[c0].phase # "idle" /\ srv[c0].phase \in Running
  BY <1>1, <1>6 DEF Running
<1>9. /\ \A c \in Conns : srv'[c].phase = "idle" <=> srv[c].phase = "idle"
      /\ \A c \in Conns : srv'[c].sid = srv[c].sid
  BY <1>6, <1>7, <1>8
<1>10. \A c \in Conns : \/ schan'[c] = schan[c]
                        \/ srv[c].phase # "idle" /\ schan'[c] = <<>>
                        \/ srv[c].phase # "idle" /\ schan[c] # <<>> /\ schan'[c] = Tail(schan[c])
  BY <1>1, <1>5, <1>8
<1>11. /\ sreg' \in Registries /\ \A sid \in Sids : sreg'[sid] = sreg[sid] \/ sreg'[sid] = NoOwner
  BY <1>1, <1>2
<1>12. CASE m.ftype = "Data" /\ write
  <2>1. srv'[c0] = srv[c0] /\ tgt' = [tgt EXCEPT ![c0] = Append(@, m)]
    BY <1>1, <1>6, <1>7, <1>12
  <2>2. Append(tgt[c0], m) \in Seq(Frames)
    BY <1>2, <1>3, Appended
  <2>3. /\ tgt' \in [Conns -> Seq(Frames)] /\ tgt'[c0] = Append(tgt[c0], m)
        /\ \A c \in Conns : c # c0 => tgt'[c] = tgt[c]
    BY <1>2, <2>1, <2>2
  <2>4. Fed(c0)' <=> Fed(c0)
    BY <1>1, <2>1 DEF Fed
  <2>5. StreamInv(c0)'
    BY <1>0, <1>1, <1>2, <1>4, <1>5, <1>8, <1>12, <2>1, <2>3, <2>4, StreamData DEF m
  <2>6. \A c \in Conns : c # c0 =>
           /\ tgt'[c] = tgt[c] /\ (srv'[c].fin => srv[c].fin)
           /\ srv'[c].phase \in Running => srv[c].phase \in Running /\ schan'[c] = schan[c]
    BY <1>5, <1>7, <2>3
  <2>7. \A c \in Conns : \/ StreamInv(c)'
                         \/ /\ tgt'[c] = tgt[c] /\ (srv'[c].fin => srv[c].fin)
                            /\ srv'[c].phase \in Running => srv[c].phase \in Running /\ schan'[c] = schan[c]
    BY <2>5, <2>6
  <2> QED
    BY <1>1, <1>5, <1>7, <1>9, <1>10, <1>11, <2>3, <2>7, ServerMoves
<1>13. CASE m.ftype = "Fin"
  <2>1. tgt' = tgt
    BY <1>1, <1>13
  <2>2. srv'[c0].phase \in Running => (Fed(c0)' <=> Fed(c0))
    BY <1>1, <1>6, <1>7, <1>8 DEF Fed
  <2>3. Fed(c0)' => Fed(c0)
    BY <1>1, <1>6, <1>7, <1>8 DEF Fed
  <2>4. StreamInv(c0)'
    BY <1>0, <1>1, <1>2, <1>4, <1>5, <1>6, <1>7, <1>8, <1>13, <2>1, <2>2, <2>3, StreamFin DEF m
  <2>5. \A c \in Conns : c # c0 =>
           /\ tgt'[c] = tgt[c] /\ (srv'[c].fin => srv[c].fin)
           /\ srv'[c].phase \in Running => srv[c].phase \in Running /\ schan'[c] = schan[c]
    BY <1>5, <1>7, <2>1
  <2>6. \A c \in Conns : \/ StreamInv(c)'
                         \/ /\ tgt'[c] = tgt[c] /\ (srv'[c].fin => srv[c].fin)
                            /\ srv'[c].phase \in Running => srv[c].phase \in Running /\ schan'[c] = schan[c]
    BY <2>4, <2>5
  <2> QED
    BY <1>1, <1>2, <1>5, <1>7, <1>9, <1>10, <1>11, <2>1, <2>6, ServerMoves
<1>14. CASE m.ftype # "Fin" /\ ~(m.ftype = "Data" /\ write)
  <2>1. tgt' = tgt /\ u.phase \notin Running
    BY <1>1, <1>6, <1>14 DEF Running
  <2>2. u.fin = srv[c0].fin
    BY <1>6, <1>14
  <2>3. u.fin => srv[c0].fin
    BY <2>2, Zenon
  <2> QED
    BY <1>1, <1>5, <1>6, <1>8, <1>11, <2>1, <2>3, ServerLeaves
<1> QED
  BY <1>12, <1>13, <1>14

LEMMA ServerLostKeeps ==
  ASSUME TunnelInv, ServerLost
  PROVE  TunnelInv'
<1>1. /\ cl' = cl /\ creg' = creg /\ next_id' = next_id /\ up' = up /\ link' = link
      /\ srv' = srv /\ schan' = schan /\ tgt' = tgt /\ sreg' = NoSessions
  BY DEF ServerLost, clientVars
<1>2. sreg' \in Registries /\ \A sid \in Sids : sreg'[sid] = NoOwner
  BY <1>1, EmptyTable
<1>3. srv' \in [Conns -> STask] /\ tgt' \in [Conns -> Seq(Frames)] /\ schan' \in [Conns -> Seq(Frames)]
  BY <1>1 DEF TunnelInv, TunnelTypes
<1>4. /\ \A c \in Conns : schan'[c] = schan[c]
      /\ \A c \in Conns : srv'[c].phase = "idle" <=> srv[c].phase = "idle"
      /\ \A c \in Conns : srv'[c].sid = srv[c].sid
  BY <1>1
<1>5. \A c \in Conns : /\ tgt'[c] = tgt[c] /\ (srv'[c].fin => srv[c].fin)
                       /\ srv'[c].phase \in Running => srv[c].phase \in Running /\ schan'[c] = schan[c]
  BY <1>1
<1> QED
  BY <1>1, <1>2, <1>3, <1>4, <1>5, ServerMoves

LEMMA DispatchKeeps ==
  ASSUME TunnelInv, ServerDispatch
  PROVE  TunnelInv'
<1>1. CASE DispatchData \/ DispatchEnd
  <2>1. /\ cl' = cl /\ creg' = creg /\ next_id' = next_id /\ link' = link
        /\ srv' = srv /\ tgt' = tgt /\ sreg' = sreg
        /\ up # <<>> /\ up' = Tail(up) /\ Head(up).ftype \in {"Data", "Fin", "Close"}
        /\ schan' = Route(schan, sreg, Dead, Head(up))
    BY <1>1 DEF DispatchData, DispatchEnd, clientVars, linkVars
  <2> QED
    BY <2>1, ServerRoutes
<1>2. CASE DispatchOpen
  <2>1. /\ cl' = cl /\ creg' = creg /\ next_id' = next_id /\ link' = link /\ tgt' = tgt /\ schan' = schan
        /\ up # <<>> /\ up' = Tail(up) /\ Head(up).ftype = "Open"
        /\ srv' = [srv EXCEPT ![Head(up).conn] = [NoTask EXCEPT !.phase = "connect", !.sid = Head(up).sid]]
        /\ sreg[Head(up).sid] = NoOwner /\ sreg' = [sreg EXCEPT ![Head(up).sid] = Head(up).conn]
    BY <1>2 DEF DispatchOpen, clientVars, linkVars, Registrable, Insert
  <2>2. PICK p \in {"connect", "refused"} : p = "connect"
    OBVIOUS
  <2> QED
    BY <2>1, <2>2, ServerStarts
<1>3. CASE DispatchReject
  <2>1. /\ cl' = cl /\ creg' = creg /\ next_id' = next_id /\ link' = link /\ tgt' = tgt /\ schan' = schan
        /\ up # <<>> /\ up' = Tail(up) /\ Head(up).ftype = "Open"
        /\ srv' = [srv EXCEPT ![Head(up).conn] = [NoTask EXCEPT !.phase = "refused", !.sid = Head(up).sid]]
        /\ sreg' = sreg
    BY <1>3 DEF DispatchReject, clientVars, linkVars
  <2>2. PICK p \in {"connect", "refused"} : p = "refused"
    OBVIOUS
  <2> QED
    BY <2>1, <2>2, ServerStarts
<1> QED
  BY <1>1, <1>2, <1>3 DEF ServerDispatch

-----------------------------------------------------------------------------
(* The events and the frames to the client keep their types.               *)

LEMMA DownMade ==
  ASSUME NEW f \in {"Data", "Fin", "Close", "Rst"}, NEW sid \in Sids, NEW c \in Conns, NEW n \in Nat
  PROVE  LET x == Msg(f, sid, c, n)
         IN  x \in DownFrames /\ x.ftype = f /\ x.sid = sid /\ x.conn = c /\ x.n = n
  BY DEF Msg, DownFrames

LEMMA DownPut ==
  ASSUME down \in Seq(DownFrames), NEW x \in DownFrames, NEW ok \in BOOLEAN, Put(down, down', x, ok)
  PROVE  down' \in Seq(DownFrames)
<1>1. Append(down, x) \in Seq(DownFrames)
  BY Appended
<1> QED
  BY <1>1 DEF Put

LEMMA RouteTypes ==
  ASSUME NEW chan \in [Conns -> Seq(Events)], NEW reg \in Registries, NEW dead, NEW m \in Events
  PROVE  Route(chan, reg, dead, m) \in [Conns -> Seq(Events)]
<1>1. CASE ~Routable(reg, m.sid, dead)
  BY <1>1 DEF Route
<1>2. CASE Routable(reg, m.sid, dead)
  <2> DEFINE d == reg[m.sid]
  <2>1. m.sid \in Sids
    BY DEF Events
  <2>2. d \in Conns
    BY <1>2, <2>1 DEF Routable, Registries, Conns
  <2>3. Route(chan, reg, dead, m) = [chan EXCEPT ![d] = Append(@, m)]
    BY <1>2 DEF Route
  <2> HIDE DEF d
  <2>4. Append(chan[d], m) \in Seq(Events)
    BY <2>2
  <2> QED
    BY <2>2, <2>3, <2>4
<1> QED
  BY <1>1, <1>2

LEMMA HeadIsEvent ==
  ASSUME up \in Seq(Frames), up # <<>>, Head(up).ftype \in {"Data", "Fin", "Close"}
  PROVE  Head(up) \in Events
<1>1. Head(up) \in Frames
  BY Beheaded
<1> QED
  BY <1>1 DEF Frames, Events

LEMMA EventMade ==
  ASSUME NEW m \in DownFrames
  PROVE  AsEvent(m) \in Events /\ AsEvent(m).conn = m.conn /\ AsEvent(m).sid = m.sid
<1>1. CASE m.ftype = "Rst"
  <2>1. AsEvent(m) = [m EXCEPT !.ftype = "Close"]
    BY <1>1 DEF AsEvent
  <2> QED
    BY <2>1 DEF DownFrames, Events
<1>2. CASE m.ftype # "Rst"
  <2>1. AsEvent(m) = m
    BY <1>2 DEF AsEvent
  <2> QED
    BY <1>2, <2>1 DEF DownFrames, Events
<1> QED
  BY <1>1, <1>2

(* An event is taken from a channel, and perhaps written. *)
LEMMA EventTaken ==
  ASSUME NEW chan \in [Conns -> Seq(Events)], NEW out \in [Conns -> Seq(Events)], NEW c \in Conns, chan[c] # <<>>
  PROVE  /\ [chan EXCEPT ![c] = Tail(@)] \in [Conns -> Seq(Events)]
         /\ [out EXCEPT ![c] = Append(@, Head(chan[c]))] \in [Conns -> Seq(Events)]
<1> DEFINE a == chan[c]
<1>1. a \in Seq(Events) /\ a # <<>> /\ chan[c] = a /\ out[c] \in Seq(Events)
  OBVIOUS
<1> HIDE DEF a
<1>2. Tail(a) \in Seq(Events) /\ Head(a) \in Events
  BY <1>1, Beheaded
<1>3. Append(out[c], Head(a)) \in Seq(Events)
  BY <1>1, <1>2
<1> QED
  BY <1>1, <1>2, <1>3

LEMMA Emptied ==
  ASSUME NEW chan \in [Conns -> Seq(Events)], NEW c \in Conns
  PROVE  [chan EXCEPT ![c] = <<>>] \in [Conns -> Seq(Events)]
<1>1. <<>> \in Seq(Events)
  OBVIOUS
<1> QED
  BY <1>1, Zenon

LEMMA ClientEventTypes ==
  ASSUME EventTypes, NEW c \in Conns,
         \/ Allocate(c) \/ ClientStep(c) \/ ClientFail(c)
         \/ \E ok \in BOOLEAN : ClientRead(c, ok) \/ ClientEof(c, ok)
  PROVE  EventTypes'
<1>1. schan' = schan /\ tgt' = tgt /\ down' = down /\ link' = link /\ cliUp' = cliUp /\ srvUp' = srvUp
  BY DEF Allocate, ClientStep, ClientFail, ClientRead, ClientEof, ClientOpen, ClientEvent, ClientClose,
         ClientChannelClosed, ClientDrop, ClientTask, serverVars, linkVars
<1>2. \/ cchan' = cchan /\ app' = app
      \/ \E w \in BOOLEAN : ClientEvent(c, w)
      \/ ClientDrop(c)
  BY DEF Allocate, ClientStep, ClientFail, ClientRead, ClientEof, ClientOpen, ClientClose,
         ClientChannelClosed
<1>3. cchan' \in [Conns -> Seq(Events)] /\ app' \in [Conns -> Seq(Events)]
  <2>0. cchan \in [Conns -> Seq(Events)] /\ app \in [Conns -> Seq(Events)]
    BY DEF EventTypes
  <2>1. CASE cchan' = cchan /\ app' = app
    BY <2>0, <2>1
  <2>2. CASE ClientDrop(c)
    BY <2>0, <2>2, Emptied DEF ClientDrop
  <2>3. ASSUME NEW w \in BOOLEAN, ClientEvent(c, w)
        PROVE  cchan' \in [Conns -> Seq(Events)] /\ app' \in [Conns -> Seq(Events)]
    <3>1. /\ cchan[c] # <<>> /\ cchan' = [cchan EXCEPT ![c] = Tail(@)]
          /\ app' = app \/ app' = [app EXCEPT ![c] = Append(@, Head(cchan[c]))]
      BY <2>3 DEF ClientEvent
    <3>2. /\ [cchan EXCEPT ![c] = Tail(@)] \in [Conns -> Seq(Events)]
          /\ [app EXCEPT ![c] = Append(@, Head(cchan[c]))] \in [Conns -> Seq(Events)]
      BY <2>0, <3>1, EventTaken, Zenon
    <3> QED
      BY <2>0, <3>1, <3>2, Zenon
  <2> QED
    BY <1>2, <2>1, <2>2, <2>3
<1> QED
  BY <1>1, <1>3 DEF EventTypes

LEMMA ServerEventTypes ==
  ASSUME EventTypes, TunnelInv, NEW c \in Conns,
         \/ ServerStep(c) \/ ServerFail(c)
         \/ \E ok \in BOOLEAN : ServerRead(c, ok) \/ ServerEof(c, ok)
  PROVE  EventTypes'
<1>0. /\ schan \in [Conns -> Seq(Events)] /\ tgt \in [Conns -> Seq(Events)] /\ down \in Seq(DownFrames)
      /\ TunnelTypes /\ Named
  BY DEF EventTypes, TunnelInv
<1>1. cchan' = cchan /\ app' = app /\ link' = link /\ cliUp' = cliUp /\ srvUp' = srvUp
  BY DEF ServerStep, ServerFail, ServerRead, ServerEof, ServerConnect, ServerEvent, ServerNotify,
         ServerChannelClosed, ServerDrop, ServerCleanup, ServerTask, clientVars, linkVars
<1>2. down' \in Seq(DownFrames)
  <2>1. \/ down' = down
        \/ /\ srv[c].phase \in {"loop", "notify"}
           /\ \E ok \in BOOLEAN : \/ Put(down, down', Msg("Data", srv[c].sid, c, srv[c].sent + 1), ok)
                                  \/ Put(down, down', Msg("Fin", srv[c].sid, c, 0), ok)
                                  \/ Put(down, down', Msg("Close", srv[c].sid, c, 0), ok)
    BY DEF ServerStep, ServerFail, ServerRead, ServerEof, ServerConnect, ServerEvent, ServerNotify,
           ServerChannelClosed, ServerDrop, ServerCleanup
  <2>2. CASE down' = down
    BY <1>0, <2>2
  <2>3. CASE srv[c].phase \in {"loop", "notify"}
    <3>1. srv[c].sid \in Sids
      BY <1>0, <2>3, RunningHasId
    <3>2. srv[c].sent + 1 \in Nat
      <4>1. srv[c].sent \in Nat
        BY <1>0, Typed, TaskIs DEF STask
      <4> QED
        BY <4>1
    <3>3. /\ Msg("Data", srv[c].sid, c, srv[c].sent + 1) \in DownFrames
          /\ Msg("Fin", srv[c].sid, c, 0) \in DownFrames
          /\ Msg("Close", srv[c].sid, c, 0) \in DownFrames
      BY <3>1, <3>2, DownMade
    <3> QED
      BY <1>0, <2>1, <3>3, DownPut
  <2> QED
    BY <2>1, <2>2, <2>3
<1>3. schan' \in [Conns -> Seq(Events)] /\ tgt' \in [Conns -> Seq(Events)]
  <2>1. \/ schan' = schan /\ tgt' = tgt
        \/ schan' = [schan EXCEPT ![c] = <<>>] /\ tgt' = tgt
        \/ \E w \in BOOLEAN : ServerEvent(c, w)
    BY DEF ServerStep, ServerFail, ServerRead, ServerEof, ServerConnect, ServerNotify,
           ServerChannelClosed, ServerDrop, ServerCleanup
  <2>2. CASE schan' = schan /\ tgt' = tgt
    BY <1>0, <2>2
  <2>3. CASE schan' = [schan EXCEPT ![c] = <<>>] /\ tgt' = tgt
    BY <1>0, <2>3, Emptied
  <2>4. ASSUME NEW w \in BOOLEAN, ServerEvent(c, w)
        PROVE  schan' \in [Conns -> Seq(Events)] /\ tgt' \in [Conns -> Seq(Events)]
    <3>1. /\ schan[c] # <<>> /\ schan' = [schan EXCEPT ![c] = Tail(@)]
          /\ tgt' = tgt \/ tgt' = [tgt EXCEPT ![c] = Append(@, Head(schan[c]))]
      BY <2>4 DEF ServerEvent
    <3>2. /\ [schan EXCEPT ![c] = Tail(@)] \in [Conns -> Seq(Events)]
          /\ [tgt EXCEPT ![c] = Append(@, Head(schan[c]))] \in [Conns -> Seq(Events)]
      BY <1>0, <3>1, EventTaken, Zenon
    <3> QED
      BY <1>0, <3>1, <3>2, Zenon
  <2> QED
    BY <2>1, <2>2, <2>3, <2>4
<1> QED
  BY <1>1, <1>2, <1>3 DEF EventTypes

LEMMA OtherEventTypes ==
  ASSUME EventTypes, TunnelInv, ClientDispatch \/ ServerDispatch \/ LinkBreak \/ Lost
  PROVE  EventTypes'
<1>0. /\ schan \in [Conns -> Seq(Events)] /\ cchan \in [Conns -> Seq(Events)] /\ down \in Seq(DownFrames)
      /\ up \in Seq(Frames) /\ creg \in Registries /\ sreg \in Registries
  BY DEF EventTypes, TunnelInv, TunnelTypes
<1>1. CASE ClientDispatch
  <2>1. /\ down # <<>> /\ down' = Tail(down) /\ cchan' = Route(cchan, creg, {}, AsEvent(Head(down)))
        /\ app' = app /\ schan' = schan /\ tgt' = tgt /\ link' = link /\ cliUp' = cliUp /\ srvUp' = srvUp
    BY <1>1 DEF ClientDispatch, serverVars, linkVars
  <2>2. Tail(down) \in Seq(DownFrames) /\ Head(down) \in DownFrames
    BY <1>0, <2>1, Beheaded
  <2>3. AsEvent(Head(down)) \in Events
    BY <2>2, EventMade
  <2>4. cchan' \in [Conns -> Seq(Events)]
    BY <1>0, <2>1, <2>3, RouteTypes
  <2> QED
    BY <2>1, <2>2, <2>4 DEF EventTypes
<1>2. CASE ServerDispatch
  <2>1. /\ cchan' = cchan /\ app' = app /\ tgt' = tgt /\ link' = link /\ cliUp' = cliUp /\ srvUp' = srvUp
        /\ up # <<>>
    BY <1>2 DEF ServerDispatch, DispatchData, DispatchEnd, DispatchOpen, DispatchReject, clientVars, linkVars
  <2>2. Head(up).sid \in Sids /\ Head(up).conn \in Conns
    <3>1. Head(up) \in Frames
      BY <1>0, <2>1, Beheaded
    <3> QED
      BY <3>1 DEF Frames
  <2>3. down' \in Seq(DownFrames)
    <3>1. Msg("Rst", Head(up).sid, Head(up).conn, 0) \in DownFrames /\ Msg("Close", Head(up).sid, Head(up).conn, 0) \in DownFrames
      BY <2>2, DownMade
    <3>2. \/ down' = down
          \/ \E ok \in BOOLEAN : \/ Put(down, down', Msg("Rst", Head(up).sid, Head(up).conn, 0), ok)
                                 \/ Put(down, down', Msg("Close", Head(up).sid, Head(up).conn, 0), ok)
      BY <1>2 DEF ServerDispatch, DispatchData, DispatchEnd, DispatchOpen, DispatchReject
    <3> QED
      BY <1>0, <3>1, <3>2, DownPut
  <2>4. schan' \in [Conns -> Seq(Events)]
    <3>1. \/ schan' = schan
          \/ Head(up).ftype \in {"Data", "Fin", "Close"} /\ schan' = Route(schan, sreg, Dead, Head(up))
      BY <1>2 DEF ServerDispatch, DispatchData, DispatchEnd, DispatchOpen, DispatchReject
    <3>2. CASE schan' = schan
      BY <1>0, <3>2
    <3>3. CASE Head(up).ftype \in {"Data", "Fin", "Close"} /\ schan' = Route(schan, sreg, Dead, Head(up))
      <4>1. Head(up) \in Events
        BY <1>0, <2>1, <3>3, HeadIsEvent
      <4> QED
        BY <1>0, <3>3, <4>1, RouteTypes
    <3> QED
      BY <3>1, <3>2, <3>3
  <2> QED
    BY <2>1, <2>3, <2>4 DEF EventTypes
<1>3. CASE LinkBreak
  <2>1. /\ cchan' = cchan /\ app' = app /\ tgt' = tgt /\ schan' = schan /\ cliUp' = cliUp /\ srvUp' = srvUp
        /\ link' = FALSE
    BY <1>3 DEF LinkBreak, clientVars, serverVars
  <2>2. PICK n \in 0 .. Len(down) : down' = SubSeq(down, 1, n)
    BY <1>3 DEF LinkBreak
  <2>3. down' \in Seq(DownFrames)
    <3>1. <<>> \in Seq(DownFrames)
      OBVIOUS
    <3> QED
      BY <1>0, <2>2, <3>1, PipeCut
  <2>4. link' \in BOOLEAN
    BY <2>1, Zenon
  <2> QED
    BY <2>1, <2>3, <2>4 DEF EventTypes
<1>4. CASE Lost
  <2>1. /\ cchan' = cchan /\ app' = app /\ tgt' = tgt /\ schan' = schan /\ down' = down /\ link' = link
    BY <1>4 DEF Lost, ClientLost, ServerLost, clientVars, serverVars
  <2>2. (cliUp' = FALSE \/ cliUp' = cliUp) /\ (srvUp' = FALSE \/ srvUp' = srvUp)
    BY <1>4 DEF Lost, ClientLost, ServerLost
  <2>3. cliUp' \in BOOLEAN /\ srvUp' \in BOOLEAN
    BY <2>2, Zenon DEF EventTypes
  <2> QED
    BY <2>1, <2>3 DEF EventTypes
<1> QED
  BY <1>1, <1>2, <1>3, <1>4

-----------------------------------------------------------------------------
(* The invariant holds.                                                    *)

LEMMA TunnelInit ==
  ASSUME Init
  PROVE  TunnelInv /\ EventTypes
<1>1. /\ creg = NoSessions /\ sreg = NoSessions /\ next_id = 1
      /\ cl = [c \in Conns |-> NoTask] /\ srv = [c \in Conns |-> NoTask]
      /\ cchan = [c \in Conns |-> <<>>] /\ schan = [c \in Conns |-> <<>>]
      /\ app = [c \in Conns |-> <<>>] /\ tgt = [c \in Conns |-> <<>>]
      /\ up = <<>> /\ down = <<>>
  BY DEF Init
<1>2. NoTask \in CTask /\ NoTask \in STask /\ NoTask.phase = "idle" /\ NoTask.sid = 0 /\ NoTask.sent = 0
  BY DEF NoTask, CTask, STask, Tasks
<1>3. ~NoTask.fin
  BY DEF NoTask
<1>4. <<>> \in Seq(Frames) /\ <<>> \in Seq(Events) /\ <<>> \in Seq(DownFrames) /\ Len(<<>>) = 0
  OBVIOUS
<1>5. NoSessions \in Registries /\ \A s \in Sids : NoSessions[s] = NoOwner
  BY EmptyTable
<1>6. /\ \A c \in Conns : cl[c] = NoTask /\ srv[c] = NoTask /\ schan[c] = <<>> /\ tgt[c] = <<>>
      /\ cl \in [Conns -> CTask] /\ srv \in [Conns -> STask]
  BY <1>1, <1>2
<1>7. next_id \in 0 .. (MAX_SESSIONS - 1)
  BY <1>1, RegistryAssumption
<1>8. TunnelTypes
  BY <1>1, <1>4, <1>5, <1>6, <1>7 DEF TunnelTypes
<1>9. Owned /\ Named
  BY <1>1, <1>2, <1>4, <1>5, <1>6 DEF Owned, Named, Active
<1>10. UpInv
  <2>1. Len(up) = 0
    BY <1>1, <1>4
  <2>2. \A j \in 1 .. Len(up) : FALSE
    BY <2>1
  <2>3. \A c \in Conns : cl[c].phase = "idle"
    BY <1>2, <1>6
  <2> QED
    BY <2>2, <2>3 DEF UpInv, FrameOwner, FrameKinds, OpenAhead, OwnOrder, Grouped, CloseBehind, OpenUnderway
<1>11. ASSUME NEW c \in Conns PROVE StreamInv(c)
  <2>1. Fed(c) /\ srv[c].phase \notin Running /\ cl[c].phase \notin Gone /\ ~srv[c].fin
    BY <1>2, <1>3, <1>6 DEF Fed, Running, Gone
  <2>2. Pipe(c) = <<>> \o <<>>
    BY <1>1, <1>6, <2>1 DEF Pipe
  <2>3. Len(Pipe(c)) = 0
    BY <1>4, <2>2
  <2>4. Len(tgt[c]) = 0 /\ cl[c].sent = 0
    BY <1>2, <1>4, <1>6
  <2>5. Numbered(tgt[c], c)
    BY <2>4 DEF Numbered
  <2>6. Flow(c, tgt[c], Pipe(c), cl[c].sent) /\ NoFin(Pipe(c), c) /\ Whole(c, tgt[c], Pipe(c), cl[c].sent)
    BY <2>3, <2>4 DEF Flow, NoFin, Whole
  <2> QED
    BY <2>1, <2>5, <2>6 DEF StreamInv
<1>12. EventTypes
  <2>1. link \in BOOLEAN /\ cliUp \in BOOLEAN /\ srvUp \in BOOLEAN
    BY Zenon DEF Init
  <2> QED
    BY <1>1, <1>4, <2>1 DEF EventTypes
<1> QED
  BY <1>8, <1>9, <1>10, <1>11, <1>12 DEF TunnelInv

LEMMA TunnelNext ==
  ASSUME TunnelInv, EventTypes, [Next]_vars
  PROVE  TunnelInv' /\ EventTypes'
<1>1. ASSUME NEW c \in Conns,
             \/ Allocate(c) \/ ClientStep(c) \/ ClientFail(c)
             \/ \E ok \in BOOLEAN : ClientRead(c, ok) \/ ClientEof(c, ok)
      PROVE  TunnelInv' /\ EventTypes'
  BY <1>1, ClientNextKeeps, ClientEventTypes
<1>2. ASSUME NEW c \in Conns,
             \/ ServerStep(c) \/ ServerFail(c)
             \/ \E ok \in BOOLEAN : ServerRead(c, ok) \/ ServerEof(c, ok)
      PROVE  TunnelInv' /\ EventTypes'
  <2>1. EventTypes'
    BY <1>2, ServerEventTypes
  <2>2. CASE ServerStep(c)
    BY <2>1, <2>2, ServerQuietKeeps, ServerEventKeeps, ServerEndKeeps DEF ServerStep
  <2>3. CASE ServerFail(c) \/ \E ok \in BOOLEAN : ServerRead(c, ok) \/ ServerEof(c, ok)
    BY <2>1, <2>3, ServerQuietKeeps
  <2> QED
    BY <1>2, <2>2, <2>3
<1>3. CASE ClientDispatch
  <2>1. UNCHANGED <<next_id, cl, sreg, srv, schan, tgt, link, up>> /\ creg' = creg
    BY <1>3 DEF ClientDispatch, serverVars, linkVars
  <2> QED
    BY <1>3, <2>1, TunnelSame, OtherEventTypes
<1>4. CASE ServerDispatch
  BY <1>4, DispatchKeeps, OtherEventTypes
<1>5. CASE LinkBreak
  BY <1>5, LinkBreaks, OtherEventTypes
<1>6. CASE Lost
  <2>1. CASE ClientLost
    <3>1. UNCHANGED <<next_id, cl, sreg, srv, schan, tgt, link, up>> /\ ~link /\ creg' \in Registries
      BY <2>1, EmptyTable DEF ClientLost, serverVars
    <3> QED
      BY <1>6, <3>1, TunnelSame, OtherEventTypes
  <2>2. CASE ServerLost
    BY <1>6, <2>2, ServerLostKeeps, OtherEventTypes
  <2> QED
    BY <1>6, <2>1, <2>2 DEF Lost
<1>7. CASE UNCHANGED vars
  <2>1. TunnelInv'
    BY <1>7, TunnelSame DEF vars
  <2> QED
    BY <1>7, <2>1 DEF vars, EventTypes
<1> QED
  BY <1>1, <1>2, <1>3, <1>4, <1>5, <1>6, <1>7 DEF Next

(* The inductive invariant of the direction to the server, for any number  *)
(* of connections and ids (proxy.rs, listener.rs, forward.rs).             *)
THEOREM TunnelInvHolds == Spec => [](TunnelInv /\ EventTypes)
<1>1. Init => TunnelInv /\ EventTypes
  BY TunnelInit
<1>2. TunnelInv /\ EventTypes /\ [Next]_vars => TunnelInv' /\ EventTypes'
  BY TunnelNext
<1> QED
  BY <1>1, <1>2, PTL DEF Spec

(* The types of tables, tasks, channels and frames: no frame ever carries  *)
(* the reserved id 0, and a channel only holds Data, Fin and Close         *)
(* (dispatch.rs:38-45).                                                    *)
THEOREM TypeCorrect == Spec => []TypeOK
<1>1. TunnelInv /\ EventTypes => TypeOK
  <2> SUFFICES ASSUME TunnelInv, EventTypes PROVE TypeOK
    OBVIOUS
  <2>1. down \in Seq(Frames)
    <3>1. DownFrames \subseteq Frames
      BY DEF DownFrames, Frames
    <3>2. down \in Seq(DownFrames)
      BY DEF EventTypes
    <3> QED
      BY <3>1, <3>2
  <2>2. {link, cliUp, srvUp} \subseteq BOOLEAN
    BY Zenon DEF EventTypes
  <2> QED
    BY <2>1, <2>2 DEF TunnelInv, TunnelTypes, EventTypes, TypeOK, CTask, STask
<1> QED
  BY <1>1, TunnelInvHolds, PTL

(* A target receives the stream of its own connection and of no other, in  *)
(* order and without a hole, also when ids are used again while frames of  *)
(* their earlier sessions are under way, and when the SRT connection is    *)
(* lost at any moment (proxy.rs:177, forward.rs:654).                      *)
THEOREM TargetsAreIsolated == Spec => []TargetIsolation
<1>1. TunnelInv => TargetIsolation
  <2> SUFFICES ASSUME TunnelInv, NEW c \in Conns, NEW i \in DOMAIN tgt[c]
               PROVE  tgt[c][i].conn = c /\ tgt[c][i].n = i
    BY DEF TargetIsolation, StreamOf
  <2>1. tgt[c] \in Seq(Frames)
    BY Typed DEF TunnelInv
  <2>2. i \in 1 .. Len(tgt[c])
    BY <2>1
  <2> QED
    BY <2>2 DEF TunnelInv, StreamInv, Numbered
<1> QED
  BY <1>1, TunnelInvHolds, PTL

(* When the server processes the Fin of a connection the target has        *)
(* received all that the client sent on it (dispatch.rs:368), also when    *)
(* ids are used again.                                                     *)
THEOREM TargetsAreComplete == Spec => [](\A c \in Conns : srv[c].fin => Len(tgt[c]) = cl[c].sent)
<1>1. TunnelInv => \A c \in Conns : srv[c].fin => Len(tgt[c]) = cl[c].sent
  BY DEF TunnelInv, StreamInv
<1> QED
  BY <1>1, TunnelInvHolds, PTL

-----------------------------------------------------------------------------
(* The direction to the client.  The server never sends an Open, so that   *)
(* nothing separates the sessions that use an id one after the other       *)
(* (multiplex.rs:126): what follows is for ids that are not used twice,    *)
(* which is so until next_id has gone around the table.                    *)
FreshIds == \A c, d \in Conns : cl[c].sid = cl[d].sid /\ cl[c].sid # 0 => c = d

Reading == {"idle", "open", "loop"}
DownPipe(c) == cchan[c] \o down

(* A session that runs is in the table of its end, as long as the receive  *)
(* loop of that end runs.                                                  *)
Registered ==
  /\ srvUp => \A c \in Conns : srv[c].phase \in Running => sreg[srv[c].sid] = c
  /\ cliUp => \A c \in Conns : cl[c].phase \in Active => creg[cl[c].sid] = c
  /\ \A sid \in Sids : creg[sid] # NoOwner => cl[creg[sid]].sid = sid
  /\ ~cliUp => ~link /\ down = <<>>

(* Whose the frames and events are; a Rst is for a session that has ended. *)
Addressed ==
  /\ \A j \in 1 .. Len(down) : down[j].sid = cl[down[j].conn].sid
  /\ \A j \in 1 .. Len(down) : down[j].ftype = "Rst" => srv[down[j].conn].phase \notin Alive
  /\ \A c \in Conns : \A j \in 1 .. Len(cchan[c]) : cchan[c][j].conn = c
  /\ \A c \in Conns : srv[c].phase = "idle" => srv[c].sent = 0 /\ ~srv[c].eof

DownStream(c) ==
  /\ Numbered(app[c], c)
  /\ cl[c].phase \in Reading => Flow(c, app[c], DownPipe(c), srv[c].sent)
  /\ cl[c].phase \in Reading /\ ~srv[c].eof => NoFin(DownPipe(c), c)
  /\ link /\ cl[c].phase \in Reading => Whole(c, app[c], DownPipe(c), srv[c].sent)
  /\ cl[c].fin => srv[c].eof /\ Len(app[c]) = srv[c].sent

DownInv == Registered /\ Addressed /\ NeverRefused /\ \A c \in Conns : DownStream(c)

LEMMA DownIs ==
  ASSUME EventTypes, NEW c \in Conns
  PROVE  /\ cchan[c] \in Seq(Frames) /\ down \in Seq(Frames) /\ app[c] \in Seq(Frames) /\ Len(app[c]) \in Nat
         /\ DownPipe(c) \in Seq(Frames) /\ Len(DownPipe(c)) \in Nat
         /\ \A i \in 1 .. Len(DownPipe(c)) : DownPipe(c)[i].n \in Nat
<1>1. Events \subseteq Frames /\ DownFrames \subseteq Frames
  BY DEF Events, DownFrames, Frames
<1>2. cchan[c] \in Seq(Events) /\ app[c] \in Seq(Events) /\ down \in Seq(DownFrames)
  BY DEF EventTypes
<1>3. cchan[c] \in Seq(Frames) /\ app[c] \in Seq(Frames) /\ down \in Seq(Frames)
  BY <1>1, <1>2
<1>4. DownPipe(c) \in Seq(Frames)
  BY <1>3 DEF DownPipe
<1> HIDE DEF DownPipe
<1> QED
  BY <1>3, <1>4, FrameIs

(* Nothing is sent to it; the end of what is under way may be lost. *)
LEMMA DownShorter ==
  ASSUME NEW c \in Conns, DownStream(c), Len(DownPipe(c)) \in Nat,
         app'[c] = app[c], srv'[c].sent = srv[c].sent, srv[c].eof => srv'[c].eof,
         cl'[c].fin => cl[c].fin,
         cl'[c].phase \in Reading =>
           /\ cl[c].phase \in Reading
           /\ Len(DownPipe(c)') \in Nat /\ Len(DownPipe(c)') <= Len(DownPipe(c))
           /\ \A i \in 1 .. Len(DownPipe(c)') : DownPipe(c)'[i] = DownPipe(c)[i],
         link' /\ cl'[c].phase \in Reading => link /\ DownPipe(c)' = DownPipe(c)
  PROVE  DownStream(c)'
<1>1. Numbered(app'[c], c)
  BY DEF DownStream
<1>2. cl'[c].phase \in Reading => Flow(c, app'[c], DownPipe(c)', srv'[c].sent)
  <2> SUFFICES ASSUME cl'[c].phase \in Reading PROVE Flow(c, app[c], DownPipe(c)', srv[c].sent)
    OBVIOUS
  <2>1. Flow(c, app[c], DownPipe(c), srv[c].sent)
    BY DEF DownStream
  <2> QED
    BY <2>1, FlowCut
<1>3. cl'[c].phase \in Reading /\ ~srv'[c].eof => NoFin(DownPipe(c)', c)
  <2> SUFFICES ASSUME cl'[c].phase \in Reading, ~srv'[c].eof PROVE NoFin(DownPipe(c)', c)
    OBVIOUS
  <2>1. NoFin(DownPipe(c), c)
    BY DEF DownStream
  <2> QED
    BY <2>1, NoFinCut
<1>4. link' /\ cl'[c].phase \in Reading => Whole(c, app'[c], DownPipe(c)', srv'[c].sent)
  BY DEF DownStream
<1>5. cl'[c].fin => srv'[c].eof /\ Len(app'[c]) = srv'[c].sent
  BY DEF DownStream
<1> QED
  BY <1>1, <1>2, <1>3, <1>4, <1>5 DEF DownStream

(* Data is read for it after the SRT connection is lost. *)
LEMMA DownGrow ==
  ASSUME NEW c \in Conns, DownStream(c), EventTypes, srv[c].sent \in Nat,
         ~srv[c].eof, srv'[c].sent = srv[c].sent + 1, ~srv'[c].eof,
         app'[c] = app[c], cl'[c] = cl[c], DownPipe(c)' = DownPipe(c), ~link'
  PROVE  DownStream(c)'
<1> DEFINE q == DownPipe(c)
           s == srv[c].sent
<1>1. Len(q) \in Nat /\ Len(app[c]) \in Nat /\ \A i \in 1 .. Len(q) : q[i].n \in Nat
  BY DownIs
<1>2. Numbered(app'[c], c) /\ ~cl[c].fin
  BY DEF DownStream
<1>3. cl[c].phase \in Reading => NoFin(q, c)
  BY DEF DownStream
<1>4. cl[c].phase \in Reading => Flow(c, app[c], q, s + 1)
  <2> SUFFICES ASSUME cl[c].phase \in Reading PROVE Flow(c, app[c], q, s + 1)
    OBVIOUS
  <2>1. Flow(c, app[c], q, s) /\ NoFin(q, c)
    BY <1>3 DEF DownStream
  <2> HIDE DEF q, s
  <2>2. s \in Nat
    BY DEF s
  <2> QED
    BY <1>1, <2>1, <2>2, FlowGrow
<1> QED
  BY <1>2, <1>3, <1>4 DEF DownStream

(* The server sends a frame, to it or to another connection. *)
LEMMA DownSend ==
  ASSUME NEW c \in Conns, NEW x \in Frames, DownStream(c), EventTypes, srv[c].sent \in Nat,
         link, DownPipe(c)' = Append(DownPipe(c), x), app'[c] = app[c], cl'[c] = cl[c],
         srv[c].eof => srv'[c].eof,
         Own(x, c, "Data") => ~srv[c].eof /\ x.n = srv[c].sent + 1 /\ srv'[c].sent = srv[c].sent + 1,
         ~Own(x, c, "Data") => srv'[c].sent = srv[c].sent,
         Own(x, c, "Fin") => srv'[c].eof
  PROVE  DownStream(c)'
<1> DEFINE q == DownPipe(c)
           r == DownPipe(c)'
           w == app[c]
           s == srv[c].sent
<1>0. q \in Seq(Frames) /\ Len(w) \in Nat /\ \A i \in 1 .. Len(q) : q[i].n \in Nat
  BY DownIs
<1>1. Len(q) \in Nat /\ Len(r) = Len(q) + 1 /\ r[Len(r)] = x /\ \A i \in 1 .. Len(q) : r[i] = q[i]
  BY <1>0, Appended
<1>2. cl[c].phase \in Reading => Flow(c, w, q, s) /\ Whole(c, w, q, s) /\ (~srv[c].eof => NoFin(q, c))
  BY DEF DownStream
<1>3. Numbered(w, c) /\ (cl[c].fin => srv[c].eof /\ Len(w) = s) /\ s \in Nat
  BY DEF DownStream
<1> HIDE DEF q, r, s, w
<1>4. ASSUME cl[c].phase \in Reading
      PROVE  Flow(c, w, r, srv'[c].sent) /\ Whole(c, w, r, srv'[c].sent)
  <2>1. CASE Own(x, c, "Data")
    <3>1. IsData(x, c, s + 1) /\ NoFin(q, c) /\ srv'[c].sent = s + 1
      BY <1>2, <1>4, <2>1 DEF IsData, Own, s
    <3>2. Flow(c, w, r, s + 1) /\ Whole(c, w, r, s + 1)
      BY <1>0, <1>1, <1>2, <1>3, <1>4, <3>1, FlowData
    <3> QED
      BY <3>1, <3>2
  <2>2. CASE ~Own(x, c, "Data")
    <3>1. srv'[c].sent = s
      BY <2>2 DEF s
    <3>2. Flow(c, w, r, s) /\ Whole(c, w, r, s)
      BY <1>1, <1>2, <1>4, <2>2, FlowOther
    <3> QED
      BY <3>1, <3>2
  <2> QED
    BY <2>1, <2>2
<1>5. cl[c].phase \in Reading /\ ~srv'[c].eof => NoFin(r, c)
  <2>1. ~srv'[c].eof => ~Own(x, c, "Fin")
    OBVIOUS
  <2> QED
    BY <1>1, <1>2, <2>1, NoFinAppend
<1>6. cl[c].fin => srv'[c].eof /\ Len(w) = srv'[c].sent
  BY <1>3 DEF s
<1> USE DEF w, r
<1> QED
  BY <1>3, <1>4, <1>5, <1>6 DEF DownStream

(* A frame arrives in its channel, a Rst as a Close. *)
LEMMA DownArrives ==
  ASSUME NEW c \in Conns, NEW y \in Frames, DownStream(c), EventTypes, down # <<>>,
         down' = Tail(down), cchan'[c] = Append(cchan[c], y),
         y = Head(down) \/ (y.ftype = "Close" /\ Head(down).ftype = "Rst"),
         app'[c] = app[c], cl'[c] = cl[c], srv'[c] = srv[c], link' = link
  PROVE  DownStream(c)'
<1> DEFINE q == DownPipe(c)
           r == DownPipe(c)'
           w == app[c]
           s == srv[c].sent
<1>1. /\ Len(r) = Len(q) /\ Len(q) \in Nat
      /\ \A i \in 1 .. Len(q) : r[i] = q[i] \/ (r[i] = y /\ q[i] = Head(down))
  <2> DEFINE a == cchan[c]
  <2>1. a \in Seq(Frames) /\ down \in Seq(Frames) /\ q = a \o down /\ r = Append(a, y) \o Tail(down)
    BY DownIs DEF DownPipe
  <2> HIDE DEF a, q, r
  <2> QED
    BY <2>1, PipeRoute
<1>2. \A i \in 1 .. Len(q) : r[i] = q[i] \/ (r[i].ftype = "Close" /\ q[i].ftype = "Rst")
  BY <1>1
<1>3. /\ cl[c].phase \in Reading => Flow(c, w, q, s) /\ (link => Whole(c, w, q, s))
      /\ cl[c].phase \in Reading /\ ~srv[c].eof => NoFin(q, c)
      /\ Numbered(w, c) /\ (cl[c].fin => srv[c].eof /\ Len(w) = s)
  BY DEF DownStream
<1> HIDE DEF q, r, w, s
<1>4. cl[c].phase \in Reading => Flow(c, w, r, s) /\ (link => Whole(c, w, r, s))
  BY <1>1, <1>2, <1>3, FlowSame
<1>5. cl[c].phase \in Reading /\ ~srv[c].eof => NoFin(r, c)
  BY <1>1, <1>2, <1>3 DEF NoFin, Own
<1> USE DEF w, s, r
<1> QED
  BY <1>3, <1>4, <1>5 DEF DownStream

(* A frame of another connection arrives. *)
LEMMA DownPasses ==
  ASSUME NEW c \in Conns, DownStream(c), EventTypes, down # <<>>,
         cl[c].phase \in Reading => Head(down).conn # c,
         down' = Tail(down), cchan'[c] = cchan[c],
         app'[c] = app[c], cl'[c] = cl[c], srv'[c] = srv[c], link' = link
  PROVE  DownStream(c)'
<1> DEFINE q == DownPipe(c)
           r == DownPipe(c)'
           w == app[c]
           s == srv[c].sent
           p == Len(cchan[c]) + 1
<1>1. /\ p \in 1 .. Len(q) /\ q[p] = Head(down) /\ Len(r) = Len(q) - 1 /\ q \in Seq(Frames)
      /\ \A i \in 1 .. (p - 1) : r[i] = q[i]
      /\ \A i \in p .. Len(r) : r[i] = q[i + 1]
  <2> DEFINE a == cchan[c]
  <2>1. a \in Seq(Frames) /\ down \in Seq(Frames) /\ q = a \o down /\ r = a \o Tail(down) /\ p = Len(a) + 1
    BY DownIs DEF DownPipe
  <2> HIDE DEF a, q, r, p
  <2> QED
    BY <2>1, PipeDrop
<1>2. Len(q) \in Nat
  BY <1>1
<1>3. /\ cl[c].phase \in Reading => Flow(c, w, q, s) /\ (link => Whole(c, w, q, s))
      /\ cl[c].phase \in Reading /\ ~srv[c].eof => NoFin(q, c)
      /\ Numbered(w, c) /\ (cl[c].fin => srv[c].eof /\ Len(w) = s)
  BY DEF DownStream
<1>4. cl[c].phase \in Reading => ~Own(q[p], c, "Data")
  BY <1>1 DEF Own
<1> HIDE DEF q, r, w, s, p
<1>5. cl[c].phase \in Reading => Flow(c, w, r, s) /\ (link => Whole(c, w, r, s))
  BY <1>1, <1>2, <1>3, <1>4, FlowDrop
<1>6. cl[c].phase \in Reading /\ ~srv[c].eof => NoFin(r, c)
  BY <1>1, <1>2, <1>3, NoFinDrop
<1> USE DEF w, s, r
<1> QED
  BY <1>3, <1>5, <1>6 DEF DownStream

(* Its task takes an event from the channel and stays in its loop: Data,   *)
(* which it writes to the application, or Fin.                             *)
LEMMA DownTaken ==
  ASSUME NEW c \in Conns, DownStream(c), EventTypes, srv[c].sent \in Nat, cl[c].phase \in Reading,
         cchan[c] # <<>>, Head(cchan[c]).conn = c, cchan'[c] = Tail(cchan[c]), down' = down,
         srv'[c] = srv[c], link' = link,
         \/ /\ Head(cchan[c]).ftype = "Data" /\ app'[c] = Append(app[c], Head(cchan[c]))
            /\ ~cl'[c].fin
         \/ Head(cchan[c]).ftype = "Fin" /\ app'[c] = app[c]
  PROVE  DownStream(c)'
<1> DEFINE q == DownPipe(c)
           r == DownPipe(c)'
           w == app[c]
           v == app'[c]
           s == srv[c].sent
           h == Head(cchan[c])
<1>1. /\ q[1] = h /\ Len(r) = Len(q) - 1 /\ Len(q) \in Nat /\ Len(q) > 0
      /\ \A i \in 1 .. Len(r) : r[i] = q[i + 1]
  <2> DEFINE a == cchan[c]
  <2>1. a \in Seq(Frames) /\ a # <<>> /\ down \in Seq(Frames) /\ q = a \o down /\ r = Tail(a) \o down /\ h = Head(a)
    BY DownIs DEF DownPipe
  <2> HIDE DEF a, q, r, h
  <2> QED
    BY <2>1, PipeTake
<1>2. Len(w) \in Nat /\ w \in Seq(Frames) /\ s \in Nat /\ \A i \in 1 .. Len(q) : q[i].n \in Nat
  BY DownIs
<1>3. Flow(c, w, q, s) /\ (link => Whole(c, w, q, s)) /\ (~srv[c].eof => NoFin(q, c)) /\ Numbered(w, c)
  BY DEF DownStream
<1>4. h \in Frames /\ h.conn = c
  <2>1. cchan[c] \in Seq(Frames)
    BY DownIs
  <2> QED
    BY <2>1, Beheaded
<1>5. \/ h.ftype = "Data" /\ v = Append(w, h) /\ ~cl'[c].fin
      \/ h.ftype = "Fin" /\ v = w
  OBVIOUS
<1> HIDE DEF q, r, w, v, s, h
<1>6. 1 \in 1 .. Len(q) /\ \A i \in 1 .. (1 - 1) : r[i] = q[i]
  BY <1>1
<1>7. ~srv[c].eof => NoFin(r, c)
  BY <1>1, <1>3, <1>6, NoFinDrop
<1>8. CASE h.ftype = "Data" /\ v = Append(w, h) /\ ~cl'[c].fin
  <2>1. Len(v) = Len(w) + 1 /\ v[Len(v)] = h /\ \A i \in 1 .. Len(w) : v[i] = w[i]
    BY <1>2, <1>4, <1>8, Appended
  <2>2. Own(q[1], c, "Data")
    BY <1>1, <1>4, <1>8 DEF Own
  <2>3. Numbered(v, c) /\ Flow(c, v, r, s) /\ (Whole(c, w, q, s) => Whole(c, v, r, s))
    BY <1>1, <1>2, <1>3, <2>1, <2>2, FlowTake
  <2> USE DEF v, s, r
  <2> QED
    BY <1>3, <1>7, <1>8, <2>3 DEF DownStream
<1>9. CASE h.ftype = "Fin" /\ v = w
  <2>1. Own(q[1], c, "Fin") /\ ~Own(q[1], c, "Data")
    BY <1>1, <1>4, <1>9 DEF Own
  <2>2. Len(w) = s
    BY <1>1, <1>2, <1>3, <2>1, FlowFin
  <2>3. srv[c].eof
    BY <1>3, <1>6, <2>1 DEF NoFin
  <2>4. Flow(c, w, r, s) /\ (Whole(c, w, q, s) => Whole(c, w, r, s))
    BY <1>1, <1>3, <1>6, <2>1, FlowDrop
  <2>5. Numbered(v, c) /\ Flow(c, v, r, s) /\ (link => Whole(c, v, r, s)) /\ Len(v) = s
    BY <1>3, <1>9, <2>2, <2>4
  <2> HIDE DEF v
  <2> USE DEF s, r
  <2> QED
    BY <2>3, <2>5 DEF DownStream, v
<1> QED
  BY <1>5, <1>8, <1>9

-----------------------------------------------------------------------------
(* Steps of the client.                                                    *)

LEMMA ClientDown ==
  ASSUME EventTypes, DownInv, UNCHANGED <<serverVars, linkVars, down>>,
         \A c \in Conns : cl'[c].sid = cl[c].sid \/ cl[c].sid = 0,
         cliUp => \A c \in Conns : cl'[c].phase \in Active => creg'[cl'[c].sid] = c,
         \A sid \in Sids : creg'[sid] # NoOwner => cl'[creg'[sid]].sid = sid,
         \A c \in Conns : \A j \in 1 .. Len(cchan'[c]) : cchan'[c][j].conn = c,
         \A c \in Conns : DownStream(c)'
  PROVE  DownInv'
<1>1. Registered /\ Addressed /\ NeverRefused
  BY DEF DownInv
<1>2. srv' = srv /\ sreg' = sreg /\ down' = down /\ link' = link /\ cliUp' = cliUp /\ srvUp' = srvUp
  BY DEF serverVars, linkVars
<1>3. Registered'
  BY <1>1, <1>2 DEF Registered
<1>4. \A j \in 1 .. Len(down) : down[j].conn \in Conns /\ down[j].sid # 0
  <2>1. down \in Seq(DownFrames)
    BY DEF EventTypes
  <2>2. \A j \in 1 .. Len(down) : down[j] \in DownFrames
    BY <2>1
  <2>3. \A m \in DownFrames : m.conn \in Conns /\ m.sid \in Sids
    BY DEF DownFrames
  <2> QED
    BY <2>2, <2>3, ZeroIsNone
<1>5. \A j \in 1 .. Len(down) : down[j].sid = cl'[down[j].conn].sid
  BY <1>1, <1>4 DEF Addressed
<1>6. Addressed'
  BY <1>1, <1>2, <1>5 DEF Addressed
<1>7. NeverRefused'
  BY <1>1, <1>2 DEF NeverRefused
<1> QED
  BY <1>3, <1>6, <1>7 DEF DownInv

(* A task moves and takes no event. *)
LEMMA ClientQuiet ==
  ASSUME TunnelInv, EventTypes, DownInv, NEW c0 \in Conns, NEW t \in CTask,
         cl' = [cl EXCEPT ![c0] = t], UNCHANGED <<creg, cchan, app, serverVars, linkVars, down>>,
         t.sid = cl[c0].sid, t.fin => cl[c0].fin,
         t.phase \in Reading => cl[c0].phase \in Reading,
         t.phase \in Active => cl[c0].phase \in Active
  PROVE  DownInv'
<1>1. cl \in [Conns -> CTask]
  BY DEF TunnelInv, TunnelTypes
<1>2. cl'[c0] = t /\ \A c \in Conns : c # c0 => cl'[c] = cl[c]
  BY <1>1
<1>3. Registered /\ Addressed
  BY DEF DownInv
<1>4. \A c \in Conns : cl'[c].sid = cl[c].sid
  BY <1>2
<1>5. cliUp => \A c \in Conns : cl'[c].phase \in Active => creg'[cl'[c].sid] = c
  BY <1>2, <1>3 DEF Registered
<1>6. \A sid \in Sids : creg'[sid] # NoOwner => cl'[creg'[sid]].sid = sid
  <2>1. \A sid \in Sids : creg[sid] # NoOwner => creg[sid] \in Conns
    BY DEF TunnelInv, TunnelTypes, Registries, Conns
  <2> QED
    BY <1>3, <1>4, <2>1 DEF Registered
<1>7. \A c \in Conns : \A j \in 1 .. Len(cchan'[c]) : cchan'[c][j].conn = c
  BY <1>3 DEF Addressed
<1>8. ASSUME NEW c \in Conns PROVE DownStream(c)'
  <2>1. DownStream(c) /\ Len(DownPipe(c)) \in Nat
    BY DownIs DEF DownInv
  <2>2. DownPipe(c)' = DownPipe(c) /\ app' = app /\ srv' = srv /\ link' = link
    BY DEF DownPipe, serverVars, linkVars
  <2>3. cl'[c].fin => cl[c].fin
    BY <1>2
  <2>4. cl'[c].phase \in Reading => cl[c].phase \in Reading
    BY <1>2
  <2> HIDE DEF DownPipe
  <2> QED
    BY <2>1, <2>2, <2>3, <2>4, DownShorter
<1> QED
  BY <1>4, <1>5, <1>6, <1>7, <1>8, ClientDown

LEMMA ClientQuietDown ==
  ASSUME TunnelInv, EventTypes, DownInv, NEW c0 \in Conns, NEW ok \in BOOLEAN,
         \/ ClientOpen(c0, ok) \/ ClientRead(c0, ok) \/ ClientEof(c0, ok) \/ ClientClose(c0, ok)
         \/ ClientFail(c0) \/ ClientChannelClosed(c0)
  PROVE  DownInv'
<1>0. cl[c0] \in CTask
  BY Typed DEF TunnelInv
<1>1. UNCHANGED <<creg, cchan, app, serverVars, linkVars, down>>
  BY DEF ClientOpen, ClientRead, ClientEof, ClientClose, ClientFail, ClientChannelClosed, ClientTask
<1>2. \E t \in CTask : /\ cl' = [cl EXCEPT ![c0] = t] /\ t.sid = cl[c0].sid /\ t.fin = cl[c0].fin
                       /\ t.phase \in Reading => cl[c0].phase \in Reading
                       /\ t.phase \in Active => cl[c0].phase \in Active
  <2>1. CASE ClientOpen(c0, ok)
    <3> DEFINE p == IF ok THEN "loop" ELSE "exit"
               t == [cl[c0] EXCEPT !.phase = p]
    <3>1. cl' = [cl EXCEPT ![c0] = t] /\ cl[c0].phase = "open"
      BY <2>1 DEF ClientOpen, ClientTask, Leave
    <3>2. p \in {"idle", "open", "loop", "exit", "drop", "done"}
      OBVIOUS
    <3> HIDE DEF p
    <3>3. t \in CTask /\ t.sid = cl[c0].sid /\ t.fin = cl[c0].fin
      BY <1>0, <3>2, CTaskMove
    <3> HIDE DEF t
    <3> QED
      BY <3>1, <3>3 DEF Reading, Active
  <2>2. CASE ClientRead(c0, ok)
    <3> DEFINE t == AfterRead(cl[c0], ok)
    <3>1. cl' = [cl EXCEPT ![c0] = t] /\ cl[c0].phase = "loop"
      BY <2>2 DEF ClientRead, ClientTask
    <3>2. t \in CTask /\ t.sid = cl[c0].sid /\ t.fin = cl[c0].fin
      BY <1>0, AfterReadIs, CTaskPhases DEF CTask
    <3> HIDE DEF t
    <3> QED
      BY <3>1, <3>2 DEF Reading, Active
  <2>3. CASE ClientEof(c0, ok)
    <3> DEFINE t == AfterEof(cl[c0], ok)
    <3>1. cl' = [cl EXCEPT ![c0] = t] /\ cl[c0].phase = "loop"
      BY <2>3 DEF ClientEof, ClientTask
    <3>2. t \in CTask /\ t.sid = cl[c0].sid /\ t.fin = cl[c0].fin
      BY <1>0, AfterEofIs, CTaskPhases DEF CTask
    <3> HIDE DEF t
    <3> QED
      BY <3>1, <3>2 DEF Reading, Active
  <2>4. CASE ClientFail(c0) \/ ClientChannelClosed(c0)
    <3> DEFINE t == [cl[c0] EXCEPT !.phase = "exit"]
    <3>1. cl' = [cl EXCEPT ![c0] = t] /\ cl[c0].phase = "loop"
      BY <2>4 DEF ClientFail, ClientChannelClosed, ClientTask, Leave, Listening
    <3>2. t \in CTask /\ t.sid = cl[c0].sid /\ t.fin = cl[c0].fin
      BY <1>0, CTaskMove, CTaskPhases
    <3> HIDE DEF t
    <3> QED
      BY <3>1, <3>2 DEF Reading, Active
  <2>5. CASE ClientClose(c0, ok)
    <3> DEFINE t == [cl[c0] EXCEPT !.phase = "drop"]
    <3>1. cl' = [cl EXCEPT ![c0] = t] /\ cl[c0].phase = "exit"
      BY <2>5 DEF ClientClose, ClientTask
    <3>2. t \in CTask /\ t.phase = "drop" /\ t.sid = cl[c0].sid /\ t.fin = cl[c0].fin
      BY <1>0, CTaskMove, CTaskPhases
    <3> HIDE DEF t
    <3> QED
      BY <3>1, <3>2 DEF Reading, Active
  <2> QED
    BY <2>1, <2>2, <2>3, <2>4, <2>5
<1>3. PICK t \in CTask : /\ cl' = [cl EXCEPT ![c0] = t] /\ t.sid = cl[c0].sid /\ t.fin = cl[c0].fin
                         /\ t.phase \in Reading => cl[c0].phase \in Reading
                         /\ t.phase \in Active => cl[c0].phase \in Active
  BY <1>2
<1>4. t.fin => cl[c0].fin
  BY <1>3, Zenon
<1> QED
  BY <1>1, <1>3, <1>4, ClientQuiet

LEMMA AllocateDown ==
  ASSUME TunnelInv, EventTypes, DownInv, NEW c0 \in Conns, Allocate(c0)
  PROVE  DownInv'
<1>0. TunnelTypes /\ Named
  BY DEF TunnelInv
<1>1. /\ cl \in [Conns -> CTask] /\ creg \in Registries /\ next_id \in 0 .. (MAX_SESSIONS - 1)
      /\ cl[c0] \in CTask
  BY <1>0 DEF TunnelTypes
<1>2. cl[c0].phase = "idle" /\ UNCHANGED <<cchan, app, serverVars, linkVars, down>>
  BY DEF Allocate
<1>3. cl[c0].sid = 0
  BY <1>0, <1>2 DEF Named
<1>4. CASE Full(creg)
  <2> DEFINE t == [cl[c0] EXCEPT !.phase = "done"]
  <2>1. t \in CTask /\ t.phase = "done" /\ t.sid = cl[c0].sid /\ t.fin = cl[c0].fin
    BY <1>1, CTaskMove
  <2>2. cl' = [cl EXCEPT ![c0] = t] /\ creg' = creg
    BY <1>1, <1>4 DEF Allocate
  <2> HIDE DEF t
  <2>3. t.fin => cl[c0].fin
    BY <2>1, Zenon
  <2>4. t.phase \notin Reading /\ t.phase \notin Active
    BY <2>1 DEF Reading, Active
  <2> QED
    BY <1>2, <2>1, <2>2, <2>3, <2>4, ClientQuiet
<1>5. CASE ~Full(creg)
  <2> DEFINE s == FirstFree(creg, next_id)
             t == [cl[c0] EXCEPT !.phase = "open", !.sid = s]
  <2>1. s \in Sids /\ creg[s] = NoOwner
    BY <1>1, <1>5, FirstFreeIs
  <2>2. creg' = [creg EXCEPT ![s] = c0] /\ cl' = [cl EXCEPT ![c0] = t]
    BY <1>1, <1>5 DEF Allocate, Insert
  <2> HIDE DEF s
  <2>3. t \in CTask /\ t.phase = "open" /\ t.sid = s /\ t.fin = cl[c0].fin
    <3> DEFINE v == cl[c0]
    <3>1. v \in CTask /\ cl[c0] = v
      BY <1>1
    <3> HIDE DEF v
    <3> QED
      BY <2>1, <3>1 DEF CTask, Tasks
  <2> HIDE DEF t
  <2>4. cl'[c0] = t /\ \A c \in Conns : c # c0 => cl'[c] = cl[c]
    BY <1>1, <2>2
  <2>5. creg'[s] = c0 /\ \A k \in Sids : k # s => creg'[k] = creg[k]
    BY <1>1, <2>1, <2>2 DEF Registries, Conns
  <2>6. Registered /\ Addressed
    BY DEF DownInv
  <2>7. ASSUME cliUp, NEW c \in Conns, cl'[c].phase \in Active PROVE creg'[cl'[c].sid] = c
    <3>1. CASE c = c0
      BY <2>3, <2>4, <2>5, <3>1
    <3>2. CASE c # c0
      <4>1. creg[cl[c].sid] = c /\ cl'[c] = cl[c]
        BY <2>4, <2>6, <2>7, <3>2 DEF Registered
      <4>2. cl[c].phase \notin {"idle", "done"}
        BY <2>7, <4>1 DEF Active
      <4>3. cl[c].sid # 0
        BY <1>0, <4>2 DEF Named
      <4>4. cl[c].sid \in Sids /\ cl[c].sid # s
        BY <1>0, <2>1, <4>1, <4>3, Typed, NoOwnerIsNone
      <4> QED
        BY <2>5, <4>1, <4>4
    <3> QED
      BY <3>1, <3>2
  <2>8. ASSUME NEW k \in Sids, creg'[k] # NoOwner PROVE cl'[creg'[k]].sid = k
    <3>1. CASE k = s
      BY <2>3, <2>4, <2>5, <3>1
    <3>2. CASE k # s
      <4>1. creg'[k] = creg[k] /\ cl[creg[k]].sid = k /\ creg[k] \in Conns
        BY <1>1, <2>5, <2>6, <2>8, <3>2 DEF Registered, Registries, Conns
      <4>2. creg[k] # c0
        BY <1>3, <4>1, ZeroIsNone
      <4> QED
        BY <2>4, <4>1, <4>2
    <3> QED
      BY <3>1, <3>2
  <2>9. \A c \in Conns : \A j \in 1 .. Len(cchan'[c]) : cchan'[c][j].conn = c
    BY <1>2, <2>6 DEF Addressed
  <2>10. \A c \in Conns : cl'[c].sid = cl[c].sid \/ cl[c].sid = 0
    BY <1>3, <2>4
  <2>11. ASSUME NEW c \in Conns PROVE DownStream(c)'
    <3>1. DownStream(c) /\ Len(DownPipe(c)) \in Nat
      BY DownIs DEF DownInv
    <3>2. DownPipe(c)' = DownPipe(c) /\ app' = app /\ srv' = srv /\ link' = link
      BY <1>2 DEF DownPipe, serverVars, linkVars
    <3>3. t.fin => cl[c0].fin
      BY <2>3, Zenon
    <3>4. cl'[c].fin => cl[c].fin
      BY <2>4, <3>3
    <3>5. cl'[c].phase \in Reading => cl[c].phase \in Reading
      BY <1>2, <2>4 DEF Reading
    <3> HIDE DEF DownPipe
    <3> QED
      BY <3>1, <3>2, <3>4, <3>5, DownShorter
  <2> QED
    BY <1>2, <2>7, <2>8, <2>9, <2>10, <2>11, ClientDown
<1> QED
  BY <1>4, <1>5

(* The id of a task that ends leaves the table: it was the id's only owner. *)
LEMMA ClientDropDown ==
  ASSUME TunnelInv, EventTypes, DownInv, FreshIds, NEW c0 \in Conns, ClientDrop(c0)
  PROVE  DownInv'
<1> DEFINE t == [cl[c0] EXCEPT !.phase = "done"]
<1>0. TunnelTypes /\ Named /\ Registered /\ Addressed
  BY DEF TunnelInv, DownInv
<1>1. cl \in [Conns -> CTask] /\ creg \in Registries /\ cl[c0] \in CTask /\ cchan \in [Conns -> Seq(Events)]
  BY <1>0 DEF TunnelTypes, EventTypes
<1>2. /\ cl[c0].phase = "drop" /\ UNCHANGED <<app, serverVars, linkVars, down>>
      /\ cl' = [cl EXCEPT ![c0] = t] /\ creg' = [creg EXCEPT ![cl[c0].sid] = NoOwner]
      /\ cchan' = [cchan EXCEPT ![c0] = <<>>]
  BY <1>1 DEF ClientDrop, Remove
<1>3. t \in CTask /\ t.phase = "done" /\ t.sid = cl[c0].sid /\ t.fin = cl[c0].fin
  BY <1>1, CTaskMove
<1>4. cl[c0].sid # 0
  BY <1>0, <1>2 DEF Named
<1>5. cl[c0].sid \in Sids
  BY <1>0, <1>4, Typed
<1> HIDE DEF t
<1>6. cl'[c0] = t /\ \A c \in Conns : c # c0 => cl'[c] = cl[c]
  BY <1>1, <1>2
<1>7. /\ creg'[cl[c0].sid] = NoOwner /\ \A k \in Sids : k # cl[c0].sid => creg'[k] = creg[k]
  BY <1>1, <1>2, <1>5 DEF Registries
<1>8. ASSUME cliUp, NEW c \in Conns, cl'[c].phase \in Active PROVE creg'[cl'[c].sid] = c
  <2>1. c # c0
    BY <1>3, <1>6, <1>8 DEF Active
  <2>2. creg[cl[c].sid] = c /\ cl'[c] = cl[c] /\ cl[c].phase \in Active
    BY <1>0, <1>6, <1>8, <2>1 DEF Registered
  <2>3. cl[c].phase \notin {"idle", "done"}
    BY <2>2 DEF Active
  <2>4. cl[c].sid # 0
    BY <1>0, <2>3 DEF Named
  <2>5. cl[c].sid \in Sids /\ cl[c].sid # cl[c0].sid
    BY <1>0, <2>1, <2>4, Typed DEF FreshIds
  <2> QED
    BY <1>7, <2>2, <2>5
<1>9. ASSUME NEW k \in Sids, creg'[k] # NoOwner PROVE cl'[creg'[k]].sid = k
  <2>1. creg'[k] = creg[k] /\ cl[creg[k]].sid = k /\ creg[k] \in Conns
    BY <1>0, <1>1, <1>7, <1>9 DEF Registered, Registries, Conns
  <2> QED
    BY <1>3, <1>6, <2>1
<1>10. \A c \in Conns : cl'[c].sid = cl[c].sid
  BY <1>3, <1>6
<1>11. ASSUME NEW c \in Conns PROVE \A j \in 1 .. Len(cchan'[c]) : cchan'[c][j].conn = c
  <2>1. CASE c = c0
    <3>1. cchan'[c] = <<>> /\ Len(<<>>) = 0
      BY <1>1, <1>2, <2>1
    <3> QED
      BY <3>1
  <2>2. CASE c # c0
    <3>1. cchan'[c] = cchan[c]
      BY <1>1, <1>2, <2>2
    <3> QED
      BY <1>0, <3>1 DEF Addressed
  <2> QED
    BY <2>1, <2>2
<1>12. ASSUME NEW c \in Conns PROVE DownStream(c)'
  <2>1. DownStream(c) /\ Len(DownPipe(c)) \in Nat
    BY DownIs DEF DownInv
  <2>2. app' = app /\ srv' = srv /\ link' = link /\ down' = down
    BY <1>2 DEF serverVars, linkVars
  <2>3. t.fin => cl[c0].fin
    BY <1>3, Zenon
  <2>4. cl'[c].fin => cl[c].fin
    BY <1>6, <2>3
  <2>5. cl'[c].phase \in Reading => cl[c].phase \in Reading /\ DownPipe(c)' = DownPipe(c)
    <3>1. c = c0 => cl'[c].phase \notin Reading
      BY <1>3, <1>6 DEF Reading
    <3>2. c # c0 => cl'[c] = cl[c] /\ cchan'[c] = cchan[c]
      BY <1>1, <1>2, <1>6
    <3> QED
      BY <2>2, <3>1, <3>2 DEF DownPipe
  <2> HIDE DEF DownPipe
  <2> QED
    BY <2>1, <2>2, <2>4, <2>5, DownShorter
<1> QED
  BY <1>2, <1>8, <1>9, <1>10, <1>11, <1>12, ClientDown

LEMMA ClientEventDown ==
  ASSUME TunnelInv, EventTypes, DownInv, NEW c0 \in Conns, NEW write \in BOOLEAN, ClientEvent(c0, write)
  PROVE  DownInv'
<1> DEFINE h == Head(cchan[c0])
           t == AfterEvent(cl[c0], h.ftype, write)
<1>0. TunnelTypes /\ Named /\ Registered /\ Addressed
  BY DEF TunnelInv, DownInv
<1>1. /\ cl \in [Conns -> CTask] /\ cl[c0] \in CTask
      /\ cchan \in [Conns -> Seq(Events)] /\ app \in [Conns -> Seq(Events)]
  BY <1>0 DEF TunnelTypes, EventTypes
<1>2. /\ cl[c0].phase = "loop" /\ cchan[c0] # <<>> /\ UNCHANGED <<creg, serverVars, linkVars, down>>
      /\ cl' = [cl EXCEPT ![c0] = t] /\ cchan' = [cchan EXCEPT ![c0] = Tail(@)]
      /\ app' = IF h.ftype = "Data" /\ write THEN [app EXCEPT ![c0] = Append(@, h)] ELSE app
  BY DEF ClientEvent, ClientTask, Listening
<1>3. ~cl[c0].fin
  BY DEF ClientEvent, Listening
<1>4. cchan[c0] \in Seq(Events)
  BY <1>1
<1>5. h \in Events /\ h = cchan[c0][1] /\ Len(cchan[c0]) \in Nat /\ Len(cchan[c0]) > 0
      /\ Len(Tail(cchan[c0])) = Len(cchan[c0]) - 1
      /\ \A i \in 1 .. (Len(cchan[c0]) - 1) : Tail(cchan[c0])[i] = cchan[c0][i + 1]
  BY <1>2, <1>4, Beheaded
<1>6. h.ftype \in {"Data", "Fin", "Close"} /\ h.conn = c0
  <2>1. 1 \in 1 .. Len(cchan[c0])
    BY <1>5
  <2>2. cchan[c0][1].conn = c0
    BY <1>0, <2>1 DEF Addressed
  <2> QED
    BY <1>5, <2>2 DEF Events
<1>7. /\ t \in CTask /\ t.sid = cl[c0].sid /\ t.phase \in {"loop", "exit"}
      /\ h.ftype = "Data" /\ write => t = cl[c0]
      /\ h.ftype # "Fin" => t.fin = cl[c0].fin
      /\ h.ftype # "Fin" /\ ~(h.ftype = "Data" /\ write) => t.phase = "exit"
  <2> DEFINE f == h.ftype
  <2>1. f \in {"Data", "Fin", "Close"} /\ t = AfterEvent(cl[c0], f, write)
    BY <1>6
  <2> HIDE DEF f, t
  <2>2. /\ t \in CTask /\ t.sid = cl[c0].sid /\ t.phase \in {"loop", "exit"}
        /\ f = "Data" /\ write => t = cl[c0]
        /\ f # "Fin" => t.fin = cl[c0].fin
        /\ f # "Fin" /\ ~(f = "Data" /\ write) => t.phase = "exit"
    <3> DEFINE v == cl[c0]
    <3>1. v \in CTask /\ cl[c0] = v /\ t = AfterEvent(v, f, write) /\ v.phase = "loop"
      BY <1>1, <1>2, <2>1
    <3> HIDE DEF v
    <3>2. /\ t \in CTask /\ t.sid = v.sid /\ t.phase \in {v.phase, "exit"}
          /\ f = "Data" /\ write => t = v
          /\ f # "Fin" => t.fin = v.fin
          /\ f # "Fin" /\ ~(f = "Data" /\ write) => t.phase = "exit"
      BY <2>1, <3>1, AfterEventIs, CTaskPhases, SMTT(30) DEF CTask
    <3> QED
      BY <3>1, <3>2
  <2> QED
    BY <2>2 DEF f
<1> HIDE DEF t
<1>8. cl'[c0] = t /\ \A c \in Conns : c # c0 => cl'[c] = cl[c]
  BY <1>1, <1>2
<1>9. cchan'[c0] = Tail(cchan[c0]) /\ \A c \in Conns : c # c0 => cchan'[c] = cchan[c]
  BY <1>1, <1>2
<1>10. /\ \A c \in Conns : c # c0 => app'[c] = app[c]
       /\ h.ftype = "Data" /\ write => app'[c0] = Append(app[c0], h)
       /\ ~(h.ftype = "Data" /\ write) => app'[c0] = app[c0]
  BY <1>1, <1>2
<1>11. \A c \in Conns : cl'[c].sid = cl[c].sid
  BY <1>7, <1>8
<1>12. cliUp => \A c \in Conns : cl'[c].phase \in Active => creg'[cl'[c].sid] = c
  <2>1. cl[c0].phase \in Active
    BY <1>2 DEF Active
  <2> QED
    BY <1>0, <1>2, <1>8, <1>11, <2>1 DEF Registered
<1>13. \A sid \in Sids : creg'[sid] # NoOwner => cl'[creg'[sid]].sid = sid
  <2>1. \A sid \in Sids : creg[sid] # NoOwner => creg[sid] \in Conns
    BY <1>0 DEF TunnelTypes, Registries, Conns
  <2> QED
    BY <1>0, <1>2, <1>11, <2>1 DEF Registered
<1>14. ASSUME NEW c \in Conns, NEW j \in 1 .. Len(cchan'[c]) PROVE cchan'[c][j].conn = c
  <2>1. CASE c = c0
    <3>1. j \in 1 .. (Len(cchan[c0]) - 1) /\ cchan'[c][j] = Tail(cchan[c0])[j]
      BY <1>5, <1>9, <2>1
    <3>2. j + 1 \in 1 .. Len(cchan[c0]) /\ cchan'[c][j] = cchan[c0][j + 1]
      BY <1>5, <3>1
    <3> QED
      BY <1>0, <2>1, <3>2 DEF Addressed
  <2>2. CASE c # c0
    BY <1>0, <1>9, <2>2 DEF Addressed
  <2> QED
    BY <2>1, <2>2
<1>15. ASSUME NEW c \in Conns PROVE DownStream(c)'
  <2>1. DownStream(c) /\ Len(DownPipe(c)) \in Nat
    BY DownIs DEF DownInv
  <2>2. srv' = srv /\ link' = link /\ down' = down
    BY <1>2 DEF serverVars, linkVars
  <2>3. CASE c # c0
    <3>1. DownPipe(c)' = DownPipe(c) /\ cl'[c] = cl[c] /\ app'[c] = app[c]
      BY <1>8, <1>9, <1>10, <2>2, <2>3 DEF DownPipe
    <3> HIDE DEF DownPipe
    <3> QED
      BY <2>1, <2>2, <3>1, DownShorter
  <2>4. CASE c = c0 /\ h.ftype # "Fin" /\ ~(h.ftype = "Data" /\ write)
    <3>1. app'[c] = app[c] /\ cl'[c].phase \notin Reading
      BY <1>7, <1>8, <1>10, <2>4 DEF Reading
    <3>2. cl'[c].fin => cl[c].fin
      <4>1. cl'[c].fin = cl[c].fin
        BY <1>7, <1>8, <2>4
      <4> QED
        BY <4>1, Zenon
    <3> QED
      BY <2>1, <2>2, <3>1, <3>2, DownShorter
  <2>5. CASE c = c0 /\ (h.ftype = "Fin" \/ (h.ftype = "Data" /\ write))
    <3>1. cl[c].phase \in Reading
      BY <1>2, <2>5 DEF Reading
    <3>2. \/ h.ftype = "Data" /\ app'[c] = Append(app[c], h) /\ ~cl'[c].fin
          \/ h.ftype = "Fin" /\ app'[c] = app[c]
      BY <1>3, <1>7, <1>8, <1>10, <2>5
    <3>3. srv[c].sent \in Nat
      BY <1>0, Typed, TaskIs DEF STask
    <3> QED
      BY <1>2, <1>6, <1>9, <2>1, <2>2, <2>5, <3>1, <3>2, <3>3, DownTaken
  <2> QED
    BY <2>3, <2>4, <2>5
<1> QED
  BY <1>2, <1>11, <1>12, <1>13, <1>14, <1>15, ClientDown

(* A frame arrives at the client.  The id's owner is the connection it was *)
(* sent for.                                                               *)
LEMMA ClientDispatchDown ==
  ASSUME TunnelInv, EventTypes, DownInv, FreshIds, ClientDispatch
  PROVE  DownInv'
<1> DEFINE h == Head(down)
           y == AsEvent(h)
<1>0. TunnelTypes /\ Named /\ Registered /\ Addressed /\ NeverRefused
  BY DEF TunnelInv, DownInv
<1>1. /\ cchan \in [Conns -> Seq(Events)] /\ down \in Seq(DownFrames) /\ creg \in Registries
  BY <1>0 DEF TunnelTypes, EventTypes
<1>2. /\ cliUp /\ down # <<>> /\ down' = Tail(down) /\ cchan' = Route(cchan, creg, {}, y)
      /\ UNCHANGED <<creg, cl, app, serverVars, linkVars>>
  BY DEF ClientDispatch
<1>3. srv' = srv /\ sreg' = sreg /\ link' = link /\ cliUp' = cliUp /\ srvUp' = srvUp /\ cl' = cl /\ creg' = creg /\ app' = app
  BY <1>2 DEF serverVars, linkVars
<1>4. /\ h \in DownFrames /\ h = down[1] /\ Len(down) \in Nat /\ Len(down) > 0
      /\ Len(Tail(down)) = Len(down) - 1
      /\ \A i \in 1 .. (Len(down) - 1) : Tail(down)[i] = down[i + 1]
  BY <1>1, <1>2, Beheaded
<1>5. h.conn \in Conns /\ h.sid \in Sids /\ h.sid = cl[h.conn].sid
  <2>1. 1 \in 1 .. Len(down)
    BY <1>4
  <2>2. down[1].sid = cl[down[1].conn].sid
    BY <1>0, <2>1 DEF Addressed
  <2> QED
    BY <1>4, <2>2 DEF DownFrames
<1>6. y \in Events /\ y.conn = h.conn /\ y.sid = h.sid
  BY <1>4, EventMade
<1>7. y = h \/ (y.ftype = "Close" /\ h.ftype = "Rst")
  <2>1. CASE h.ftype = "Rst"
    BY <1>4, <2>1 DEF AsEvent, DownFrames
  <2>2. CASE h.ftype # "Rst"
    BY <2>2 DEF AsEvent
  <2> QED
    BY <2>1, <2>2
<1> HIDE DEF h, y
<1>8. \A sid \in Sids : creg[sid] # NoOwner => creg[sid] \in Conns
  BY <1>1 DEF Registries, Conns
<1>9. creg[h.sid] # NoOwner => creg[h.sid] = h.conn
  <2> SUFFICES ASSUME creg[h.sid] # NoOwner PROVE creg[h.sid] = h.conn
    OBVIOUS
  <2>1. creg[h.sid] \in Conns /\ cl[creg[h.sid]].sid = h.sid /\ h.sid # 0
    BY <1>0, <1>5, <1>8, ZeroIsNone DEF Registered
  <2> QED
    BY <1>5, <2>1 DEF FreshIds
<1>10. /\ creg[h.sid] # NoOwner => cchan' = [cchan EXCEPT ![h.conn] = Append(@, y)]
       /\ creg[h.sid] = NoOwner => cchan' = cchan
  BY <1>2, <1>6, <1>9 DEF Route, Routable
<1>11. \A c \in Conns : \/ cchan'[c] = cchan[c] /\ (c = h.conn => creg[h.sid] = NoOwner)
                        \/ c = h.conn /\ cchan'[c] = Append(cchan[c], y)
  BY <1>1, <1>5, <1>10
<1>12. Registered'
  BY <1>0, <1>2, <1>3 DEF Registered
<1>13. ASSUME NEW j \in 1 .. Len(down')
       PROVE  /\ down'[j].sid = cl[down'[j].conn].sid
              /\ down'[j].ftype = "Rst" => srv[down'[j].conn].phase \notin Alive
  <2>1. j \in 1 .. (Len(down) - 1) /\ down'[j] = Tail(down)[j]
    BY <1>2, <1>4
  <2>2. j + 1 \in 1 .. Len(down) /\ down'[j] = down[j + 1]
    BY <1>4, <2>1
  <2> QED
    BY <1>0, <2>2 DEF Addressed
<1>14. ASSUME NEW c \in Conns, NEW j \in 1 .. Len(cchan'[c]) PROVE cchan'[c][j].conn = c
  <2>1. CASE cchan'[c] = cchan[c]
    BY <1>0, <2>1 DEF Addressed
  <2>2. CASE c = h.conn /\ cchan'[c] = Append(cchan[c], y)
    <3>1. cchan[c] \in Seq(Events)
      BY <1>1
    <3>2. /\ Len(cchan'[c]) = Len(cchan[c]) + 1 /\ Len(cchan[c]) \in Nat
          /\ cchan'[c][Len(cchan'[c])] = y
          /\ \A i \in 1 .. Len(cchan[c]) : cchan'[c][i] = cchan[c][i]
      BY <1>6, <2>2, <3>1, Appended
    <3>3. j = Len(cchan'[c]) \/ j \in 1 .. Len(cchan[c])
      BY <3>2
    <3> QED
      BY <1>0, <1>6, <2>2, <3>2, <3>3 DEF Addressed
  <2> QED
    BY <1>11, <2>1, <2>2
<1>15. Addressed'
  BY <1>0, <1>3, <1>13, <1>14 DEF Addressed
<1>16. NeverRefused'
  BY <1>0, <1>3 DEF NeverRefused
<1>17. ASSUME NEW c \in Conns PROVE DownStream(c)'
  <2>1. DownStream(c)
    BY DEF DownInv
  <2>2. CASE c = h.conn /\ cchan'[c] = Append(cchan[c], y)
    <3>1. y \in Frames
      BY <1>6 DEF Events, Frames
    <3> QED
      BY <1>2, <1>3, <1>7, <2>1, <2>2, <3>1, DownArrives DEF h
  <2>3. CASE cchan'[c] = cchan[c] /\ (c = h.conn => creg[h.sid] = NoOwner)
    <3>1. cl[c].phase \in Reading => h.conn # c
      <4> SUFFICES ASSUME cl[c].phase \in Reading, h.conn = c PROVE FALSE
        OBVIOUS
      <4>1. cl[c].sid # 0
        BY <1>5, ZeroIsNone
      <4>2. cl[c].phase \in Active
        BY <1>0, <4>1 DEF Named, Reading, Active
      <4>3. creg[cl[c].sid] = c
        BY <1>0, <1>2, <4>2 DEF Registered
      <4> QED
        BY <1>5, <2>3, <4>3, NoOwnerIsNone
    <3> QED
      BY <1>2, <1>3, <2>1, <2>3, <3>1, DownPasses DEF h
  <2> QED
    BY <1>11, <2>2, <2>3
<1> QED
  BY <1>12, <1>15, <1>16, <1>17 DEF DownInv

(* The client's receive loop ends. *)
LEMMA ClientLostDown ==
  ASSUME TunnelInv, EventTypes, DownInv, ClientLost
  PROVE  DownInv'
<1>0. Registered /\ Addressed /\ NeverRefused
  BY DEF DownInv
<1>1. /\ ~link /\ down = <<>> /\ ~cliUp' /\ creg' = NoSessions /\ UNCHANGED <<cl, cchan, app, serverVars, link, srvUp, down>>
  BY DEF ClientLost
<1>2. srv' = srv /\ sreg' = sreg
  BY <1>1 DEF serverVars
<1>3. Registered'
  BY <1>0, <1>1, <1>2, EmptyTable DEF Registered
<1>4. Addressed' /\ NeverRefused'
  BY <1>0, <1>1, <1>2 DEF Addressed, NeverRefused
<1>5. ASSUME NEW c \in Conns PROVE DownStream(c)'
  <2>1. DownStream(c) /\ Len(DownPipe(c)) \in Nat
    BY DownIs DEF DownInv
  <2>2. DownPipe(c)' = DownPipe(c)
    BY <1>1 DEF DownPipe
  <2> HIDE DEF DownPipe
  <2> QED
    BY <1>1, <1>2, <2>1, <2>2, DownShorter
<1> QED
  BY <1>3, <1>4, <1>5 DEF DownInv

-----------------------------------------------------------------------------
(* Steps of the server.                                                    *)

(* The frames under way after one more is sent. *)
LEMMA AddressedPut ==
  ASSUME EventTypes, Addressed, NEW x \in DownFrames, down' = Append(down, x),
         cl' = cl, cchan' = cchan, x.sid = cl[x.conn].sid,
         \A c \in Conns : srv[c].phase \notin Alive => srv'[c].phase \notin Alive,
         x.ftype = "Rst" => srv'[x.conn].phase \notin Alive,
         \A c \in Conns : srv'[c].phase = "idle" => srv'[c].sent = 0 /\ ~srv'[c].eof
  PROVE  Addressed'
<1>1. /\ Len(down') = Len(down) + 1 /\ Len(down) \in Nat /\ down'[Len(down')] = x
      /\ \A i \in 1 .. Len(down) : down'[i] = down[i]
  <2>1. down \in Seq(DownFrames)
    BY DEF EventTypes
  <2> QED
    BY <2>1, Appended
<1>2. \A j \in 1 .. Len(down) : down[j].conn \in Conns
  <2>1. down \in Seq(DownFrames)
    BY DEF EventTypes
  <2>2. \A j \in 1 .. Len(down) : down[j] \in DownFrames
    BY <2>1
  <2>3. \A m \in DownFrames : m.conn \in Conns
    BY DEF DownFrames
  <2> QED
    BY <2>2, <2>3
<1>3. ASSUME NEW j \in 1 .. Len(down')
      PROVE  /\ down'[j].sid = cl[down'[j].conn].sid
             /\ down'[j].ftype = "Rst" => srv'[down'[j].conn].phase \notin Alive
  <2>1. CASE j \in 1 .. Len(down)
    BY <1>1, <1>2, <2>1 DEF Addressed
  <2>2. CASE j = Len(down')
    BY <1>1, <2>2
  <2> QED
    BY <1>1, <2>1, <2>2
<1> QED
  BY <1>3 DEF Addressed

LEMMA AddressedSame ==
  ASSUME EventTypes, Addressed, down' = down, cl' = cl, cchan' = cchan,
         \A c \in Conns : srv[c].phase \notin Alive => srv'[c].phase \notin Alive,
         \A c \in Conns : srv'[c].phase = "idle" => srv'[c].sent = 0 /\ ~srv'[c].eof
  PROVE  Addressed'
<1>1. \A j \in 1 .. Len(down) : down[j].conn \in Conns
  <2>1. down \in Seq(DownFrames)
    BY DEF EventTypes
  <2>2. \A j \in 1 .. Len(down) : down[j] \in DownFrames
    BY <2>1
  <2>3. \A m \in DownFrames : m.conn \in Conns
    BY DEF DownFrames
  <2> QED
    BY <2>2, <2>3
<1> QED
  BY <1>1 DEF Addressed

(* A task moves, removes its id or sends a frame. *)
LEMMA ServerDown ==
  ASSUME TunnelInv, EventTypes, DownInv, FreshIds, NEW c0 \in Conns, NEW u \in STask,
         srv' = [srv EXCEPT ![c0] = u], UNCHANGED <<clientVars, linkVars>>,
         srv[c0].phase # "idle", u.phase \notin {"idle", "refused"}, u.sid = srv[c0].sid,
         u.phase \in Running => srv[c0].phase \in Running,
         sreg' = sreg \/ (u.phase \notin Running /\ sreg' = Remove(sreg, srv[c0].sid)),
         \/ down' = down
         \/ link /\ \E x \in DownFrames : /\ x.conn = c0 /\ x.sid = srv[c0].sid /\ x.ftype # "Rst"
                                          /\ down' = Append(down, x),
         \A c \in Conns : DownStream(c)'
  PROVE  DownInv'
<1>0. TunnelTypes /\ Named /\ Registered /\ Addressed /\ NeverRefused
  BY DEF TunnelInv, DownInv
<1>1. srv \in [Conns -> STask] /\ sreg \in Registries
  BY <1>0 DEF TunnelTypes
<1>2. srv'[c0] = u /\ \A c \in Conns : c # c0 => srv'[c] = srv[c]
  BY <1>1
<1>3. cl' = cl /\ creg' = creg /\ cchan' = cchan /\ link' = link /\ cliUp' = cliUp /\ srvUp' = srvUp
  BY DEF clientVars, linkVars
<1>4. srv[c0].sid \in Sids /\ srv[c0].sid = cl[c0].sid
  BY <1>0, RunningHasId
<1>5. ASSUME srvUp, NEW c \in Conns, srv'[c].phase \in Running PROVE sreg'[srv'[c].sid] = c
  <2>1. srv[c].phase \in Running /\ srv'[c].sid = srv[c].sid
    BY <1>2, <1>5
  <2>2. sreg[srv[c].sid] = c
    BY <1>0, <1>5, <2>1 DEF Registered
  <2>3. CASE sreg' = sreg
    BY <2>1, <2>2, <2>3
  <2>4. CASE u.phase \notin Running /\ sreg' = Remove(sreg, srv[c0].sid)
    <3>1. c # c0
      BY <1>2, <1>5, <2>4
    <3>2. srv[c].phase # "idle"
      BY <2>1 DEF Running
    <3>3. srv[c].sid \in Sids /\ srv[c].sid = cl[c].sid
      BY <1>0, <3>2, RunningHasId
    <3>4. srv[c].sid # srv[c0].sid
      BY <1>4, <3>1, <3>3, ZeroIsNone DEF FreshIds
    <3> QED
      BY <1>1, <2>1, <2>2, <2>4, <3>3, <3>4 DEF Remove, Registries
  <2> QED
    BY <2>3, <2>4
<1>6. ~cliUp => ~link /\ down' = <<>>
  BY <1>0 DEF Registered
<1>7. Registered'
  BY <1>0, <1>3, <1>5, <1>6 DEF Registered
<1>8. \A c \in Conns : srv[c].phase \notin Alive => srv'[c].phase \notin Alive
  BY <1>2 DEF Alive, Running
<1>9. \A c \in Conns : srv'[c].phase = "idle" => srv'[c].sent = 0 /\ ~srv'[c].eof
  BY <1>0, <1>2 DEF Addressed
<1>10. Addressed'
  <2>1. CASE down' = down
    BY <1>0, <1>3, <1>8, <1>9, <2>1, AddressedSame
  <2>2. CASE \E x \in DownFrames : /\ x.conn = c0 /\ x.sid = srv[c0].sid /\ x.ftype # "Rst"
                                   /\ down' = Append(down, x)
    BY <1>0, <1>3, <1>4, <1>8, <1>9, <2>2, AddressedPut
  <2> QED
    BY <2>1, <2>2
<1>11. NeverRefused'
  BY <1>0, <1>2 DEF NeverRefused
<1> QED
  BY <1>7, <1>10, <1>11 DEF DownInv

(* Nothing is sent. *)
LEMMA ServerQuiet ==
  ASSUME TunnelInv, EventTypes, DownInv, FreshIds, NEW c0 \in Conns, NEW u \in STask,
         srv' = [srv EXCEPT ![c0] = u], UNCHANGED <<clientVars, linkVars, down>>,
         srv[c0].phase # "idle", u.phase \notin {"idle", "refused"}, u.sid = srv[c0].sid,
         u.phase \in Running => srv[c0].phase \in Running,
         sreg' = sreg \/ (u.phase \notin Running /\ sreg' = Remove(sreg, srv[c0].sid)),
         \/ u.sent = srv[c0].sent /\ (srv[c0].eof => u.eof)
         \/ u.sent = srv[c0].sent + 1 /\ ~srv[c0].eof /\ ~u.eof /\ ~link
  PROVE  DownInv'
<1>1. srv \in [Conns -> STask] /\ srv[c0].sent \in Nat
  BY Typed, TaskIs DEF TunnelInv, TunnelTypes, STask
<1>2. srv'[c0] = u /\ \A c \in Conns : c # c0 => srv'[c] = srv[c]
  BY <1>1
<1>3. cl' = cl /\ cchan' = cchan /\ app' = app /\ link' = link
  BY DEF clientVars, linkVars
<1>4. ASSUME NEW c \in Conns PROVE DownStream(c)'
  <2>1. DownStream(c) /\ Len(DownPipe(c)) \in Nat
    BY DownIs DEF DownInv
  <2>2. DownPipe(c)' = DownPipe(c)
    BY <1>3 DEF DownPipe
  <2> HIDE DEF DownPipe
  <2>3. CASE c # c0
    BY <1>2, <1>3, <2>1, <2>2, <2>3, DownShorter
  <2>4. CASE c = c0 /\ u.sent = srv[c0].sent /\ (srv[c0].eof => u.eof)
    BY <1>2, <1>3, <2>1, <2>2, <2>4, DownShorter
  <2>5. CASE c = c0 /\ u.sent = srv[c0].sent + 1 /\ ~srv[c0].eof /\ ~u.eof /\ ~link
    BY <1>1, <1>2, <1>3, <2>1, <2>2, <2>5, DownGrow
  <2> QED
    BY <2>3, <2>4, <2>5
<1> QED
  BY <1>4, ServerDown

(* A frame is sent. *)
LEMMA ServerSends ==
  ASSUME TunnelInv, EventTypes, DownInv, FreshIds, NEW c0 \in Conns, NEW u \in STask, NEW x \in DownFrames,
         srv' = [srv EXCEPT ![c0] = u], UNCHANGED <<clientVars, linkVars, sreg>>, link, down' = Append(down, x),
         x.conn = c0, x.sid = srv[c0].sid, x.ftype # "Rst",
         srv[c0].phase # "idle", u.phase \notin {"idle", "refused"}, u.sid = srv[c0].sid,
         u.phase \in Running => srv[c0].phase \in Running,
         srv[c0].eof => u.eof,
         x.ftype = "Data" => ~srv[c0].eof /\ x.n = srv[c0].sent + 1 /\ u.sent = srv[c0].sent + 1,
         x.ftype # "Data" => u.sent = srv[c0].sent,
         x.ftype = "Fin" => u.eof
  PROVE  DownInv'
<1>1. srv \in [Conns -> STask] /\ \A c \in Conns : srv[c].sent \in Nat
  BY Typed, TaskIs DEF TunnelInv, TunnelTypes, STask
<1>2. srv'[c0] = u /\ \A c \in Conns : c # c0 => srv'[c] = srv[c]
  BY <1>1
<1>3. cl' = cl /\ cchan' = cchan /\ app' = app /\ link' = link
  BY DEF clientVars, linkVars
<1>4. ASSUME NEW c \in Conns PROVE DownStream(c)'
  <2>1. DownStream(c) /\ x \in Frames
    BY DEF DownInv, DownFrames, Frames
  <2>2. DownPipe(c)' = Append(DownPipe(c), x)
    <3> DEFINE a == cchan[c]
    <3>1. a \in Seq(Frames) /\ down \in Seq(Frames) /\ DownPipe(c)' = a \o Append(down, x) /\ DownPipe(c) = a \o down
      BY <1>3, DownIs DEF DownPipe
    <3> HIDE DEF a, DownPipe
    <3> QED
      BY <2>1, <3>1, PipeAppend
  <2>3. /\ srv[c].eof => srv'[c].eof
        /\ Own(x, c, "Data") => ~srv[c].eof /\ x.n = srv[c].sent + 1 /\ srv'[c].sent = srv[c].sent + 1
        /\ ~Own(x, c, "Data") => srv'[c].sent = srv[c].sent
        /\ Own(x, c, "Fin") => srv'[c].eof
    BY <1>2 DEF Own
  <2> HIDE DEF DownPipe
  <2> QED
    BY <1>1, <1>3, <2>1, <2>2, <2>3, DownSend
<1> QED
  BY <1>4, ServerDown

LEMMA ServerQuietDown ==
  ASSUME TunnelInv, EventTypes, DownInv, FreshIds, NEW c0 \in Conns, NEW ok \in BOOLEAN,
         \/ ServerConnect(c0, ok) \/ ServerEvent(c0, ok) \/ ServerFail(c0) \/ ServerChannelClosed(c0)
         \/ ServerDrop(c0) \/ ServerCleanup(c0)
  PROVE  DownInv'
<1>0. srv[c0] \in STask
  BY Typed DEF TunnelInv
<1>1. UNCHANGED <<clientVars, linkVars, down>>
  BY DEF ServerConnect, ServerEvent, ServerFail, ServerChannelClosed, ServerDrop, ServerCleanup, ServerTask
<1>2. \E u \in STask : /\ srv' = [srv EXCEPT ![c0] = u]
                       /\ u.sid = srv[c0].sid /\ u.sent = srv[c0].sent /\ u.eof = srv[c0].eof
                       /\ srv[c0].phase # "idle" /\ u.phase \notin {"idle", "refused"}
                       /\ u.phase \in Running => srv[c0].phase \in Running
                       /\ sreg' = sreg \/ (u.phase \notin Running /\ sreg' = Remove(sreg, srv[c0].sid))
  <2>1. CASE ServerConnect(c0, ok)
    <3> DEFINE p == IF ok THEN "loop" ELSE "notify"
               u == [srv[c0] EXCEPT !.phase = p]
    <3>1. srv' = [srv EXCEPT ![c0] = u] /\ srv[c0].phase = "connect" /\ sreg' = sreg
      BY <2>1 DEF ServerConnect, ServerTask
    <3>2. p \in {"idle", "refused", "connect", "loop", "exit", "notify", "cleanup", "done"} /\ p \in {"loop", "notify"}
      OBVIOUS
    <3> HIDE DEF p
    <3>3. u \in STask /\ u.phase = p /\ u.sid = srv[c0].sid /\ u.sent = srv[c0].sent /\ u.eof = srv[c0].eof
      BY <1>0, <3>2, STaskMove, ZenonT(30)
    <3> HIDE DEF u
    <3> QED
      BY <3>1, <3>2, <3>3 DEF Running
  <2>2. CASE ServerFail(c0) \/ ServerChannelClosed(c0)
    <3> DEFINE u == [srv[c0] EXCEPT !.phase = "exit"]
    <3>1. srv' = [srv EXCEPT ![c0] = u] /\ srv[c0].phase = "loop" /\ sreg' = sreg
      BY <2>2 DEF ServerFail, ServerChannelClosed, ServerTask, Leave, Listening
    <3>2. u \in STask /\ u.phase = "exit" /\ u.sid = srv[c0].sid /\ u.sent = srv[c0].sent /\ u.eof = srv[c0].eof
      BY <1>0, STaskPhases, STaskMove
    <3> HIDE DEF u
    <3> QED
      BY <3>1, <3>2 DEF Running
  <2>3. CASE ServerEvent(c0, ok)
    <3> DEFINE f == Head(schan[c0]).ftype
               v == srv[c0]
               u == AfterEvent(v, f, ok)
    <3>1. srv' = [srv EXCEPT ![c0] = u] /\ v.phase = "loop" /\ sreg' = sreg /\ schan[c0] # <<>>
      BY <2>3 DEF ServerEvent, ServerTask, Listening
    <3>2. f \in {"Data", "Fin", "Close"}
      <4>1. schan[c0] \in Seq(Events)
        BY DEF EventTypes
      <4>2. Head(schan[c0]) \in Events
        BY <3>1, <4>1, Beheaded
      <4> QED
        BY <4>2 DEF Events
    <3>3. v \in STask /\ srv[c0] = v
      BY <1>0
    <3> HIDE DEF f, v
    <3>4. u \in STask /\ u.phase \in {v.phase, "exit"} /\ u.sid = v.sid /\ u.sent = v.sent /\ u.eof = v.eof
      BY <3>2, <3>3, AfterEventIs, STaskPhases, SMTT(30) DEF STask
    <3> HIDE DEF u
    <3> QED
      BY <3>1, <3>3, <3>4 DEF Running
  <2>4. CASE ServerDrop(c0)
    <3> DEFINE u == [srv[c0] EXCEPT !.phase = "notify"]
    <3>1. srv' = [srv EXCEPT ![c0] = u] /\ srv[c0].phase = "exit" /\ sreg' = Remove(sreg, srv[c0].sid)
      BY <2>4 DEF ServerDrop, ServerTask
    <3>2. u \in STask /\ u.phase = "notify" /\ u.sid = srv[c0].sid /\ u.sent = srv[c0].sent /\ u.eof = srv[c0].eof
      BY <1>0, STaskPhases, STaskMove
    <3> HIDE DEF u
    <3> QED
      BY <3>1, <3>2 DEF Running
  <2>5. CASE ServerCleanup(c0)
    <3> DEFINE u == [srv[c0] EXCEPT !.phase = "done"]
    <3>1. srv' = [srv EXCEPT ![c0] = u] /\ srv[c0].phase = "cleanup" /\ sreg' = Remove(sreg, srv[c0].sid)
      BY <2>5 DEF ServerCleanup, ServerTask
    <3>2. u \in STask /\ u.phase = "done" /\ u.sid = srv[c0].sid /\ u.sent = srv[c0].sent /\ u.eof = srv[c0].eof
      BY <1>0, STaskPhases, STaskMove
    <3> HIDE DEF u
    <3> QED
      BY <3>1, <3>2 DEF Running
  <2> QED
    BY <2>1, <2>2, <2>3, <2>4, <2>5
<1>3. PICK u \in STask : /\ srv' = [srv EXCEPT ![c0] = u]
                         /\ u.sid = srv[c0].sid /\ u.sent = srv[c0].sent /\ u.eof = srv[c0].eof
                         /\ srv[c0].phase # "idle" /\ u.phase \notin {"idle", "refused"}
                         /\ u.phase \in Running => srv[c0].phase \in Running
                         /\ sreg' = sreg \/ (u.phase \notin Running /\ sreg' = Remove(sreg, srv[c0].sid))
  BY <1>2
<1>4. srv[c0].eof => u.eof
  BY <1>3, Zenon
<1> QED
  BY <1>1, <1>3, <1>4, ServerQuiet

LEMMA ServerReadDown ==
  ASSUME TunnelInv, EventTypes, DownInv, FreshIds, NEW c0 \in Conns, NEW ok \in BOOLEAN, ServerRead(c0, ok)
  PROVE  DownInv'
<1> DEFINE u == AfterRead(srv[c0], ok)
           x == Msg("Data", srv[c0].sid, c0, srv[c0].sent + 1)
<1>0. TunnelTypes /\ Named /\ srv[c0] \in STask /\ srv[c0].sent \in Nat
  BY Typed, TaskIs DEF TunnelInv, STask
<1>1. /\ srv' = [srv EXCEPT ![c0] = u] /\ srv[c0].phase = "loop" /\ sreg' = sreg
      /\ UNCHANGED <<clientVars, linkVars>> /\ Put(down, down', x, ok)
  BY DEF ServerRead, ServerTask
<1>2. ~srv[c0].eof
  BY DEF ServerRead
<1>3. /\ u \in STask /\ u.phase \in {srv[c0].phase, "exit"} /\ u.sid = srv[c0].sid /\ u.eof = srv[c0].eof
      /\ u.sent \in {srv[c0].sent, srv[c0].sent + 1} /\ (ok => u.sent = srv[c0].sent + 1)
  BY <1>0, AfterReadIs, STaskPhases DEF STask
<1>4. srv[c0].sid \in Sids
  BY <1>0, <1>1, RunningHasId
<1>5. srv[c0].sent + 1 \in Nat
  BY <1>0
<1>6. x \in DownFrames /\ x.ftype = "Data" /\ x.sid = srv[c0].sid /\ x.conn = c0 /\ x.n = srv[c0].sent + 1
  BY <1>4, <1>5, DownMade
<1> HIDE DEF u, x
<1>7. ~u.eof
  BY <1>2, <1>3, Zenon
<1>8. u.phase \notin {"idle", "refused"} /\ (u.phase \in Running => srv[c0].phase \in Running)
  BY <1>1, <1>3 DEF Running
<1>9. CASE link /\ ok /\ down' = Append(down, x)
  BY <1>1, <1>2, <1>3, <1>6, <1>8, <1>9, ServerSends
<1>10. CASE ~link /\ down' = down
  <2>1. \/ u.sent = srv[c0].sent /\ (srv[c0].eof => u.eof)
        \/ u.sent = srv[c0].sent + 1 /\ ~srv[c0].eof /\ ~u.eof /\ ~link
    BY <1>2, <1>3, <1>7, <1>10
  <2> QED
    BY <1>1, <1>3, <1>8, <1>10, <2>1, ServerQuiet
<1> QED
  BY <1>1, <1>9, <1>10 DEF Put

LEMMA ServerEofDown ==
  ASSUME TunnelInv, EventTypes, DownInv, FreshIds, NEW c0 \in Conns, NEW ok \in BOOLEAN, ServerEof(c0, ok)
  PROVE  DownInv'
<1> DEFINE u == AfterEof(srv[c0], ok)
           x == Msg("Fin", srv[c0].sid, c0, 0)
<1>0. TunnelTypes /\ Named /\ srv[c0] \in STask
  BY Typed DEF TunnelInv
<1>1. /\ srv' = [srv EXCEPT ![c0] = u] /\ srv[c0].phase = "loop" /\ sreg' = sreg
      /\ UNCHANGED <<clientVars, linkVars>> /\ Put(down, down', x, ok)
  BY DEF ServerEof, ServerTask
<1>2. /\ u \in STask /\ u.phase \in {srv[c0].phase, "exit"} /\ u.sid = srv[c0].sid /\ u.sent = srv[c0].sent
      /\ (srv[c0].eof => u.eof) /\ (ok => u.eof)
  BY <1>0, AfterEofIs, STaskPhases DEF STask
<1>3. srv[c0].sid \in Sids
  BY <1>0, <1>1, RunningHasId
<1>4. x \in DownFrames /\ x.ftype = "Fin" /\ x.sid = srv[c0].sid /\ x.conn = c0
  BY <1>3, DownMade
<1> HIDE DEF u, x
<1>5. u.phase \notin {"idle", "refused"} /\ (u.phase \in Running => srv[c0].phase \in Running)
  BY <1>1, <1>2 DEF Running
<1>6. CASE link /\ ok /\ down' = Append(down, x)
  BY <1>1, <1>2, <1>4, <1>5, <1>6, ServerSends
<1>7. CASE ~link /\ down' = down
  BY <1>1, <1>2, <1>5, <1>7, ServerQuiet
<1> QED
  BY <1>1, <1>6, <1>7 DEF Put

LEMMA ServerNotifyDown ==
  ASSUME TunnelInv, EventTypes, DownInv, FreshIds, NEW c0 \in Conns, NEW ok \in BOOLEAN, ServerNotify(c0, ok)
  PROVE  DownInv'
<1> DEFINE u == [srv[c0] EXCEPT !.phase = "cleanup"]
           x == Msg("Close", srv[c0].sid, c0, 0)
<1>0. TunnelTypes /\ Named /\ srv[c0] \in STask
  BY Typed DEF TunnelInv
<1>1. /\ srv' = [srv EXCEPT ![c0] = u] /\ srv[c0].phase = "notify" /\ sreg' = sreg
      /\ UNCHANGED <<clientVars, linkVars>> /\ Put(down, down', x, ok)
  BY DEF ServerNotify, ServerTask
<1>2. u \in STask /\ u.phase = "cleanup" /\ u.sid = srv[c0].sid /\ u.sent = srv[c0].sent /\ u.eof = srv[c0].eof
  BY <1>0, STaskPhases, STaskMove
<1>3. srv[c0].sid \in Sids
  BY <1>0, <1>1, RunningHasId
<1>4. x \in DownFrames /\ x.ftype = "Close" /\ x.sid = srv[c0].sid /\ x.conn = c0
  BY <1>3, DownMade
<1> HIDE DEF u, x
<1>5. srv[c0].eof => u.eof
  BY <1>2, Zenon
<1>6. u.phase \notin {"idle", "refused"} /\ u.phase \notin Running
  BY <1>2 DEF Running
<1>7. CASE link /\ ok /\ down' = Append(down, x)
  BY <1>1, <1>2, <1>4, <1>5, <1>6, <1>7, ServerSends
<1>8. CASE ~link /\ down' = down
  BY <1>1, <1>2, <1>5, <1>6, <1>8, ServerQuiet
<1> QED
  BY <1>1, <1>7, <1>8 DEF Put

(* The connection of the first frame under way to the server. *)
LEMMA HeadUp ==
  ASSUME TunnelInv, up # <<>>
  PROVE  /\ Head(up).conn \in Conns /\ Head(up).sid \in Sids /\ Head(up).sid = cl[Head(up).conn].sid
         /\ Head(up).ftype = "Open" => srv[Head(up).conn].phase = "idle"
         /\ Head(up).ftype # "Open" => srv[Head(up).conn].phase # "idle"
<1>0. up \in Seq(Frames) /\ FrameOwner /\ FrameKinds /\ OpenAhead
  BY DEF TunnelInv, TunnelTypes, UpInv
<1>1. Head(up) = up[1] /\ Len(up) \in Nat /\ Len(up) > 0 /\ Head(up) \in Frames
  BY <1>0, Beheaded
<1>2. 1 \in 1 .. Len(up) /\ \A i \in 1 .. 1 : i = 1
  BY <1>1
<1>3. up[1].sid = cl[up[1].conn].sid
  BY <1>0, <1>2 DEF FrameOwner
<1>4. up[1].ftype = "Open" => srv[up[1].conn].phase = "idle"
  BY <1>0, <1>2 DEF FrameKinds
<1>5. srv[up[1].conn].phase = "idle" => up[1].ftype = "Open"
  BY <1>0, <1>2 DEF OpenAhead, Own
<1>6. Head(up).conn \in Conns /\ Head(up).sid \in Sids
  BY <1>1 DEF Frames
<1> QED
  BY <1>1, <1>3, <1>4, <1>5, <1>6

LEMMA DispatchDataDown ==
  ASSUME TunnelInv, EventTypes, DownInv, DispatchData \/ DispatchEnd
  PROVE  DownInv'
<1> DEFINE d == Head(up).conn
           sid == Head(up).sid
           x == Msg("Rst", sid, d, 0)
<1>0. TunnelTypes /\ Named /\ Registered /\ Addressed /\ NeverRefused
  BY DEF TunnelInv, DownInv
<1>1. /\ srvUp /\ up # <<>> /\ Head(up).ftype # "Open"
      /\ UNCHANGED <<clientVars, sreg, srv, linkVars>>
      /\ \/ down' = down
         \/ ~Routable(sreg, sid, Dead) /\ \E ok \in BOOLEAN : Put(down, down', x, ok)
  BY DEF DispatchData, DispatchEnd
<1>2. d \in Conns /\ sid \in Sids /\ sid = cl[d].sid /\ srv[d].phase # "idle"
  BY <1>1, HeadUp
<1> HIDE DEF d, sid
<1>3. x \in DownFrames /\ x.ftype = "Rst" /\ x.sid = sid /\ x.conn = d
  BY <1>2, DownMade
<1> HIDE DEF x
<1>4. cl' = cl /\ creg' = creg /\ cchan' = cchan /\ app' = app /\ link' = link /\ cliUp' = cliUp /\ srvUp' = srvUp
  BY <1>1 DEF clientVars, linkVars
<1>5. down' = down \/ (link /\ ~Routable(sreg, sid, Dead) /\ down' = Append(down, x))
  BY <1>1 DEF Put
<1>6. Registered'
  <2>1. ~cliUp => ~link /\ down' = <<>>
    BY <1>0, <1>5 DEF Registered
  <2> QED
    BY <1>0, <1>1, <1>4, <2>1 DEF Registered
<1>7. ~Routable(sreg, sid, Dead) => srv[d].phase \notin Alive
  <2> SUFFICES ASSUME srv[d].phase \in Running PROVE Routable(sreg, sid, Dead)
    BY <1>2 DEF Alive, Running
  <2>1. srv[d].sid = cl[d].sid
    BY <1>0, <1>2 DEF Named
  <2>2. sreg[sid] = d
    BY <1>0, <1>1, <1>2, <2>1 DEF Registered
  <2>3. d \notin Dead
    BY DEF Dead, Running
  <2> QED
    BY <1>2, <2>2, <2>3, NoOwnerIsNone DEF Routable
<1>8. \A c \in Conns : srv[c].phase = "idle" => srv[c].sent = 0 /\ ~srv[c].eof
  BY <1>0 DEF Addressed
<1>9. Addressed'
  <2>1. CASE down' = down
    BY <1>0, <1>1, <1>4, <1>8, <2>1, AddressedSame
  <2>2. CASE ~Routable(sreg, sid, Dead) /\ down' = Append(down, x)
    BY <1>0, <1>1, <1>2, <1>3, <1>4, <1>7, <1>8, <2>2, AddressedPut
  <2> QED
    BY <1>5, <2>1, <2>2
<1>10. NeverRefused'
  BY <1>0, <1>1 DEF NeverRefused
<1>11. ASSUME NEW c \in Conns PROVE DownStream(c)'
  <2>1. DownStream(c) /\ Len(DownPipe(c)) \in Nat
    BY DownIs DEF DownInv
  <2>2. CASE down' = down
    <3>1. DownPipe(c)' = DownPipe(c)
      BY <1>4, <2>2 DEF DownPipe
    <3> HIDE DEF DownPipe
    <3> QED
      BY <1>1, <1>4, <2>1, <3>1, DownShorter
  <2>3. CASE link /\ down' = Append(down, x)
    <3>1. x \in Frames
      BY <1>3 DEF DownFrames, Frames
    <3>2. DownPipe(c)' = Append(DownPipe(c), x)
      <4> DEFINE a == cchan[c]
      <4>1. a \in Seq(Frames) /\ down \in Seq(Frames) /\ DownPipe(c)' = a \o Append(down, x) /\ DownPipe(c) = a \o down
        BY <1>4, <2>3, DownIs DEF DownPipe
      <4> HIDE DEF a, DownPipe
      <4> QED
        BY <3>1, <4>1, PipeAppend
    <3>3. ~Own(x, c, "Data") /\ ~Own(x, c, "Fin") /\ srv[c].sent \in Nat
      BY <1>0, <1>3, Typed, TaskIs DEF Own, STask
    <3> HIDE DEF DownPipe
    <3> QED
      BY <1>1, <1>4, <2>1, <2>3, <3>1, <3>2, <3>3, DownSend
  <2> QED
    BY <1>5, <2>2, <2>3
<1> QED
  BY <1>6, <1>9, <1>10, <1>11 DEF DownInv

LEMMA DispatchOpenDown ==
  ASSUME TunnelInv, EventTypes, DownInv, FreshIds, DispatchOpen
  PROVE  DownInv'
<1> DEFINE d == Head(up).conn
           sid == Head(up).sid
           u == [NoTask EXCEPT !.phase = "connect", !.sid = sid]
<1>0. TunnelTypes /\ Named /\ Registered /\ Addressed /\ NeverRefused
  BY DEF TunnelInv, DownInv
<1>1. /\ srvUp /\ up # <<>> /\ Head(up).ftype = "Open"
      /\ sreg' = [sreg EXCEPT ![sid] = d] /\ srv' = [srv EXCEPT ![d] = u]
      /\ UNCHANGED <<clientVars, linkVars, down>>
  BY DEF DispatchOpen, Insert
<1>2. d \in Conns /\ sid \in Sids /\ sid = cl[d].sid /\ srv[d].phase = "idle"
  BY <1>1, HeadUp
<1>3. u.phase = "connect" /\ u.sid = sid /\ u.sent = 0
  BY DEF NoTask
<1>4. ~u.eof
  BY DEF NoTask
<1> HIDE DEF d, sid, u
<1>5. cl' = cl /\ creg' = creg /\ cchan' = cchan /\ app' = app /\ link' = link /\ cliUp' = cliUp /\ srvUp' = srvUp /\ down' = down
  BY <1>1 DEF clientVars, linkVars
<1>6. srv \in [Conns -> STask] /\ sreg \in Registries
  BY <1>0 DEF TunnelTypes
<1>7. srv'[d] = u /\ \A c \in Conns : c # d => srv'[c] = srv[c]
  BY <1>1, <1>2, <1>6
<1>8. sreg'[sid] = d /\ \A k \in Sids : k # sid => sreg'[k] = sreg[k]
  BY <1>1, <1>2, <1>6 DEF Registries
<1>9. ASSUME NEW c \in Conns, srv'[c].phase \in Running PROVE sreg'[srv'[c].sid] = c
  <2>1. CASE c = d
    BY <1>3, <1>7, <1>8, <2>1
  <2>2. CASE c # d
    <3>1. srv'[c] = srv[c] /\ sreg[srv[c].sid] = c
      BY <1>0, <1>1, <1>7, <1>9, <2>2 DEF Registered
    <3>2. srv[c].phase # "idle"
      BY <1>9, <3>1 DEF Running
    <3>3. srv[c].sid \in Sids /\ srv[c].sid = cl[c].sid
      BY <1>0, <3>2, RunningHasId
    <3>4. srv[c].sid # sid
      BY <1>2, <2>2, <3>3, ZeroIsNone DEF FreshIds
    <3> QED
      BY <1>8, <3>1, <3>3, <3>4
  <2> QED
    BY <2>1, <2>2
<1>10. Registered'
  BY <1>0, <1>5, <1>9 DEF Registered
<1>11. \A c \in Conns : srv[c].phase \notin Alive => srv'[c].phase \notin Alive
  BY <1>2, <1>7 DEF Alive
<1>12. \A c \in Conns : srv'[c].phase = "idle" => srv'[c].sent = 0 /\ ~srv'[c].eof
  BY <1>0, <1>3, <1>7 DEF Addressed
<1>13. Addressed'
  BY <1>0, <1>5, <1>11, <1>12, AddressedSame
<1>14. NeverRefused'
  BY <1>0, <1>3, <1>7 DEF NeverRefused
<1>15. srv[d].sent = 0
  BY <1>0, <1>2 DEF Addressed
<1>16. ~srv[d].eof
  BY <1>0, <1>2 DEF Addressed
<1>17. ASSUME NEW c \in Conns PROVE DownStream(c)'
  <2>1. DownStream(c) /\ Len(DownPipe(c)) \in Nat
    BY DownIs DEF DownInv
  <2>2. DownPipe(c)' = DownPipe(c)
    BY <1>5 DEF DownPipe
  <2>3. srv'[c].sent = srv[c].sent
    BY <1>3, <1>7, <1>15
  <2>4. srv[c].eof => srv'[c].eof
    BY <1>7, <1>16
  <2> HIDE DEF DownPipe
  <2> QED
    BY <1>5, <2>1, <2>2, <2>3, <2>4, DownShorter
<1> QED
  BY <1>10, <1>13, <1>14, <1>17 DEF DownInv

(* An Open finds its id taken only if another connection used it. *)
LEMMA NeverRejects ==
  ASSUME TunnelInv, FreshIds
  PROVE  ~DispatchReject
<1> DEFINE d == Head(up).conn
           sid == Head(up).sid
<1> SUFFICES ASSUME up # <<>>, Head(up).ftype = "Open", ~Registrable(sreg, sid) PROVE FALSE
  BY DEF DispatchReject
<1>1. d \in Conns /\ sid \in Sids /\ sid = cl[d].sid /\ srv[d].phase = "idle"
  BY HeadUp
<1>2. sreg[sid] # NoOwner /\ sreg[sid] \in Conns
  BY <1>1 DEF TunnelInv, TunnelTypes, Registries, Registrable, Conns
<1> DEFINE o == sreg[sid]
<1>3. srv[o].sid = sid /\ srv[o].phase # "idle"
  BY <1>1, <1>2 DEF TunnelInv, Owned
<1>4. cl[o].sid = sid
  BY <1>2, <1>3 DEF TunnelInv, Named
<1> QED
  BY <1>1, <1>2, <1>3, <1>4, ZeroIsNone DEF FreshIds

LEMMA LossDown ==
  ASSUME TunnelInv, EventTypes, DownInv, LinkBreak \/ ServerLost
  PROVE  DownInv'
<1>0. Registered /\ Addressed /\ NeverRefused
  BY DEF DownInv
<1>1. cl' = cl /\ creg' = creg /\ cchan' = cchan /\ app' = app /\ srv' = srv /\ cliUp' = cliUp /\ ~link'
  BY DEF LinkBreak, ServerLost, clientVars, serverVars
<1>2. \E n \in 0 .. Len(down) : down' = SubSeq(down, 1, n)
  <2>1. CASE LinkBreak
    BY <2>1 DEF LinkBreak
  <2>2. CASE ServerLost
    <3>1. down' = down /\ down \in Seq(DownFrames)
      BY <2>2 DEF ServerLost, EventTypes
    <3>2. Len(down) \in 0 .. Len(down) /\ SubSeq(down, 1, Len(down)) = down
      BY <3>1
    <3> QED
      BY <3>1, <3>2
  <2> QED
    BY <2>1, <2>2
<1>3. PICK n \in 0 .. Len(down) : down' = SubSeq(down, 1, n)
  BY <1>2
<1>4. down \in Seq(DownFrames) /\ down \in Seq(Frames)
  <2>1. DownFrames \subseteq Frames
    BY DEF DownFrames, Frames
  <2> QED
    BY <2>1 DEF EventTypes
<1>5. Len(down') = n /\ \A i \in 1 .. n : down'[i] = down[i] /\ i \in 1 .. Len(down)
  <2>1. <<>> \in Seq(Frames)
    OBVIOUS
  <2>2. Len(down') = n /\ \A i \in 1 .. n : down'[i] = down[i]
    BY <1>3, <1>4, <2>1, PipeCut
  <2> QED
    BY <2>2
<1>6. ~cliUp => down' = <<>>
  <2>1. down = <<>> => Len(down) = 0 /\ SubSeq(<<>>, 1, 0) = <<>>
    OBVIOUS
  <2>2. down = <<>> => n = 0
    BY <2>1
  <2> QED
    BY <1>0, <1>3, <2>1, <2>2 DEF Registered
<1>7. srvUp' => srvUp /\ sreg' = sreg
  BY DEF LinkBreak, ServerLost, serverVars
<1>8. Registered'
  BY <1>0, <1>1, <1>6, <1>7 DEF Registered
<1>9. Addressed' /\ NeverRefused'
  BY <1>0, <1>1, <1>5 DEF Addressed, NeverRefused
<1>10. ASSUME NEW c \in Conns PROVE DownStream(c)'
  <2>1. DownStream(c) /\ Len(DownPipe(c)) \in Nat
    BY DownIs DEF DownInv
  <2>2. /\ Len(DownPipe(c)') \in Nat /\ Len(DownPipe(c)') <= Len(DownPipe(c))
        /\ \A i \in 1 .. Len(DownPipe(c)') : DownPipe(c)'[i] = DownPipe(c)[i]
    <3> DEFINE a == cchan[c]
               q == DownPipe(c)
               r == DownPipe(c)'
    <3>1. a \in Seq(Frames) /\ q = a \o down /\ r = a \o SubSeq(down, 1, n)
      BY <1>1, <1>3, DownIs DEF DownPipe
    <3> HIDE DEF a, q, r
    <3>2. Len(r) \in Nat /\ Len(q) \in Nat /\ Len(r) <= Len(q) /\ \A i \in 1 .. Len(r) : r[i] = q[i]
      BY <1>4, <3>1, PipeCut
    <3> QED
      BY <3>2 DEF q, r
  <2> HIDE DEF DownPipe
  <2> QED
    BY <1>1, <2>1, <2>2, DownShorter
<1> QED
  BY <1>8, <1>9, <1>10 DEF DownInv

-----------------------------------------------------------------------------
LEMMA DownInit ==
  ASSUME Init
  PROVE  DownInv
<1>1. /\ creg = NoSessions /\ sreg = NoSessions
      /\ \A c \in Conns : cl[c] = NoTask /\ srv[c] = NoTask /\ cchan[c] = <<>> /\ app[c] = <<>>
      /\ down = <<>>
  BY DEF Init
<1>2. NoTask.phase = "idle" /\ NoTask.sid = 0 /\ NoTask.sent = 0
  BY DEF NoTask
<1>3. ~NoTask.fin /\ ~NoTask.eof
  BY DEF NoTask
<1>4. Len(<<>>) = 0 /\ Len(<<>> \o <<>>) = 0
  OBVIOUS
<1>5. cliUp
  BY DEF Init
<1>6. Registered
  BY <1>1, <1>2, <1>5, EmptyTable DEF Registered, Running, Active
<1>7. Addressed /\ NeverRefused
  BY <1>1, <1>2, <1>3, <1>4 DEF Addressed, NeverRefused
<1>8. ASSUME NEW c \in Conns PROVE DownStream(c)
  <2>1. Len(app[c]) = 0 /\ Len(DownPipe(c)) = 0 /\ srv[c].sent = 0
    BY <1>1, <1>2, <1>4 DEF DownPipe
  <2>2. Numbered(app[c], c) /\ Flow(c, app[c], DownPipe(c), srv[c].sent)
        /\ NoFin(DownPipe(c), c) /\ Whole(c, app[c], DownPipe(c), srv[c].sent)
    BY <2>1 DEF Numbered, Flow, NoFin, Whole
  <2>3. ~cl[c].fin
    BY <1>1, <1>3
  <2> QED
    BY <2>2, <2>3 DEF DownStream
<1> QED
  BY <1>6, <1>7, <1>8 DEF DownInv

LEMMA DownNext ==
  ASSUME TunnelInv, EventTypes, DownInv, FreshIds, [Next]_vars
  PROVE  DownInv'
<1>1. ASSUME NEW c \in Conns,
             \/ Allocate(c) \/ ClientStep(c) \/ ClientFail(c)
             \/ \E ok \in BOOLEAN : ClientRead(c, ok) \/ ClientEof(c, ok)
      PROVE  DownInv'
  <2>1. CASE Allocate(c)
    BY <2>1, AllocateDown
  <2>2. CASE ClientStep(c)
    BY <2>2, ClientQuietDown, ClientEventDown, ClientDropDown DEF ClientStep
  <2>3. CASE ClientFail(c) \/ \E ok \in BOOLEAN : ClientRead(c, ok) \/ ClientEof(c, ok)
    BY <2>3, ClientQuietDown
  <2> QED
    BY <1>1, <2>1, <2>2, <2>3
<1>2. ASSUME NEW c \in Conns,
             \/ ServerStep(c) \/ ServerFail(c)
             \/ \E ok \in BOOLEAN : ServerRead(c, ok) \/ ServerEof(c, ok)
      PROVE  DownInv'
  <2>1. CASE ServerStep(c)
    BY <2>1, ServerQuietDown, ServerNotifyDown DEF ServerStep
  <2>2. CASE ServerFail(c)
    BY <2>2, ServerQuietDown
  <2>3. CASE \E ok \in BOOLEAN : ServerRead(c, ok) \/ ServerEof(c, ok)
    BY <2>3, ServerReadDown, ServerEofDown
  <2> QED
    BY <1>2, <2>1, <2>2, <2>3
<1>3. CASE ClientDispatch
  BY <1>3, ClientDispatchDown
<1>4. CASE ServerDispatch
  BY <1>4, DispatchDataDown, DispatchOpenDown, NeverRejects DEF ServerDispatch
<1>5. CASE LinkBreak \/ Lost
  BY <1>5, LossDown, ClientLostDown DEF Lost
<1>6. CASE UNCHANGED vars
  <2>1. UNCHANGED <<creg, next_id, cl, cchan, app, sreg, srv, schan, tgt, link, up, down, cliUp, srvUp>>
    BY <1>6 DEF vars
  <2>2. Registered' /\ Addressed' /\ NeverRefused'
    BY <2>1 DEF DownInv, Registered, Addressed, NeverRefused
  <2>3. ASSUME NEW c \in Conns PROVE DownStream(c)'
    BY <2>1 DEF DownInv, DownStream, DownPipe
  <2> QED
    BY <2>2, <2>3 DEF DownInv
<1> QED
  BY <1>1, <1>2, <1>3, <1>4, <1>5, <1>6 DEF Next

(* The inductive invariant of both directions as long as no id is used     *)
(* twice; an Open is then never refused (listener.rs:406).                 *)
THEOREM DownInvHolds == Spec /\ []FreshIds => [](TunnelInv /\ EventTypes /\ DownInv)
<1>1. Init => DownInv
  BY DownInit
<1>2. TunnelInv /\ EventTypes /\ DownInv /\ FreshIds /\ [Next]_vars => DownInv'
  BY DownNext
<1> QED
  BY <1>1, <1>2, TunnelInvHolds, PTL DEF Spec

(* With ids that are not used twice the application, like the target,      *)
(* receives the stream of its own connection, in order and without a hole  *)
(* (proxy.rs:187).  That the ids are fresh is needed: TunnelStaleData.cfg. *)
THEOREM StreamsAreIsolated == Spec /\ []FreshIds => []StreamsIsolated
<1>1. EventTypes /\ DownInv => AppIsolation
  <2> SUFFICES ASSUME EventTypes, DownInv, NEW c \in Conns, NEW i \in DOMAIN app[c]
               PROVE  app[c][i].conn = c /\ app[c][i].n = i
    BY DEF AppIsolation, StreamOf
  <2>1. app[c] \in Seq(Frames)
    BY DownIs
  <2>2. i \in 1 .. Len(app[c])
    BY <2>1
  <2> QED
    BY <2>2 DEF DownInv, DownStream, Numbered
<1>2. TargetIsolation /\ AppIsolation => StreamsIsolated
  BY DEF StreamsIsolated
<1> QED
  BY <1>1, <1>2, DownInvHolds, TargetsAreIsolated, PTL

(* In particular both streams arrive in order (proxy.rs:177, 187).         *)
COROLLARY StreamsArriveInOrder == Spec /\ []FreshIds => []StreamsInOrder
<1>1. StreamsIsolated => StreamsInOrder
  BY DEF StreamsIsolated, StreamsInOrder, TargetIsolation, AppIsolation, StreamOf, InOrder
<1> QED
  BY <1>1, StreamsAreIsolated, PTL

(* A half close loses no tail in either direction (dispatch.rs:368): when  *)
(* one side's Fin is processed, all it sent has been written.              *)
THEOREM HalfCloseIsComplete == Spec /\ []FreshIds => []CompleteAtFin
<1>1. TunnelInv /\ DownInv => CompleteAtFin
  BY DEF TunnelInv, StreamInv, DownInv, DownStream, CompleteAtFin
<1> QED
  BY <1>1, DownInvHolds, PTL

(* A Rst never goes out for a session that runs (listener.rs:375).  That   *)
(* the ids are fresh is needed: the second removal of an id takes out the  *)
(* entry of the session that used it again (listener.rs:421).              *)
THEOREM RstMeansDead == Spec /\ []FreshIds => []UnroutableMeansDead
<1>1. EventTypes /\ DownInv => UnroutableMeansDead
  <2> SUFFICES ASSUME EventTypes, DownInv, NEW i \in DOMAIN down, down[i].ftype = "Rst"
               PROVE  srv[down[i].conn].phase \notin {"connect", "loop"}
    BY DEF UnroutableMeansDead
  <2>1. down \in Seq(DownFrames)
    BY DEF EventTypes
  <2>2. i \in 1 .. Len(down)
    BY <2>1
  <2> QED
    BY <2>2 DEF DownInv, Addressed, Alive
<1> QED
  BY <1>1, DownInvHolds, PTL

(* An Open is refused only if its id was used before (listener.rs:425). *)
THEOREM OnlyReuseIsRefused == Spec /\ []FreshIds => []NeverRefused
<1>1. DownInv => NeverRefused
  BY DEF DownInv
<1> QED
  BY <1>1, DownInvHolds, PTL
=============================================================================
