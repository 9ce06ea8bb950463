--------------------------- MODULE SrtSocketsProofs ---------------------------
(***************************************************************************)
(* For any number of connections made through a listener, and every        *)
(* interleaving of the application, the two workers and the collector:     *)
(* unless threads stall, no pointer to a deleted socket is left but in the *)
(* one state NoDanglingUnlessLingering names, the multiplexer outlives its *)
(* sockets, and the peer of a connection that was alive is told.           *)
(***************************************************************************)
EXTENDS SrtSockets, FiniteSetTheorems, TLAPS

SockRec ==
  [obj : {"none", "live", "deleted"}, map : {"open", "closed", "none"},
   status : {"init", "listening", "connected", "closing", "closed"},
   broken : BOOLEAN, closing : BOOLEAN, connected : BOOLEAN, opened : BOOLEAN,
   wait : Int, node : {"off", "new", "on"}, heap : BOOLEAN, busy : Int,
   avail : BOOLEAN, buf : {"empty", "unsent", "sent"},
   linger : {"no", "on", "over"}, aged : BOOLEAN, told : BOOLEAN]

(* Where the send worker and the collector are with a socket. *)
SndAt(s) == IF snd.s = s THEN snd.at ELSE "idle"
GcAt(s) == IF gc.s = s THEN gc.at ELSE IF s \in gc.list THEN "listed" ELSE "no"

(* srt_close has made the socket busy. *)
Mid == {"acquired", "closing", "manager"}
One(p) == IF p THEN 1 ELSE 0

(* A socket is in one of the two maps until the collector takes it; what   *)
(* the collector has on its list is old enough and off the CRcvQueue.      *)
Mapped(r, g) ==
  /\ r.map # "none" => r.obj = "live"
  /\ (r.obj = "live" /\ r.map = "none") <=> g \in {"internal", "delete"}
  /\ r.aged => r.map # "open"
  /\ g = "listed" => r.map = "closed" /\ r.aged /\ r.node = "off"

(* How a connection comes to its end: it breaks or is closed, and lingers  *)
(* only as long as it works, in the list of the CRcvQueue.                 *)
Ending(r, c) ==
  /\ r.connected /\ ~r.broken /\ ~r.closing => r.node # "off"
  /\ r.closing /\ ~r.broken => c \in {"closing", "manager", "done"}
  /\ r.linger # "no" => c \in {"manager", "done"}
  /\ r.linger # "no" /\ r.map # "none" /\ ~r.broken => r.connected /\ ~r.closing
  /\ r.obj # "none" /\ r.map # "open" /\ ~r.broken => c = "done"
  /\ ~r.broken /\ r.linger = "no" /\ (r.map = "closed" \/ c \in {"closing", "manager"}) => r.closing
  /\ r.obj # "none" /\ ~r.broken /\ ~r.opened => r.closing

(* Who may still have a pointer: nobody but the workers a second after the *)
(* socket was closed, and not they either unless it lingers.               *)
Pointers(r, u, c, n) ==
  /\ c \in {"none", "may", "done"} \cup Mid
  /\ r.busy = One(c \in Mid) + One(n = "keeps")
  /\ r.map = "closed" /\ r.aged => u = "out" /\ (r.linger = "no" => ~r.heap /\ n = "idle")
  /\ r.obj # "none" /\ r.map = "none" =>
       /\ r.node = "off" /\ u = "out" /\ c \notin Mid
       /\ (r.broken /\ r.linger # "no") \/ (~r.heap /\ n = "idle")

(* A connection that is taken down is told, or it was broken, or data is   *)
(* left in its buffer.                                                     *)
Telling(r, g) ==
  /\ r.opened => r.connected
  /\ r.obj # "none" /\ ~r.opened /\ ~r.broken => r.told
  /\ (g = "delete" \/ r.obj = "deleted") /\ ~r.broken /\ r.buf = "empty" => r.told

OfConn(r, u, c, n, g) ==
  /\ r \in SockRec
  /\ r.obj = "none" => r = Unborn /\ u = "out" /\ c = "none" /\ n = "idle"
  /\ Mapped(r, g) /\ Ending(r, c) /\ Pointers(r, u, c, n) /\ Telling(r, g)

(* The listener is in the CRcvQueue until srt_close has taken it out. *)
OfLsn(r, u, c, n, g) ==
  /\ r \in SockRec /\ r.obj # "none" /\ Mapped(r, g)
  /\ r.node = "off" /\ ~r.heap /\ r.linger = "no" /\ ~r.connected /\ u = "out" /\ n = "idle"
  /\ c \in {"may", "acquired", "closing", "done"}
  /\ r.busy = One(c \in Mid)
  /\ c # "done" => r.map = "open" /\ r.status = "listening"

Shape ==
  /\ DOMAIN sock = Sockets /\ sock = [s \in Sockets |-> sock[s]]
  /\ user = [s \in Sockets |-> user[s]] /\ closer = [s \in Sockets |-> closer[s]]
  /\ queue \subseteq {s \in Conns : sock[s].obj # "none" /\ closer[s] = "none"}
  /\ snd = [at |-> snd.at, s |-> snd.s]
  /\ snd.at \in {"idle", "popped", "keeps"}
  /\ IF snd.at = "idle" THEN snd.s = Nobody ELSE snd.s \in Conns
  /\ gc = [at |-> gc.at, list |-> gc.list, s |-> gc.s]
  /\ gc.at \in {"idle", "remove", "internal", "delete"}
  /\ IF gc.at \in {"internal", "delete"} THEN gc.s \in Sockets ELSE gc.s = Nobody
  /\ gc.list \subseteq Sockets /\ (gc.at = "idle" => gc.list = {})
  /\ gc.s \notin gc.list
  /\ rcv \in {"idle", "request"} /\ (rcv = "request" => listener)
  /\ listener = (closer[Lsn] # "done")

Counted == muxRef = Cardinality({s \in Sockets : Live(s)})

SocketsInv ==
  /\ Shape /\ Counted
  /\ \A s \in Conns : OfConn(sock[s], user[s], closer[s], SndAt(s), GcAt(s))
  /\ OfLsn(sock[Lsn], user[Lsn], closer[Lsn], SndAt(Lsn), GcAt(Lsn))
-----------------------------------------------------------------------------
(* What each action does to a connection.                                  *)

(* The steps of closeInternal keep the record a record. *)
LEMMA RecordSteps ==
  ASSUME NEW r \in SockRec
  PROVE  /\ Closed(r) \in SockRec /\ Unscheduled(r) \in SockRec
         /\ SetDown(r) \in SockRec /\ Lingering(r) \in SockRec
<1>1. Closed(r) \in SockRec
  BY DEF SockRec, Closed
<1>2. Unscheduled(r) \in SockRec
  BY DEF SockRec, Unscheduled
<1>3. SetDown(r) \in SockRec
  <2>1. PICK b \in BOOLEAN : b = (r.told \/ r.connected)
    BY DEF SockRec
  <2>2. SetDown(r) = [r EXCEPT !.told = b, !.connected = FALSE, !.opened = FALSE]
    BY <2>1 DEF SetDown
  <2> QED
    BY <2>2 DEF SockRec
<1>4. Lingering(r) \in SockRec
  BY DEF SockRec, Lingering
<1> QED
  BY <1>1, <1>2, <1>3, <1>4

(* ReplacesOld. *)
LEMMA Replaced ==
  ASSUME NEW r, NEW q, NEW u, NEW c, NEW n, NEW g,
         OfConn(r, u, c, n, g), r.map = "open", r.broken,
         q = Closed(r)
  PROVE  OfConn(q, u, c, n, g) /\ q.obj = r.obj
<1>1. r \in SockRec
  BY DEF OfConn
<1>2. /\ q.obj = r.obj /\ q.map = r.map /\ q.broken = r.broken
      /\ q.closing = r.closing /\ q.connected = r.connected
      /\ q.opened = r.opened /\ q.wait = r.wait /\ q.node = r.node
      /\ q.heap = r.heap /\ q.busy = r.busy /\ q.avail = r.avail
      /\ q.buf = r.buf /\ q.linger = r.linger /\ q.told = r.told
      /\ q.status = "closed" /\ q.aged = FALSE
  BY <1>1 DEF SockRec, Closed
<1>3. q \in SockRec
  BY <1>1 DEF SockRec, Closed
<1>4. r.obj # "none"
  BY DEF OfConn, Unborn, Mapped
<1>5. Mapped(q, g)
  BY <1>2 DEF OfConn, Mapped
<1>6. Ending(q, c)
  BY <1>2, <1>4 DEF OfConn, Mapped, Ending, Pointers, Mid
<1>7. Pointers(q, u, c, n)
  BY <1>1, <1>2, <1>4 DEF OfConn, Mapped, Ending, Pointers, One, Mid, SockRec
<1>8. Telling(q, g)
  BY <1>2, <1>4 DEF OfConn, Mapped, Ending, Pointers, Telling, Mid
<1> QED
  BY <1>2, <1>3, <1>4, <1>5, <1>6, <1>7, <1>8 DEF OfConn

(* RcvInserts. *)
LEMMA Inserted ==
  ASSUME NEW r, NEW q, NEW u, NEW c, NEW n, NEW g,
         OfConn(r, u, c, n, g), r.node = "new",
         q = [r EXCEPT !.node = "on"]
  PROVE  OfConn(q, u, c, n, g) /\ q.obj = r.obj
<1>1. r \in SockRec
  BY DEF OfConn
<1>2. /\ q.obj = r.obj /\ q.map = r.map /\ q.status = r.status
      /\ q.broken = r.broken /\ q.closing = r.closing
      /\ q.connected = r.connected /\ q.opened = r.opened
      /\ q.wait = r.wait /\ q.heap = r.heap /\ q.busy = r.busy
      /\ q.avail = r.avail /\ q.buf = r.buf /\ q.linger = r.linger
      /\ q.aged = r.aged /\ q.told = r.told /\ q.node = "on"
  BY <1>1 DEF SockRec
<1>3. q \in SockRec
  BY <1>1 DEF SockRec
<1>4. r.obj # "none"
  BY DEF OfConn, Unborn, Mapped
<1>5. Mapped(q, g)
  BY <1>2 DEF OfConn, Mapped
<1>6. Ending(q, c)
  BY <1>2, <1>4 DEF OfConn, Mapped, Ending, Pointers, Mid
<1>7. Pointers(q, u, c, n)
  BY <1>1, <1>2, <1>4 DEF OfConn, Mapped, Ending, Pointers, One, Mid, SockRec
<1>8. Telling(q, g)
  BY <1>2, <1>4 DEF OfConn, Mapped, Ending, Pointers, Telling, Mid
<1> QED
  BY <1>2, <1>3, <1>4, <1>5, <1>6, <1>7, <1>8 DEF OfConn

(* RcvProcesses: data arrives. *)
LEMMA GotData ==
  ASSUME NEW r, NEW q, NEW u, NEW c, NEW n, NEW g,
         OfConn(r, u, c, n, g), r.node = "on",
         q = [r EXCEPT !.avail = TRUE]
  PROVE  OfConn(q, u, c, n, g) /\ q.obj = r.obj
<1>1. r \in SockRec
  BY DEF OfConn
<1>2. /\ q.obj = r.obj /\ q.map = r.map /\ q.status = r.status
      /\ q.broken = r.broken /\ q.closing = r.closing
      /\ q.connected = r.connected /\ q.opened = r.opened
      /\ q.wait = r.wait /\ q.node = r.node /\ q.heap = r.heap
      /\ q.busy = r.busy /\ q.buf = r.buf /\ q.linger = r.linger
      /\ q.aged = r.aged /\ q.told = r.told /\ q.avail = TRUE
  BY <1>1 DEF SockRec
<1>3. q \in SockRec
  BY <1>1 DEF SockRec
<1>4. r.obj # "none"
  BY DEF OfConn, Unborn, Mapped
<1>5. Mapped(q, g)
  BY <1>2 DEF OfConn, Mapped
<1>6. Ending(q, c)
  BY <1>2, <1>4 DEF OfConn, Mapped, Ending, Pointers, Mid
<1>7. Pointers(q, u, c, n)
  BY <1>1, <1>2, <1>4 DEF OfConn, Mapped, Ending, Pointers, One, Mid, SockRec
<1>8. Telling(q, g)
  BY <1>2, <1>4 DEF OfConn, Mapped, Ending, Pointers, Telling, Mid
<1> QED
  BY <1>2, <1>3, <1>4, <1>5, <1>6, <1>7, <1>8 DEF OfConn

(* RcvProcesses: an acknowledgement. *)
LEMMA Acked ==
  ASSUME NEW r, NEW q, NEW u, NEW c, NEW n, NEW g,
         OfConn(r, u, c, n, g), r.node = "on", r.connected, ~r.broken, ~r.closing,
         q = [r EXCEPT !.buf = "empty", !.heap = TRUE]
  PROVE  OfConn(q, u, c, n, g) /\ q.obj = r.obj
<1>1. r \in SockRec
  BY DEF OfConn
<1>2. /\ q.obj = r.obj /\ q.map = r.map /\ q.status = r.status
      /\ q.broken = r.broken /\ q.closing = r.closing
      /\ q.connected = r.connected /\ q.opened = r.opened
      /\ q.wait = r.wait /\ q.node = r.node /\ q.busy = r.busy
      /\ q.avail = r.avail /\ q.linger = r.linger /\ q.aged = r.aged
      /\ q.told = r.told /\ q.buf = "empty" /\ q.heap = TRUE
  BY <1>1 DEF SockRec
<1>3. q \in SockRec
  BY <1>1 DEF SockRec
<1>4. r.obj # "none"
  BY DEF OfConn, Unborn, Mapped
<1>5. Mapped(q, g)
  BY <1>2 DEF OfConn, Mapped
<1>6. Ending(q, c)
  BY <1>2, <1>4 DEF OfConn, Mapped, Ending, Pointers, Mid
<1>7. Pointers(q, u, c, n)
  BY <1>1, <1>2, <1>4 DEF OfConn, Mapped, Ending, Pointers, One, Mid, SockRec
<1>8. Telling(q, g)
  BY <1>2, <1>4 DEF OfConn, Mapped, Ending, Pointers, Telling, Mid
<1> QED
  BY <1>2, <1>3, <1>4, <1>5, <1>6, <1>7, <1>8 DEF OfConn

(* RcvProcesses: something was lost. *)
LEMMA Unacked ==
  ASSUME NEW r, NEW q, NEW u, NEW c, NEW n, NEW g,
         OfConn(r, u, c, n, g), r.node = "on", r.connected, ~r.broken, ~r.closing,
         q = [r EXCEPT !.buf = "unsent", !.heap = TRUE]
  PROVE  OfConn(q, u, c, n, g) /\ q.obj = r.obj
<1>1. r \in SockRec
  BY DEF OfConn
<1>2. /\ q.obj = r.obj /\ q.map = r.map /\ q.status = r.status
      /\ q.broken = r.broken /\ q.closing = r.closing
      /\ q.connected = r.connected /\ q.opened = r.opened
      /\ q.wait = r.wait /\ q.node = r.node /\ q.busy = r.busy
      /\ q.avail = r.avail /\ q.linger = r.linger /\ q.aged = r.aged
      /\ q.told = r.told /\ q.buf = "unsent" /\ q.heap = TRUE
  BY <1>1 DEF SockRec
<1>3. q \in SockRec
  BY <1>1 DEF SockRec
<1>4. r.obj # "none"
  BY DEF OfConn, Unborn, Mapped
<1>5. Mapped(q, g)
  BY <1>2 DEF OfConn, Mapped
<1>6. Ending(q, c)
  BY <1>2, <1>4 DEF OfConn, Mapped, Ending, Pointers, Mid
<1>7. Pointers(q, u, c, n)
  BY <1>1, <1>2, <1>4 DEF OfConn, Mapped, Ending, Pointers, One, Mid, SockRec
<1>8. Telling(q, g)
  BY <1>2, <1>4 DEF OfConn, Mapped, Ending, Pointers, Telling, Mid
<1> QED
  BY <1>2, <1>3, <1>4, <1>5, <1>6, <1>7, <1>8 DEF OfConn

(* RcvProcesses: the connection breaks. *)
LEMMA Breaks ==
  ASSUME NEW r, NEW q, NEW u, NEW c, NEW n, NEW g, NEW h \in BOOLEAN,
         OfConn(r, u, c, n, g), r.node = "on", r.connected, ~r.broken, ~r.closing,
         q = [r EXCEPT !.broken = TRUE, !.closing = TRUE, !.wait = BrokenWait, !.heap = h]
  PROVE  OfConn(q, u, c, n, g) /\ q.obj = r.obj
<1>1. r \in SockRec
  BY DEF OfConn
<1>a. BrokenWait \in Int
  BY SocketsAssumption
<1>2. /\ q.obj = r.obj /\ q.map = r.map /\ q.status = r.status
      /\ q.connected = r.connected /\ q.opened = r.opened
      /\ q.node = r.node /\ q.busy = r.busy /\ q.avail = r.avail
      /\ q.buf = r.buf /\ q.linger = r.linger /\ q.aged = r.aged
      /\ q.told = r.told /\ q.broken = TRUE /\ q.closing = TRUE
      /\ q.wait = BrokenWait /\ q.heap = h
  BY <1>1, <1>a DEF SockRec
<1>3. q \in SockRec
  BY <1>1, <1>a DEF SockRec
<1>4. r.obj # "none"
  BY DEF OfConn, Unborn, Mapped
<1>5. Mapped(q, g)
  BY <1>2 DEF OfConn, Mapped
<1>6. Ending(q, c)
  BY <1>2, <1>4 DEF OfConn, Mapped, Ending, Pointers, Mid
<1>7. Pointers(q, u, c, n)
  BY <1>1, <1>2, <1>4 DEF OfConn, Mapped, Ending, Pointers, One, Mid, SockRec
<1>8. Telling(q, g)
  BY <1>2, <1>4 DEF OfConn, Mapped, Ending, Pointers, Telling, Mid
<1> QED
  BY <1>2, <1>3, <1>4, <1>5, <1>6, <1>7, <1>8 DEF OfConn

(* RcvRemoves. *)
LEMMA Removed ==
  ASSUME NEW r, NEW q, NEW u, NEW c, NEW n, NEW g,
         OfConn(r, u, c, n, g), r.node = "on", ~(r.connected /\ ~r.broken /\ ~r.closing),
         q = [r EXCEPT !.node = "off"]
  PROVE  OfConn(q, u, c, n, g) /\ q.obj = r.obj
<1>1. r \in SockRec
  BY DEF OfConn
<1>2. /\ q.obj = r.obj /\ q.map = r.map /\ q.status = r.status
      /\ q.broken = r.broken /\ q.closing = r.closing
      /\ q.connected = r.connected /\ q.opened = r.opened
      /\ q.wait = r.wait /\ q.heap = r.heap /\ q.busy = r.busy
      /\ q.avail = r.avail /\ q.buf = r.buf /\ q.linger = r.linger
      /\ q.aged = r.aged /\ q.told = r.told /\ q.node = "off"
  BY <1>1 DEF SockRec
<1>3. q \in SockRec
  BY <1>1 DEF SockRec
<1>4. r.obj # "none"
  BY DEF OfConn, Unborn, Mapped
<1>5. Mapped(q, g)
  BY <1>2 DEF OfConn, Mapped
<1>6. Ending(q, c)
  BY <1>2, <1>4 DEF OfConn, Mapped, Ending, Pointers, Mid
<1>7. Pointers(q, u, c, n)
  BY <1>1, <1>2, <1>4 DEF OfConn, Mapped, Ending, Pointers, One, Mid, SockRec
<1>8. Telling(q, g)
  BY <1>2, <1>4 DEF OfConn, Mapped, Ending, Pointers, Telling, Mid
<1> QED
  BY <1>2, <1>3, <1>4, <1>5, <1>6, <1>7, <1>8 DEF OfConn

(* SndPops. *)
LEMMA Pops ==
  ASSUME NEW r, NEW q, NEW u, NEW c, NEW g,
         OfConn(r, u, c, "idle", g), r.heap,
         q = [r EXCEPT !.heap = FALSE]
  PROVE  OfConn(q, u, c, "popped", g) /\ q.obj = r.obj
<1>1. r \in SockRec
  BY DEF OfConn
<1>2. /\ q.obj = r.obj /\ q.map = r.map /\ q.status = r.status
      /\ q.broken = r.broken /\ q.closing = r.closing
      /\ q.connected = r.connected /\ q.opened = r.opened
      /\ q.wait = r.wait /\ q.node = r.node /\ q.busy = r.busy
      /\ q.avail = r.avail /\ q.buf = r.buf /\ q.linger = r.linger
      /\ q.aged = r.aged /\ q.told = r.told /\ q.heap = FALSE
  BY <1>1 DEF SockRec
<1>3. q \in SockRec
  BY <1>1 DEF SockRec
<1>4. r.obj # "none"
  BY DEF OfConn, Unborn, Mapped
<1>5. Mapped(q, g)
  BY <1>2 DEF OfConn, Mapped
<1>6. Ending(q, c)
  BY <1>2, <1>4 DEF OfConn, Mapped, Ending, Pointers, Mid
<1>7. Pointers(q, u, c, "popped")
  BY <1>1, <1>2, <1>4 DEF OfConn, Mapped, Ending, Pointers, One, Mid, SockRec
<1>8. Telling(q, g)
  BY <1>2, <1>4 DEF OfConn, Mapped, Ending, Pointers, Telling, Mid
<1> QED
  BY <1>2, <1>3, <1>4, <1>5, <1>6, <1>7, <1>8 DEF OfConn

(* SndKeeps, when the socket is found. *)
LEMMA KeptBusy ==
  ASSUME NEW r, NEW q, NEW u, NEW c, NEW g,
         OfConn(r, u, c, "popped", g), r.map = "open",
         q = [r EXCEPT !.busy = @ + 1]
  PROVE  OfConn(q, u, c, "keeps", g) /\ q.obj = r.obj
<1>1. r \in SockRec
  BY DEF OfConn
<1>2. /\ q.obj = r.obj /\ q.map = r.map /\ q.status = r.status
      /\ q.broken = r.broken /\ q.closing = r.closing
      /\ q.connected = r.connected /\ q.opened = r.opened
      /\ q.wait = r.wait /\ q.node = r.node /\ q.heap = r.heap
      /\ q.avail = r.avail /\ q.buf = r.buf /\ q.linger = r.linger
      /\ q.aged = r.aged /\ q.told = r.told /\ q.busy = r.busy + 1
  BY <1>1 DEF SockRec
<1>3. q \in SockRec
  BY <1>1 DEF SockRec
<1>4. r.obj # "none"
  BY DEF OfConn, Unborn, Mapped
<1>5. Mapped(q, g)
  BY <1>2 DEF OfConn, Mapped
<1>6. Ending(q, c)
  BY <1>2, <1>4 DEF OfConn, Mapped, Ending, Pointers, Mid
<1>7. Pointers(q, u, c, "keeps")
  BY <1>1, <1>2, <1>4 DEF OfConn, Mapped, Ending, Pointers, One, Mid, SockRec
<1>8. Telling(q, g)
  BY <1>2, <1>4 DEF OfConn, Mapped, Ending, Pointers, Telling, Mid
<1> QED
  BY <1>2, <1>3, <1>4, <1>5, <1>6, <1>7, <1>8 DEF OfConn

(* SndPacksNothing. *)
LEMMA NothingPacked ==
  ASSUME NEW r, NEW q, NEW u, NEW c, NEW g,
         OfConn(r, u, c, "keeps", g),
         q = [r EXCEPT !.busy = @ - 1]
  PROVE  OfConn(q, u, c, "idle", g) /\ q.obj = r.obj
<1>1. r \in SockRec
  BY DEF OfConn
<1>2. /\ q.obj = r.obj /\ q.map = r.map /\ q.status = r.status
      /\ q.broken = r.broken /\ q.closing = r.closing
      /\ q.connected = r.connected /\ q.opened = r.opened
      /\ q.wait = r.wait /\ q.node = r.node /\ q.heap = r.heap
      /\ q.avail = r.avail /\ q.buf = r.buf /\ q.linger = r.linger
      /\ q.aged = r.aged /\ q.told = r.told /\ q.busy = r.busy - 1
  BY <1>1 DEF SockRec
<1>3. q \in SockRec
  BY <1>1 DEF SockRec
<1>4. r.obj # "none"
  BY DEF OfConn, Unborn, Mapped
<1>5. Mapped(q, g)
  BY <1>2 DEF OfConn, Mapped
<1>6. Ending(q, c)
  BY <1>2, <1>4 DEF OfConn, Mapped, Ending, Pointers, Mid
<1>7. Pointers(q, u, c, "idle")
  BY <1>1, <1>2, <1>4 DEF OfConn, Mapped, Ending, Pointers, One, Mid, SockRec
<1>8. Telling(q, g)
  BY <1>2, <1>4 DEF OfConn, Mapped, Ending, Pointers, Telling, Mid
<1> QED
  BY <1>2, <1>3, <1>4, <1>5, <1>6, <1>7, <1>8 DEF OfConn

(* SndSends. *)
LEMMA Sent ==
  ASSUME NEW r, NEW q, NEW u, NEW c, NEW g,
         OfConn(r, u, c, "keeps", g), r.buf = "unsent",
         q = [r EXCEPT !.buf = "sent", !.heap = TRUE, !.busy = @ - 1]
  PROVE  OfConn(q, u, c, "idle", g) /\ q.obj = r.obj
<1>1. r \in SockRec
  BY DEF OfConn
<1>a. r.busy \in Int /\ r.busy - 1 \in Int
  BY <1>1 DEF SockRec
<1>2. /\ q.obj = r.obj /\ q.map = r.map /\ q.status = r.status
      /\ q.broken = r.broken /\ q.closing = r.closing
      /\ q.connected = r.connected /\ q.opened = r.opened
      /\ q.wait = r.wait /\ q.node = r.node /\ q.avail = r.avail
      /\ q.linger = r.linger /\ q.aged = r.aged /\ q.told = r.told
      /\ q.buf = "sent" /\ q.heap = TRUE /\ q.busy = r.busy - 1
  BY <1>1, <1>a DEF SockRec
<1>3. q \in SockRec
  BY <1>1, <1>a, Zenon DEF SockRec
<1>4. r.obj # "none"
  BY DEF OfConn, Unborn, Mapped
<1>5. Mapped(q, g)
  BY <1>2 DEF OfConn, Mapped
<1>6. Ending(q, c)
  BY <1>2, <1>4 DEF OfConn, Mapped, Ending, Pointers, Mid
<1>7. Pointers(q, u, c, "idle")
  BY <1>1, <1>2, <1>4 DEF OfConn, Mapped, Ending, Pointers, One, Mid, SockRec
<1>8. Telling(q, g)
  BY <1>2, <1>4 DEF OfConn, Mapped, Ending, Pointers, Telling, Mid
<1> QED
  BY <1>2, <1>3, <1>4, <1>5, <1>6, <1>7, <1>8 DEF OfConn

(* ApiReceives. *)
LEMMA Received ==
  ASSUME NEW r, NEW q, NEW u, NEW c, NEW n, NEW g,
         OfConn(r, u, c, n, g), u # "out",
         q = [r EXCEPT !.avail = FALSE]
  PROVE  OfConn(q, "out", c, n, g) /\ q.obj = r.obj
<1>1. r \in SockRec
  BY DEF OfConn
<1>2. /\ q.obj = r.obj /\ q.map = r.map /\ q.status = r.status
      /\ q.broken = r.broken /\ q.closing = r.closing
      /\ q.connected = r.connected /\ q.opened = r.opened
      /\ q.wait = r.wait /\ q.node = r.node /\ q.heap = r.heap
      /\ q.busy = r.busy /\ q.buf = r.buf /\ q.linger = r.linger
      /\ q.aged = r.aged /\ q.told = r.told /\ q.avail = FALSE
  BY <1>1 DEF SockRec
<1>3. q \in SockRec
  BY <1>1 DEF SockRec
<1>4. r.obj # "none"
  BY DEF OfConn, Unborn, Mapped
<1>5. Mapped(q, g)
  BY <1>2 DEF OfConn, Mapped
<1>6. Ending(q, c)
  BY <1>2, <1>4 DEF OfConn, Mapped, Ending, Pointers, Mid
<1>7. Pointers(q, "out", c, n)
  BY <1>1, <1>2, <1>4 DEF OfConn, Mapped, Ending, Pointers, One, Mid, SockRec
<1>8. Telling(q, g)
  BY <1>2, <1>4 DEF OfConn, Mapped, Ending, Pointers, Telling, Mid
<1> QED
  BY <1>2, <1>3, <1>4, <1>5, <1>6, <1>7, <1>8 DEF OfConn

(* ApiSends. *)
LEMMA Submitted ==
  ASSUME NEW r, NEW q, NEW u, NEW c, NEW n, NEW g,
         OfConn(r, u, c, n, g), u = "checked",
         q = [r EXCEPT !.buf = "unsent", !.heap = TRUE]
  PROVE  OfConn(q, "out", c, n, g) /\ q.obj = r.obj
<1>1. r \in SockRec
  BY DEF OfConn
<1>2. /\ q.obj = r.obj /\ q.map = r.map /\ q.status = r.status
      /\ q.broken = r.broken /\ q.closing = r.closing
      /\ q.connected = r.connected /\ q.opened = r.opened
      /\ q.wait = r.wait /\ q.node = r.node /\ q.busy = r.busy
      /\ q.avail = r.avail /\ q.linger = r.linger /\ q.aged = r.aged
      /\ q.told = r.told /\ q.buf = "unsent" /\ q.heap = TRUE
  BY <1>1 DEF SockRec
<1>3. q \in SockRec
  BY <1>1 DEF SockRec
<1>4. r.obj # "none"
  BY DEF OfConn, Unborn, Mapped
<1>5. Mapped(q, g)
  BY <1>2 DEF OfConn, Mapped
<1>6. Ending(q, c)
  BY <1>2, <1>4 DEF OfConn, Mapped, Ending, Pointers, Mid
<1>7. Pointers(q, "out", c, n)
  BY <1>1, <1>2, <1>4 DEF OfConn, Mapped, Ending, Pointers, One, Mid, SockRec
<1>8. Telling(q, g)
  BY <1>2, <1>4 DEF OfConn, Mapped, Ending, Pointers, Telling, Mid
<1> QED
  BY <1>2, <1>3, <1>4, <1>5, <1>6, <1>7, <1>8 DEF OfConn

(* CloseAcquires, when the socket is found. *)
LEMMA Acquired ==
  ASSUME NEW r, NEW q, NEW u, NEW n, NEW g,
         OfConn(r, u, "may", n, g), r.map = "open",
         q = [r EXCEPT !.busy = @ + 1]
  PROVE  OfConn(q, u, "acquired", n, g) /\ q.obj = r.obj
<1>1. r \in SockRec
  BY DEF OfConn
<1>2. /\ q.obj = r.obj /\ q.map = r.map /\ q.status = r.status
      /\ q.broken = r.broken /\ q.closing = r.closing
      /\ q.connected = r.connected /\ q.opened = r.opened
      /\ q.wait = r.wait /\ q.node = r.node /\ q.heap = r.heap
      /\ q.avail = r.avail /\ q.buf = r.buf /\ q.linger = r.linger
      /\ q.aged = r.aged /\ q.told = r.told /\ q.busy = r.busy + 1
  BY <1>1 DEF SockRec
<1>3. q \in SockRec
  BY <1>1 DEF SockRec
<1>4. r.obj # "none"
  BY DEF OfConn, Unborn, Mapped
<1>5. Mapped(q, g)
  BY <1>2 DEF OfConn, Mapped
<1>6. Ending(q, "acquired")
  BY <1>2, <1>4 DEF OfConn, Mapped, Ending, Pointers, Mid
<1>7. Pointers(q, u, "acquired", n)
  BY <1>1, <1>2, <1>4 DEF OfConn, Mapped, Ending, Pointers, One, Mid, SockRec
<1>8. Telling(q, g)
  BY <1>2, <1>4 DEF OfConn, Mapped, Ending, Pointers, Telling, Mid
<1> QED
  BY <1>2, <1>3, <1>4, <1>5, <1>6, <1>7, <1>8 DEF OfConn

(* CloseBegins, when the connection was taken down before. *)
LEMMA BegunDown ==
  ASSUME NEW r, NEW q, NEW u, NEW n, NEW g,
         OfConn(r, u, "acquired", n, g), ~r.opened,
         q = [r EXCEPT !.status = "closing"]
  PROVE  OfConn(q, u, "manager", n, g) /\ q.obj = r.obj
<1>1. r \in SockRec
  BY DEF OfConn
<1>2. /\ q.obj = r.obj /\ q.map = r.map /\ q.broken = r.broken
      /\ q.closing = r.closing /\ q.connected = r.connected
      /\ q.opened = r.opened /\ q.wait = r.wait /\ q.node = r.node
      /\ q.heap = r.heap /\ q.busy = r.busy /\ q.avail = r.avail
      /\ q.buf = r.buf /\ q.linger = r.linger /\ q.aged = r.aged
      /\ q.told = r.told /\ q.status = "closing"
  BY <1>1 DEF SockRec
<1>3. q \in SockRec
  BY <1>1 DEF SockRec
<1>4. r.obj # "none"
  BY DEF OfConn, Unborn, Mapped
<1>5. Mapped(q, g)
  BY <1>2 DEF OfConn, Mapped
<1>6. Ending(q, "manager")
  BY <1>2, <1>4 DEF OfConn, Mapped, Ending, Pointers, Mid
<1>7. Pointers(q, u, "manager", n)
  BY <1>1, <1>2, <1>4 DEF OfConn, Mapped, Ending, Pointers, One, Mid, SockRec
<1>8. Telling(q, g)
  BY <1>2, <1>4 DEF OfConn, Mapped, Ending, Pointers, Telling, Mid
<1> QED
  BY <1>2, <1>3, <1>4, <1>5, <1>6, <1>7, <1>8 DEF OfConn

(* CloseBegins, with data left. *)
LEMMA BegunLingering ==
  ASSUME NEW r, NEW q, NEW u, NEW n, NEW g,
         OfConn(r, u, "acquired", n, g), HasToLinger(r),
         q = Lingering([r EXCEPT !.status = "closing"])
  PROVE  OfConn(q, u, "manager", n, g) /\ q.obj = r.obj
<1>1. r \in SockRec
  BY DEF OfConn
<1>a. r.linger = "no"
  BY DEF OfConn, Ending
<1>2. /\ q.obj = r.obj /\ q.map = r.map /\ q.broken = r.broken
      /\ q.closing = r.closing /\ q.connected = r.connected
      /\ q.opened = r.opened /\ q.wait = r.wait /\ q.node = r.node
      /\ q.heap = r.heap /\ q.busy = r.busy /\ q.avail = r.avail
      /\ q.buf = r.buf /\ q.aged = r.aged /\ q.told = r.told
      /\ q.status = "closing" /\ q.linger = "on"
  BY <1>1, <1>a DEF SockRec, Lingering
<1>3. q \in SockRec
  BY <1>1, <1>a DEF SockRec, Lingering
<1>4. r.obj # "none"
  BY DEF OfConn, Unborn, Mapped
<1>5. Mapped(q, g)
  BY <1>2 DEF OfConn, Mapped
<1>6. Ending(q, "manager")
  BY <1>2, <1>4 DEF OfConn, Mapped, Ending, Pointers, Mid, HasToLinger
<1>7. Pointers(q, u, "manager", n)
  BY <1>1, <1>2, <1>4 DEF OfConn, Mapped, Ending, Pointers, One, Mid, SockRec
<1>8. Telling(q, g)
  BY <1>2, <1>4 DEF OfConn, Mapped, Ending, Pointers, Telling, Mid, HasToLinger
<1> QED
  BY <1>2, <1>3, <1>4, <1>5, <1>6, <1>7, <1>8 DEF OfConn

(* CloseBegins, with nothing left. *)
LEMMA BegunClosing ==
  ASSUME NEW r, NEW q, NEW u, NEW n, NEW g,
         OfConn(r, u, "acquired", n, g), r.opened, ~HasToLinger(r),
         q = Unscheduled([r EXCEPT !.status = "closing"])
  PROVE  OfConn(q, u, "closing", n, g) /\ q.obj = r.obj
<1>1. r \in SockRec
  BY DEF OfConn
<1>2. /\ q.obj = r.obj /\ q.map = r.map /\ q.broken = r.broken
      /\ q.connected = r.connected /\ q.opened = r.opened
      /\ q.wait = r.wait /\ q.node = r.node /\ q.busy = r.busy
      /\ q.avail = r.avail /\ q.buf = r.buf /\ q.linger = r.linger
      /\ q.aged = r.aged /\ q.told = r.told /\ q.status = "closing"
      /\ q.heap = (r.heap /\ ~r.connected) /\ q.closing = TRUE
  BY <1>1 DEF SockRec, Unscheduled
<1>3. q \in SockRec
  BY <1>1 DEF SockRec, Unscheduled
<1>4. r.obj # "none"
  BY DEF OfConn, Unborn, Mapped
<1>5. Mapped(q, g)
  BY <1>2 DEF OfConn, Mapped
<1>6. Ending(q, "closing")
  BY <1>2, <1>4 DEF OfConn, Mapped, Ending, Pointers, Mid
<1>7. Pointers(q, u, "closing", n)
  BY <1>1, <1>2, <1>4 DEF OfConn, Mapped, Ending, Pointers, One, Mid, SockRec
<1>8. Telling(q, g)
  BY <1>2, <1>4 DEF OfConn, Mapped, Ending, Pointers, Telling, Mid
<1> QED
  BY <1>2, <1>3, <1>4, <1>5, <1>6, <1>7, <1>8 DEF OfConn

(* CloseFinishes. *)
LEMMA ClosedDown ==
  ASSUME NEW r, NEW q, NEW u, NEW n, NEW g,
         OfConn(r, u, "closing", n, g),
         q = SetDown(r)
  PROVE  OfConn(q, u, "manager", n, g) /\ q.obj = r.obj
<1>1. r \in SockRec
  BY DEF OfConn
<1>2. /\ q.obj = r.obj /\ q.map = r.map /\ q.status = r.status
      /\ q.broken = r.broken /\ q.closing = r.closing /\ q.wait = r.wait
      /\ q.node = r.node /\ q.heap = r.heap /\ q.busy = r.busy
      /\ q.avail = r.avail /\ q.buf = r.buf /\ q.linger = r.linger
      /\ q.aged = r.aged /\ q.told = (r.told \/ r.connected)
      /\ q.connected = FALSE /\ q.opened = FALSE
  BY <1>1 DEF SockRec, SetDown
<1>3. q \in SockRec
  BY <1>1, RecordSteps
<1>4. r.obj # "none"
  BY DEF OfConn, Unborn, Mapped
<1>5. Mapped(q, g)
  BY <1>2 DEF OfConn, Mapped
<1>6. Ending(q, "manager")
  BY <1>2, <1>4 DEF OfConn, Mapped, Ending, Pointers, Mid
<1>7. Pointers(q, u, "manager", n)
  BY <1>1, <1>2, <1>4 DEF OfConn, Mapped, Ending, Pointers, One, Mid, SockRec
<1>8. Telling(q, g)
  BY <1>2, <1>4 DEF OfConn, Mapped, Ending, Pointers, Telling, Mid
<1> QED
  BY <1>2, <1>3, <1>4, <1>5, <1>6, <1>7, <1>8 DEF OfConn

(* CloseMoves, when the socket is found. *)
LEMMA MovedByClose ==
  ASSUME NEW r, NEW q, NEW u, NEW n, NEW g,
         OfConn(r, u, "manager", n, g), r.map = "open",
         q = [[Closed(r) EXCEPT !.map = "closed"] EXCEPT !.busy = @ - 1]
  PROVE  OfConn(q, u, "done", n, g) /\ q.obj = r.obj
<1>1. r \in SockRec
  BY DEF OfConn
<1>a. r.busy \in Int /\ r.busy - 1 \in Int
  BY <1>1 DEF SockRec
<1>2. /\ q.obj = r.obj /\ q.broken = r.broken /\ q.closing = r.closing
      /\ q.connected = r.connected /\ q.opened = r.opened
      /\ q.wait = r.wait /\ q.node = r.node /\ q.heap = r.heap
      /\ q.avail = r.avail /\ q.buf = r.buf /\ q.linger = r.linger
      /\ q.told = r.told /\ q.status = "closed" /\ q.aged = FALSE
      /\ q.map = "closed" /\ q.busy = r.busy - 1
  BY <1>1, <1>a DEF SockRec, Closed
<1>3. q \in SockRec
  BY <1>1, <1>a, Zenon DEF SockRec, Closed
<1>4. r.obj # "none"
  BY DEF OfConn, Unborn, Mapped
<1>5. Mapped(q, g)
  BY <1>2 DEF OfConn, Mapped
<1>6. Ending(q, "done")
  BY <1>2, <1>4 DEF OfConn, Mapped, Ending, Pointers, Mid
<1>7. Pointers(q, u, "done", n)
  BY <1>1, <1>2, <1>4 DEF OfConn, Mapped, Ending, Pointers, One, Mid, SockRec
<1>8. Telling(q, g)
  BY <1>2, <1>4 DEF OfConn, Mapped, Ending, Pointers, Telling, Mid
<1> QED
  BY <1>2, <1>3, <1>4, <1>5, <1>6, <1>7, <1>8 DEF OfConn

(* CloseMoves, when it is not. *)
LEMMA LeftByClose ==
  ASSUME NEW r, NEW q, NEW u, NEW n, NEW g,
         OfConn(r, u, "manager", n, g),
         q = [r EXCEPT !.busy = @ - 1]
  PROVE  OfConn(q, u, "done", n, g) /\ q.obj = r.obj
<1>1. r \in SockRec
  BY DEF OfConn
<1>2. /\ q.obj = r.obj /\ q.map = r.map /\ q.status = r.status
      /\ q.broken = r.broken /\ q.closing = r.closing
      /\ q.connected = r.connected /\ q.opened = r.opened
      /\ q.wait = r.wait /\ q.node = r.node /\ q.heap = r.heap
      /\ q.avail = r.avail /\ q.buf = r.buf /\ q.linger = r.linger
      /\ q.aged = r.aged /\ q.told = r.told /\ q.busy = r.busy - 1
  BY <1>1 DEF SockRec
<1>3. q \in SockRec
  BY <1>1 DEF SockRec
<1>4. r.obj # "none"
  BY DEF OfConn, Unborn, Mapped
<1>5. Mapped(q, g)
  BY <1>2 DEF OfConn, Mapped
<1>6. Ending(q, "done")
  BY <1>2, <1>4 DEF OfConn, Mapped, Ending, Pointers, Mid
<1>7. Pointers(q, u, "done", n)
  BY <1>1, <1>2, <1>4 DEF OfConn, Mapped, Ending, Pointers, One, Mid, SockRec
<1>8. Telling(q, g)
  BY <1>2, <1>4 DEF OfConn, Mapped, Ending, Pointers, Telling, Mid
<1> QED
  BY <1>2, <1>3, <1>4, <1>5, <1>6, <1>7, <1>8 DEF OfConn

(* GcScan, for a broken connection. *)
LEMMA MovedByScan ==
  ASSUME NEW r, NEW q, NEW u, NEW c, NEW n,
         OfConn(r, u, c, n, "no"), r.map = "open", r.broken,
         q = [Closed(r) EXCEPT !.map = "closed"]
  PROVE  OfConn(q, u, c, n, "no") /\ q.obj = r.obj
<1>1. r \in SockRec
  BY DEF OfConn
<1>2. /\ q.obj = r.obj /\ q.broken = r.broken /\ q.closing = r.closing
      /\ q.connected = r.connected /\ q.opened = r.opened
      /\ q.wait = r.wait /\ q.node = r.node /\ q.heap = r.heap
      /\ q.busy = r.busy /\ q.avail = r.avail /\ q.buf = r.buf
      /\ q.linger = r.linger /\ q.told = r.told /\ q.status = "closed"
      /\ q.aged = FALSE /\ q.map = "closed"
  BY <1>1 DEF SockRec, Closed
<1>3. q \in SockRec
  BY <1>1 DEF SockRec, Closed
<1>4. r.obj # "none"
  BY DEF OfConn, Unborn, Mapped
<1>5. Mapped(q, "no")
  BY <1>2 DEF OfConn, Mapped
<1>6. Ending(q, c)
  BY <1>2, <1>4 DEF OfConn, Mapped, Ending, Pointers, Mid
<1>7. Pointers(q, u, c, n)
  BY <1>1, <1>2, <1>4 DEF OfConn, Mapped, Ending, Pointers, One, Mid, SockRec
<1>8. Telling(q, "no")
  BY <1>2, <1>4 DEF OfConn, Mapped, Ending, Pointers, Telling, Mid
<1> QED
  BY <1>2, <1>3, <1>4, <1>5, <1>6, <1>7, <1>8 DEF OfConn

(* GcScan, for one with something left to read. *)
LEMMA GivenTime ==
  ASSUME NEW r, NEW q, NEW u, NEW c, NEW n, NEW g,
         OfConn(r, u, c, n, g), r.map = "open",
         q = [r EXCEPT !.wait = @ - 1]
  PROVE  OfConn(q, u, c, n, g) /\ q.obj = r.obj
<1>1. r \in SockRec
  BY DEF OfConn
<1>2. /\ q.obj = r.obj /\ q.map = r.map /\ q.status = r.status
      /\ q.broken = r.broken /\ q.closing = r.closing
      /\ q.connected = r.connected /\ q.opened = r.opened
      /\ q.node = r.node /\ q.heap = r.heap /\ q.busy = r.busy
      /\ q.avail = r.avail /\ q.buf = r.buf /\ q.linger = r.linger
      /\ q.aged = r.aged /\ q.told = r.told /\ q.wait = r.wait - 1
  BY <1>1 DEF SockRec
<1>3. q \in SockRec
  BY <1>1 DEF SockRec
<1>4. r.obj # "none"
  BY DEF OfConn, Unborn, Mapped
<1>5. Mapped(q, g)
  BY <1>2 DEF OfConn, Mapped
<1>6. Ending(q, c)
  BY <1>2, <1>4 DEF OfConn, Mapped, Ending, Pointers, Mid
<1>7. Pointers(q, u, c, n)
  BY <1>1, <1>2, <1>4 DEF OfConn, Mapped, Ending, Pointers, One, Mid, SockRec
<1>8. Telling(q, g)
  BY <1>2, <1>4 DEF OfConn, Mapped, Ending, Pointers, Telling, Mid
<1> QED
  BY <1>2, <1>3, <1>4, <1>5, <1>6, <1>7, <1>8 DEF OfConn

(* GcScan, when the linger time ends. *)
LEMMA LingerDone ==
  ASSUME NEW r, NEW q, NEW u, NEW c, NEW n,
         OfConn(r, u, c, n, "no"), r.map = "closed", r.linger # "no",
         q = LingerEnded(r)
  PROVE  OfConn(q, u, c, n, "no") /\ q.obj = r.obj
<1>1. r \in SockRec
  BY DEF OfConn
<1>2. /\ q.obj = r.obj /\ q.map = r.map /\ q.status = r.status
      /\ q.broken = r.broken /\ q.connected = r.connected
      /\ q.opened = r.opened /\ q.wait = r.wait /\ q.node = r.node
      /\ q.heap = r.heap /\ q.busy = r.busy /\ q.avail = r.avail
      /\ q.buf = r.buf /\ q.told = r.told /\ q.linger = "no"
      /\ q.closing = TRUE /\ q.aged = FALSE
  BY <1>1 DEF SockRec, LingerEnded
<1>3. q \in SockRec
  BY <1>1 DEF SockRec, LingerEnded
<1>4. r.obj # "none"
  BY DEF OfConn, Unborn, Mapped
<1>5. Mapped(q, "no")
  BY <1>2 DEF OfConn, Mapped
<1>6. Ending(q, c)
  BY <1>2, <1>4 DEF OfConn, Mapped, Ending, Pointers, Mid
<1>7. Pointers(q, u, c, n)
  BY <1>1, <1>2, <1>4 DEF OfConn, Mapped, Ending, Pointers, One, Mid, SockRec
<1>8. Telling(q, "no")
  BY <1>2, <1>4 DEF OfConn, Mapped, Ending, Pointers, Telling, Mid
<1> QED
  BY <1>2, <1>3, <1>4, <1>5, <1>6, <1>7, <1>8 DEF OfConn

(* GcScan puts a socket on the list. *)
LEMMA IsListed ==
  ASSUME NEW r, NEW u, NEW c, NEW n,
         OfConn(r, u, c, n, "no"), r.map = "closed", r.aged, r.node = "off"
  PROVE  OfConn(r, u, c, n, "listed")
<1>1. r \in SockRec
  BY DEF OfConn
<1>4. r.obj # "none"
  BY DEF OfConn, Unborn, Mapped
<1>5. Mapped(r, "listed")
  BY DEF OfConn, Mapped
<1>6. Ending(r, c)
  BY <1>4 DEF OfConn, Mapped, Ending, Pointers, Mid
<1>7. Pointers(r, u, c, n)
  BY <1>1, <1>4 DEF OfConn, Mapped, Ending, Pointers, One, Mid, SockRec
<1>8. Telling(r, "listed")
  BY <1>4 DEF OfConn, Mapped, Ending, Pointers, Telling, Mid
<1> QED
  BY <1>1, <1>4, <1>5, <1>6, <1>7, <1>8 DEF OfConn

(* GcSkips. *)
LEMMA IsSkipped ==
  ASSUME NEW r, NEW u, NEW c, NEW n,
         OfConn(r, u, c, n, "listed")
  PROVE  OfConn(r, u, c, n, "no")
<1>1. r \in SockRec
  BY DEF OfConn
<1>4. r.obj # "none"
  BY DEF OfConn, Unborn, Mapped
<1>5. Mapped(r, "no")
  BY DEF OfConn, Mapped
<1>6. Ending(r, c)
  BY <1>4 DEF OfConn, Mapped, Ending, Pointers, Mid
<1>7. Pointers(r, u, c, n)
  BY <1>1, <1>4 DEF OfConn, Mapped, Ending, Pointers, One, Mid, SockRec
<1>8. Telling(r, "no")
  BY <1>4 DEF OfConn, Mapped, Ending, Pointers, Telling, Mid
<1> QED
  BY <1>1, <1>4, <1>5, <1>6, <1>7, <1>8 DEF OfConn

(* GcTakes. *)
LEMMA Taken ==
  ASSUME NEW r, NEW q, NEW u, NEW c, NEW n,
         OfConn(r, u, c, n, "listed"), r.busy = 0,
         q = [r EXCEPT !.map = "none"]
  PROVE  OfConn(q, u, c, n, "internal") /\ q.obj = r.obj
<1>1. r \in SockRec
  BY DEF OfConn
<1>2. /\ q.obj = r.obj /\ q.status = r.status /\ q.broken = r.broken
      /\ q.closing = r.closing /\ q.connected = r.connected
      /\ q.opened = r.opened /\ q.wait = r.wait /\ q.node = r.node
      /\ q.heap = r.heap /\ q.busy = r.busy /\ q.avail = r.avail
      /\ q.buf = r.buf /\ q.linger = r.linger /\ q.aged = r.aged
      /\ q.told = r.told /\ q.map = "none"
  BY <1>1 DEF SockRec
<1>3. q \in SockRec
  BY <1>1 DEF SockRec
<1>4. r.obj # "none"
  BY DEF OfConn, Unborn, Mapped
<1>5. Mapped(q, "internal")
  BY <1>2 DEF OfConn, Mapped
<1>6. Ending(q, c)
  BY <1>2, <1>4 DEF OfConn, Mapped, Ending, Pointers, Mid
<1>7. Pointers(q, u, c, n)
  BY <1>1, <1>2, <1>4 DEF OfConn, Mapped, Ending, Pointers, One, Mid, SockRec
<1>8. Telling(q, "internal")
  BY <1>2, <1>4 DEF OfConn, Mapped, Ending, Pointers, Telling, Mid
<1> QED
  BY <1>2, <1>3, <1>4, <1>5, <1>6, <1>7, <1>8 DEF OfConn

(* GcTakes, for a connection nobody has accepted. *)
LEMMA Unclaimed ==
  ASSUME NEW r, NEW q, NEW u, NEW c, NEW n, NEW g,
         OfConn(r, u, c, n, g), r.map = "open",
         q = [BrokenAndClosed(r) EXCEPT !.map = "closed"]
  PROVE  OfConn(q, u, c, n, g) /\ q.obj = r.obj
<1>1. r \in SockRec
  BY DEF OfConn
<1>2. /\ q.obj = r.obj /\ q.node = r.node /\ q.busy = r.busy
      /\ q.avail = r.avail /\ q.buf = r.buf /\ q.linger = r.linger
      /\ q.broken = TRUE /\ q.wait = 0 /\ q.status = "closed"
      /\ q.aged = FALSE /\ q.map = "closed"
      /\ q.closing = (r.closing \/ r.opened)
      /\ q.heap = (r.heap /\ (r.opened => ~r.connected))
      /\ q.told = (r.told \/ (r.opened /\ r.connected))
      /\ q.connected = (r.connected /\ ~r.opened) /\ q.opened = FALSE
  <2> DEFINE a == [r EXCEPT !.broken = TRUE, !.wait = 0]
             b == ClosedInternally(a)
  <2>z. 0 \in Int
    OBVIOUS
  <2>1. a \in SockRec
    BY <1>1, <2>z, Zenon DEF SockRec
  <2>2. /\ a.obj = r.obj /\ a.node = r.node /\ a.busy = r.busy /\ a.avail = r.avail
        /\ a.buf = r.buf /\ a.linger = r.linger /\ a.broken = TRUE /\ a.wait = 0
        /\ a.closing = r.closing /\ a.heap = r.heap /\ a.told = r.told
        /\ a.connected = r.connected /\ a.opened = r.opened
    BY <1>1 DEF SockRec
  <2>3. q = [[b EXCEPT !.status = "closed", !.aged = FALSE] EXCEPT !.map = "closed"]
    BY DEF BrokenAndClosed, Closed
  <2> HIDE DEF a
  <2>4. b \in SockRec
    BY <2>1, RecordSteps DEF ClosedInternally
  <2>5. /\ b.obj = a.obj /\ b.node = a.node /\ b.busy = a.busy /\ b.avail = a.avail
        /\ b.buf = a.buf /\ b.linger = a.linger /\ b.broken = a.broken /\ b.wait = a.wait
        /\ b.closing = (a.closing \/ a.opened)
        /\ b.heap = (a.heap /\ (a.opened => ~a.connected))
        /\ b.told = (a.told \/ (a.opened /\ a.connected))
        /\ b.connected = (a.connected /\ ~a.opened) /\ b.opened = FALSE
    <3>1. CASE a.opened
      <4> DEFINE e == Unscheduled(a)
      <4>1. b = SetDown(e)
        BY <2>2, <3>1 DEF ClosedInternally, HasToLinger
      <4>2. e \in SockRec
        BY <2>1, RecordSteps
      <4>3. /\ e.obj = a.obj /\ e.node = a.node /\ e.busy = a.busy /\ e.avail = a.avail
            /\ e.buf = a.buf /\ e.linger = a.linger /\ e.broken = a.broken
            /\ e.wait = a.wait /\ e.told = a.told /\ e.connected = a.connected
            /\ e.closing = TRUE /\ e.heap = (a.heap /\ ~a.connected)
        BY <2>1 DEF SockRec, Unscheduled
      <4> HIDE DEF e
      <4>4. /\ b.obj = e.obj /\ b.node = e.node /\ b.busy = e.busy /\ b.avail = e.avail
            /\ b.buf = e.buf /\ b.linger = e.linger /\ b.broken = e.broken
            /\ b.wait = e.wait /\ b.closing = e.closing /\ b.heap = e.heap
            /\ b.told = (e.told \/ e.connected) /\ b.connected = FALSE /\ b.opened = FALSE
        BY <4>1, <4>2 DEF SockRec, SetDown
      <4> QED
        BY <3>1, <4>3, <4>4
    <3>2. CASE ~a.opened
      <4>1. b = a
        BY <3>2 DEF ClosedInternally
      <4> QED
        BY <2>1, <3>2, <4>1 DEF SockRec
    <3> QED
      BY <3>1, <3>2
  <2> HIDE DEF b
  <2>6. /\ q.obj = b.obj /\ q.node = b.node /\ q.busy = b.busy /\ q.avail = b.avail
        /\ q.buf = b.buf /\ q.linger = b.linger /\ q.broken = b.broken /\ q.wait = b.wait
        /\ q.closing = b.closing /\ q.heap = b.heap /\ q.told = b.told
        /\ q.connected = b.connected /\ q.opened = b.opened
        /\ q.status = "closed" /\ q.aged = FALSE /\ q.map = "closed"
    BY <2>3, <2>4 DEF SockRec
  <2> QED
    BY <2>2, <2>5, <2>6
<1>3. q \in SockRec
  <2> DEFINE a == [r EXCEPT !.broken = TRUE, !.wait = 0]
  <2>z. 0 \in Int
    OBVIOUS
  <2>1. a \in SockRec
    BY <1>1, <2>z, Zenon DEF SockRec
  <2> HIDE DEF a
  <2>2. ClosedInternally(a) \in SockRec
    BY <2>1, RecordSteps DEF ClosedInternally
  <2>3. BrokenAndClosed(r) \in SockRec
    BY <2>2, RecordSteps DEF BrokenAndClosed, a
  <2> QED
    BY <2>3 DEF SockRec
<1>4. r.obj # "none"
  BY DEF OfConn, Unborn, Mapped
<1>5. Mapped(q, g)
  BY <1>2 DEF OfConn, Mapped
<1>6. Ending(q, c)
  BY <1>2, <1>4 DEF OfConn, Mapped, Ending, Pointers, Mid
<1>7. Pointers(q, u, c, n)
  BY <1>1, <1>2, <1>4 DEF OfConn, Mapped, Ending, Pointers, One, Mid, SockRec
<1>8. Telling(q, g)
  BY <1>2, <1>4 DEF OfConn, Mapped, Ending, Pointers, Telling, Mid
<1> QED
  BY <1>2, <1>3, <1>4, <1>5, <1>6, <1>7, <1>8 DEF OfConn

(* GcCloses, when the connection was taken down before. *)
LEMMA NotReopened ==
  ASSUME NEW r, NEW q, NEW u, NEW c, NEW n,
         OfConn(r, u, c, n, "internal"), ~r.opened,
         q = r
  PROVE  OfConn(q, u, c, n, "delete") /\ q.obj = r.obj
<1>1. r \in SockRec
  BY DEF OfConn
<1>2. /\ q.obj = r.obj /\ q.map = r.map /\ q.status = r.status
      /\ q.broken = r.broken /\ q.closing = r.closing
      /\ q.connected = r.connected /\ q.opened = r.opened
      /\ q.wait = r.wait /\ q.node = r.node /\ q.heap = r.heap
      /\ q.busy = r.busy /\ q.avail = r.avail /\ q.buf = r.buf
      /\ q.linger = r.linger /\ q.aged = r.aged /\ q.told = r.told
  BY <1>1 DEF SockRec
<1>3. q \in SockRec
  BY <1>1 DEF SockRec
<1>4. r.obj # "none"
  BY DEF OfConn, Unborn, Mapped
<1>5. Mapped(q, "delete")
  BY <1>2 DEF OfConn, Mapped
<1>6. Ending(q, c)
  BY <1>2, <1>4 DEF OfConn, Mapped, Ending, Pointers, Mid
<1>7. Pointers(q, u, c, n)
  BY <1>1, <1>2, <1>4 DEF OfConn, Mapped, Ending, Pointers, One, Mid, SockRec
<1>8. Telling(q, "delete")
  BY <1>2, <1>4 DEF OfConn, Mapped, Ending, Pointers, Telling, Mid
<1> QED
  BY <1>2, <1>3, <1>4, <1>5, <1>6, <1>7, <1>8 DEF OfConn

(* GcCloses, with data left: a new linger time that nobody waits for. *)
LEMMA LingersAgain ==
  ASSUME NEW r, NEW q, NEW u, NEW c, NEW n,
         OfConn(r, u, c, n, "internal"), HasToLinger(r),
         q = Lingering(r)
  PROVE  OfConn(q, u, c, n, "delete") /\ q.obj = r.obj
<1>1. r \in SockRec
  BY DEF OfConn
<1>2. /\ q.obj = r.obj /\ q.map = r.map /\ q.status = r.status
      /\ q.broken = r.broken /\ q.closing = r.closing
      /\ q.connected = r.connected /\ q.opened = r.opened
      /\ q.wait = r.wait /\ q.node = r.node /\ q.heap = r.heap
      /\ q.busy = r.busy /\ q.avail = r.avail /\ q.buf = r.buf
      /\ q.aged = r.aged /\ q.told = r.told
      /\ q.linger = (IF r.linger = "no" THEN "on" ELSE r.linger)
  BY <1>1 DEF SockRec, Lingering
<1>3. q \in SockRec
  BY <1>1 DEF SockRec, Lingering
<1>4. r.obj # "none"
  BY DEF OfConn, Unborn, Mapped
<1>5. Mapped(q, "delete")
  BY <1>2 DEF OfConn, Mapped
<1>6. Ending(q, c)
  BY <1>2, <1>4 DEF OfConn, Mapped, Ending, Pointers, Mid, HasToLinger
<1>7. Pointers(q, u, c, n)
  BY <1>1, <1>2, <1>4 DEF OfConn, Mapped, Ending, Pointers, One, Mid, SockRec
<1>8. Telling(q, "delete")
  BY <1>2, <1>4 DEF OfConn, Mapped, Ending, Pointers, Telling, Mid, HasToLinger
<1> QED
  BY <1>2, <1>3, <1>4, <1>5, <1>6, <1>7, <1>8 DEF OfConn

(* GcCloses, with nothing left. *)
LEMMA DownAtLast ==
  ASSUME NEW r, NEW q, NEW u, NEW c, NEW n,
         OfConn(r, u, c, n, "internal"), r.opened, ~HasToLinger(r),
         q = SetDown(Unscheduled(r))
  PROVE  OfConn(q, u, c, n, "delete") /\ q.obj = r.obj
<1>1. r \in SockRec
  BY DEF OfConn
<1>2. /\ q.obj = r.obj /\ q.map = r.map /\ q.status = r.status
      /\ q.broken = r.broken /\ q.wait = r.wait /\ q.node = r.node
      /\ q.busy = r.busy /\ q.avail = r.avail /\ q.buf = r.buf
      /\ q.linger = r.linger /\ q.aged = r.aged
      /\ q.heap = (r.heap /\ ~r.connected) /\ q.closing = TRUE
      /\ q.told = (r.told \/ r.connected) /\ q.connected = FALSE
      /\ q.opened = FALSE
  BY <1>1 DEF SockRec, SetDown, Unscheduled
<1>3. q \in SockRec
  BY <1>1, RecordSteps
<1>4. r.obj # "none"
  BY DEF OfConn, Unborn, Mapped
<1>5. Mapped(q, "delete")
  BY <1>2 DEF OfConn, Mapped
<1>6. Ending(q, c)
  BY <1>2, <1>4 DEF OfConn, Mapped, Ending, Pointers, Mid
<1>7. Pointers(q, u, c, n)
  BY <1>1, <1>2, <1>4 DEF OfConn, Mapped, Ending, Pointers, One, Mid, SockRec
<1>8. Telling(q, "delete")
  BY <1>2, <1>4 DEF OfConn, Mapped, Ending, Pointers, Telling, Mid
<1> QED
  BY <1>2, <1>3, <1>4, <1>5, <1>6, <1>7, <1>8 DEF OfConn

(* GcDeletes. *)
LEMMA IsDeleted ==
  ASSUME NEW r, NEW q, NEW u, NEW c, NEW n,
         OfConn(r, u, c, n, "delete"),
         q = [r EXCEPT !.obj = "deleted"]
  PROVE  OfConn(q, u, c, n, "no")
<1>1. r \in SockRec
  BY DEF OfConn
<1>2. /\ q.map = r.map /\ q.status = r.status /\ q.broken = r.broken
      /\ q.closing = r.closing /\ q.connected = r.connected
      /\ q.opened = r.opened /\ q.wait = r.wait /\ q.node = r.node
      /\ q.heap = r.heap /\ q.busy = r.busy /\ q.avail = r.avail
      /\ q.buf = r.buf /\ q.linger = r.linger /\ q.aged = r.aged
      /\ q.told = r.told /\ q.obj = "deleted"
  BY <1>1 DEF SockRec
<1>3. q \in SockRec
  BY <1>1 DEF SockRec
<1>4. r.obj # "none"
  BY DEF OfConn, Unborn, Mapped
<1>5. Mapped(q, "no")
  BY <1>2 DEF OfConn, Mapped
<1>6. Ending(q, c)
  BY <1>2, <1>4 DEF OfConn, Mapped, Ending, Pointers, Mid
<1>7. Pointers(q, u, c, n)
  BY <1>1, <1>2, <1>4 DEF OfConn, Mapped, Ending, Pointers, One, Mid, SockRec
<1>8. Telling(q, "no")
  BY <1>2, <1>4 DEF OfConn, Mapped, Ending, Pointers, Telling, Mid
<1> QED
  BY <1>2, <1>3, <1>4, <1>5, <1>6, <1>7, <1>8 DEF OfConn

(* Ages, of a socket no thread is busy with. *)
LEMMA GrowsOld ==
  ASSUME NEW r, NEW q, NEW c, NEW g,
         OfConn(r, "out", c, "idle", g), r.map = "closed", ~r.heap,
         q = [r EXCEPT !.aged = TRUE]
  PROVE  OfConn(q, "out", c, "idle", g) /\ q.obj = r.obj
<1>1. r \in SockRec
  BY DEF OfConn
<1>2. /\ q.obj = r.obj /\ q.map = r.map /\ q.status = r.status
      /\ q.broken = r.broken /\ q.closing = r.closing
      /\ q.connected = r.connected /\ q.opened = r.opened
      /\ q.wait = r.wait /\ q.node = r.node /\ q.heap = r.heap
      /\ q.busy = r.busy /\ q.avail = r.avail /\ q.buf = r.buf
      /\ q.linger = r.linger /\ q.told = r.told /\ q.aged = TRUE
  BY <1>1 DEF SockRec
<1>3. q \in SockRec
  BY <1>1 DEF SockRec
<1>4. r.obj # "none"
  BY DEF OfConn, Unborn, Mapped
<1>5. Mapped(q, g)
  BY <1>2 DEF OfConn, Mapped
<1>6. Ending(q, c)
  BY <1>2, <1>4 DEF OfConn, Mapped, Ending, Pointers, Mid
<1>7. Pointers(q, "out", c, "idle")
  BY <1>1, <1>2, <1>4 DEF OfConn, Mapped, Ending, Pointers, One, Mid, SockRec
<1>8. Telling(q, g)
  BY <1>2, <1>4 DEF OfConn, Mapped, Ending, Pointers, Telling, Mid
<1> QED
  BY <1>2, <1>3, <1>4, <1>5, <1>6, <1>7, <1>8 DEF OfConn

(* LingerExpires. *)
LEMMA LingersLonger ==
  ASSUME NEW r, NEW q, NEW u, NEW c, NEW n, NEW g,
         OfConn(r, u, c, n, g), r.linger = "on",
         q = [r EXCEPT !.linger = "over"]
  PROVE  OfConn(q, u, c, n, g) /\ q.obj = r.obj
<1>1. r \in SockRec
  BY DEF OfConn
<1>2. /\ q.obj = r.obj /\ q.map = r.map /\ q.status = r.status
      /\ q.broken = r.broken /\ q.closing = r.closing
      /\ q.connected = r.connected /\ q.opened = r.opened
      /\ q.wait = r.wait /\ q.node = r.node /\ q.heap = r.heap
      /\ q.busy = r.busy /\ q.avail = r.avail /\ q.buf = r.buf
      /\ q.aged = r.aged /\ q.told = r.told /\ q.linger = "over"
  BY <1>1 DEF SockRec
<1>3. q \in SockRec
  BY <1>1 DEF SockRec
<1>4. r.obj # "none"
  BY DEF OfConn, Unborn, Mapped
<1>5. Mapped(q, g)
  BY <1>2 DEF OfConn, Mapped
<1>6. Ending(q, c)
  BY <1>2, <1>4 DEF OfConn, Mapped, Ending, Pointers, Mid
<1>7. Pointers(q, u, c, n)
  BY <1>1, <1>2, <1>4 DEF OfConn, Mapped, Ending, Pointers, One, Mid, SockRec
<1>8. Telling(q, g)
  BY <1>2, <1>4 DEF OfConn, Mapped, Ending, Pointers, Telling, Mid
<1> QED
  BY <1>2, <1>3, <1>4, <1>5, <1>6, <1>7, <1>8 DEF OfConn

(* AcceptPops. *)
LEMMA IsAccepted ==
  ASSUME NEW r, NEW u, NEW n, NEW g,
         OfConn(r, u, "none", n, g), r.obj # "none"
  PROVE  OfConn(r, u, "may", n, g)
<1>1. r \in SockRec
  BY DEF OfConn
<1>4. r.obj # "none"
  BY DEF OfConn, Unborn, Mapped
<1>5. Mapped(r, g)
  BY DEF OfConn, Mapped
<1>6. Ending(r, "may")
  BY <1>4 DEF OfConn, Mapped, Ending, Pointers, Mid
<1>7. Pointers(r, u, "may", n)
  BY <1>1, <1>4 DEF OfConn, Mapped, Ending, Pointers, One, Mid, SockRec
<1>8. Telling(r, g)
  BY <1>4 DEF OfConn, Mapped, Ending, Pointers, Telling, Mid
<1> QED
  BY <1>1, <1>4, <1>5, <1>6, <1>7, <1>8 DEF OfConn

(* ApiLocates. *)
LEMMA IsLocated ==
  ASSUME NEW r, NEW u, NEW c, NEW n, NEW g,
         OfConn(r, u, c, n, g), r.map = "open"
  PROVE  OfConn(r, "in", c, n, g)
<1>1. r \in SockRec
  BY DEF OfConn
<1>4. r.obj # "none"
  BY DEF OfConn, Unborn, Mapped
<1>5. Mapped(r, g)
  BY DEF OfConn, Mapped
<1>6. Ending(r, c)
  BY <1>4 DEF OfConn, Mapped, Ending, Pointers, Mid
<1>7. Pointers(r, "in", c, n)
  BY <1>1, <1>4 DEF OfConn, Mapped, Ending, Pointers, One, Mid, SockRec
<1>8. Telling(r, g)
  BY <1>4 DEF OfConn, Mapped, Ending, Pointers, Telling, Mid
<1> QED
  BY <1>1, <1>4, <1>5, <1>6, <1>7, <1>8 DEF OfConn

(* ApiFails and ApiChecks. *)
LEMMA IsChecked ==
  ASSUME NEW r, NEW u, NEW c, NEW n, NEW g, NEW v,
         OfConn(r, u, c, n, g), u # "out"
  PROVE  OfConn(r, v, c, n, g)
<1>1. r \in SockRec
  BY DEF OfConn
<1>4. r.obj # "none"
  BY DEF OfConn, Unborn, Mapped
<1>5. Mapped(r, g)
  BY DEF OfConn, Mapped
<1>6. Ending(r, c)
  BY <1>4 DEF OfConn, Mapped, Ending, Pointers, Mid
<1>7. Pointers(r, v, c, n)
  BY <1>1, <1>4 DEF OfConn, Mapped, Ending, Pointers, One, Mid, SockRec
<1>8. Telling(r, g)
  BY <1>4 DEF OfConn, Mapped, Ending, Pointers, Telling, Mid
<1> QED
  BY <1>1, <1>4, <1>5, <1>6, <1>7, <1>8 DEF OfConn

(* SndKeeps, when the socket is not found. *)
LEMMA IsLetGo ==
  ASSUME NEW r, NEW u, NEW c, NEW g,
         OfConn(r, u, c, "popped", g)
  PROVE  OfConn(r, u, c, "idle", g)
<1>1. r \in SockRec
  BY DEF OfConn
<1>4. r.obj # "none"
  BY DEF OfConn, Unborn, Mapped
<1>5. Mapped(r, g)
  BY DEF OfConn, Mapped
<1>6. Ending(r, c)
  BY <1>4 DEF OfConn, Mapped, Ending, Pointers, Mid
<1>7. Pointers(r, u, c, "idle")
  BY <1>1, <1>4 DEF OfConn, Mapped, Ending, Pointers, One, Mid, SockRec
<1>8. Telling(r, g)
  BY <1>4 DEF OfConn, Mapped, Ending, Pointers, Telling, Mid
<1> QED
  BY <1>1, <1>4, <1>5, <1>6, <1>7, <1>8 DEF OfConn

(* CloseAcquires, when it is not. *)
LEMMA IsNotFound ==
  ASSUME NEW r, NEW u, NEW n, NEW g,
         OfConn(r, u, "may", n, g)
  PROVE  OfConn(r, u, "done", n, g)
<1>1. r \in SockRec
  BY DEF OfConn
<1>4. r.obj # "none"
  BY DEF OfConn, Unborn, Mapped
<1>5. Mapped(r, g)
  BY DEF OfConn, Mapped
<1>6. Ending(r, "done")
  BY <1>4 DEF OfConn, Mapped, Ending, Pointers, Mid
<1>7. Pointers(r, u, "done", n)
  BY <1>1, <1>4 DEF OfConn, Mapped, Ending, Pointers, One, Mid, SockRec
<1>8. Telling(r, g)
  BY <1>4 DEF OfConn, Mapped, Ending, Pointers, Telling, Mid
<1> QED
  BY <1>1, <1>4, <1>5, <1>6, <1>7, <1>8 DEF OfConn

(* NewConnection. *)
LEMMA Born ==
  ASSUME NEW r, NEW q, NEW u, NEW c, NEW n, NEW g, OfConn(r, u, c, n, g), r.obj = "none",
         q = [r EXCEPT !.obj = "live", !.map = "open", !.status = "connected",
                       !.opened = TRUE, !.connected = TRUE, !.node = "new"]
  PROVE  OfConn(q, u, c, n, g) /\ q.obj = "live"
<1>1. r \in SockRec /\ r = Unborn /\ u = "out" /\ c = "none" /\ n = "idle"
  BY DEF OfConn
<1>2. /\ r.map = "none" /\ r.broken = FALSE /\ r.closing = FALSE /\ r.busy = 0
      /\ r.linger = "no" /\ r.aged = FALSE
  BY <1>1 DEF Unborn
<1>3. q \in SockRec
  <2> DEFINE a == [r EXCEPT !.obj = "live", !.map = "open", !.status = "connected"]
  <2>0. r \in SockRec
    BY <1>1
  <2>1. a \in SockRec
    BY <2>0 DEF SockRec
  <2>2. q = [a EXCEPT !.opened = TRUE, !.connected = TRUE, !.node = "new"]
    BY <2>0 DEF SockRec
  <2> HIDE DEF a
  <2> QED
    BY <2>1, <2>2 DEF SockRec
<1>f. /\ q.obj = "live" /\ q.map = "open" /\ q.broken = r.broken /\ q.closing = r.closing
      /\ q.connected = TRUE /\ q.opened = TRUE /\ q.node = "new" /\ q.busy = r.busy
      /\ q.linger = r.linger /\ q.aged = r.aged
  BY <1>1 DEF SockRec
<1>4. Mapped(q, g)
  BY <1>f, <1>2 DEF OfConn, Mapped
<1>5. Ending(q, c)
  BY <1>f, <1>1, <1>2 DEF Ending
<1>6. Pointers(q, u, c, n)
  BY <1>f, <1>1, <1>2 DEF Pointers, One, Mid
<1>7. Telling(q, g)
  BY <1>f, <1>2 DEF OfConn, Mapped, Telling
<1> QED
  BY <1>f, <1>3, <1>4, <1>5, <1>6, <1>7 DEF OfConn
-----------------------------------------------------------------------------
(* A step of one connection, with neither the send worker nor the          *)
(* collector.                                                              *)
LEMMA OneConn ==
  ASSUME SocketsInv, NEW s \in Conns, NEW q, NEW v, NEW d,
         sock' = [sock EXCEPT ![s] = q], user' = [user EXCEPT ![s] = v],
         closer' = [closer EXCEPT ![s] = d], queue' \subseteq queue, s \in queue' => d = "none",
         UNCHANGED <<listener, muxRef, snd, rcv, gc>>,
         q.obj = sock[s].obj, OfConn(q, v, d, SndAt(s), GcAt(s))
  PROVE  SocketsInv'
<1>1. s \in Sockets /\ s # Lsn /\ Lsn \in Sockets /\ Conns \subseteq Sockets
  BY SocketsAssumption DEF Sockets
<1>2. /\ sock = [t \in Sockets |-> sock[t]] /\ user = [t \in Sockets |-> user[t]]
      /\ closer = [t \in Sockets |-> closer[t]]
  BY DEF SocketsInv, Shape
<1>3. /\ sock'[s] = q /\ user'[s] = v /\ closer'[s] = d
      /\ \A t \in Sockets :
           t # s => sock'[t] = sock[t] /\ user'[t] = user[t] /\ closer'[t] = closer[t]
  BY <1>1, <1>2
<1>4. \A t : SndAt(t)' = SndAt(t) /\ GcAt(t)' = GcAt(t)
  BY DEF SndAt, GcAt
<1>5. \A t \in Sockets : sock'[t].obj = sock[t].obj
  BY <1>3
<1>6. Shape'
  <2>1. queue' \subseteq {t \in Conns : sock'[t].obj # "none" /\ closer'[t] = "none"}
    <3> SUFFICES ASSUME NEW t \in queue'
                 PROVE  t \in Conns /\ sock'[t].obj # "none" /\ closer'[t] = "none"
      OBVIOUS
    <3>1. t \in queue /\ t \in Conns /\ sock[t].obj # "none" /\ closer[t] = "none"
      BY DEF SocketsInv, Shape
    <3>2. t \in Sockets
      BY <1>1, <3>1
    <3> QED
      BY <1>3, <1>5, <3>1, <3>2
  <2>2. /\ DOMAIN sock' = Sockets /\ sock' = [t \in Sockets |-> sock'[t]]
        /\ user' = [t \in Sockets |-> user'[t]] /\ closer' = [t \in Sockets |-> closer'[t]]
    BY <1>2
  <2> QED
    BY <1>1, <1>3, <2>1, <2>2 DEF SocketsInv, Shape
<1>7. Counted'
  BY <1>5 DEF SocketsInv, Counted, Live
<1>8. ASSUME NEW t \in Conns
      PROVE  OfConn(sock'[t], user'[t], closer'[t], SndAt(t)', GcAt(t)')
  <2>1. CASE t = s
    BY <1>3, <1>4, <2>1
  <2>2. CASE t # s
    <3>1. OfConn(sock[t], user[t], closer[t], SndAt(t), GcAt(t))
      BY DEF SocketsInv
    <3> QED
      BY <1>1, <1>3, <1>4, <2>2, <3>1
  <2> QED
    BY <2>1, <2>2
<1>9. OfLsn(sock'[Lsn], user'[Lsn], closer'[Lsn], SndAt(Lsn)', GcAt(Lsn)')
  BY <1>1, <1>3, <1>4 DEF SocketsInv
<1> QED
  BY <1>6, <1>7, <1>8, <1>9 DEF SocketsInv

(* A step of the send worker with one connection. *)
LEMMA SndStep ==
  ASSUME SocketsInv, NEW s \in Conns, NEW q, NEW a,
         sock' = [sock EXCEPT ![s] = q], snd.s \in {Nobody, s},
         \/ a = "idle" /\ snd' = [at |-> "idle", s |-> Nobody]
         \/ a \in {"popped", "keeps"} /\ snd' = [at |-> a, s |-> s],
         UNCHANGED <<queue, listener, muxRef, user, closer, rcv, gc>>,
         q.obj = sock[s].obj, OfConn(q, user[s], closer[s], a, GcAt(s))
  PROVE  SocketsInv'
<1>1. /\ s \in Sockets /\ s # Lsn /\ Lsn \in Sockets /\ Conns \subseteq Sockets
      /\ Nobody \notin Sockets
  BY SocketsAssumption DEF Sockets
<1>2. sock = [t \in Sockets |-> sock[t]]
  BY DEF SocketsInv, Shape
<1>3. sock'[s] = q /\ \A t \in Sockets : t # s => sock'[t] = sock[t]
  BY <1>1, <1>2
<1>4. /\ \A t : GcAt(t)' = GcAt(t)
      /\ \A t \in Sockets : t # s => SndAt(t)' = SndAt(t)
      /\ SndAt(s)' = a
  BY <1>1 DEF SndAt, GcAt
<1>5. \A t \in Sockets : sock'[t].obj = sock[t].obj
  BY <1>3
<1>6. Shape'
  <2>1. queue' \subseteq {t \in Conns : sock'[t].obj # "none" /\ closer'[t] = "none"}
    <3> SUFFICES ASSUME NEW t \in queue'
                 PROVE  t \in Conns /\ sock'[t].obj # "none" /\ closer'[t] = "none"
      OBVIOUS
    <3>1. t \in queue /\ t \in Conns /\ sock[t].obj # "none" /\ closer[t] = "none"
      BY DEF SocketsInv, Shape
    <3>2. t \in Sockets
      BY <1>1, <3>1
    <3> QED
      BY <1>5, <3>1, <3>2
  <2>2. DOMAIN sock' = Sockets /\ sock' = [t \in Sockets |-> sock'[t]]
    BY <1>2
  <2>3. /\ snd' = [at |-> snd'.at, s |-> snd'.s] /\ snd'.at \in {"idle", "popped", "keeps"}
        /\ IF snd'.at = "idle" THEN snd'.s = Nobody ELSE snd'.s \in Conns
    OBVIOUS
  <2> QED
    BY <1>1, <1>3, <2>1, <2>2, <2>3 DEF SocketsInv, Shape
<1>7. Counted'
  BY <1>5 DEF SocketsInv, Counted, Live
<1>8. ASSUME NEW t \in Conns
      PROVE  OfConn(sock'[t], user'[t], closer'[t], SndAt(t)', GcAt(t)')
  <2>1. CASE t = s
    BY <1>3, <1>4, <2>1
  <2>2. CASE t # s
    <3>1. OfConn(sock[t], user[t], closer[t], SndAt(t), GcAt(t))
      BY DEF SocketsInv
    <3> QED
      BY <1>1, <1>3, <1>4, <2>2, <3>1
  <2> QED
    BY <2>1, <2>2
<1>9. OfLsn(sock'[Lsn], user'[Lsn], closer'[Lsn], SndAt(Lsn)', GcAt(Lsn)')
  BY <1>1, <1>3, <1>4 DEF SocketsInv
<1> QED
  BY <1>6, <1>7, <1>8, <1>9 DEF SocketsInv

(* What the invariant says of one connection. *)
LEMMA ConnIs ==
  ASSUME SocketsInv, NEW s \in Conns
  PROVE  /\ OfConn(sock[s], user[s], closer[s], SndAt(s), GcAt(s))
         /\ sock = [sock EXCEPT ![s] = sock[s]] /\ user = [user EXCEPT ![s] = user[s]]
         /\ closer = [closer EXCEPT ![s] = closer[s]]
         /\ s \in queue => closer[s] = "none" /\ sock[s].obj # "none"
  BY DEF SocketsInv, Shape

-----------------------------------------------------------------------------
(* The actions.                                                            *)

(* CRcvQueue::worker takes a new entry over, processes a packet or a       *)
(* timer, or lets a connection go.                                         *)
LEMMA RcvKeeps ==
  ASSUME SocketsInv, NEW s \in Conns, RcvInserts(s) \/ RcvProcesses(s) \/ RcvRemoves(s)
  PROVE  SocketsInv'
<1> DEFINE r == sock[s]
           u == user[s]
           c == closer[s]
           n == SndAt(s)
           g == GcAt(s)
<1>0. OfConn(r, u, c, n, g) /\ (s \in queue => c = "none")
  BY ConnIs
<1>1. /\ user' = [user EXCEPT ![s] = u] /\ closer' = [closer EXCEPT ![s] = c]
      /\ queue' = queue /\ UNCHANGED <<listener, muxRef, snd, rcv, gc>>
  BY ConnIs DEF RcvInserts, RcvProcesses, RcvRemoves
<1>2. ASSUME NEW q, sock' = [sock EXCEPT ![s] = q], OfConn(q, u, c, n, g), q.obj = r.obj
      PROVE  SocketsInv'
  BY <1>0, <1>1, <1>2, OneConn
<1>3. CASE RcvInserts(s)
  <2> DEFINE q == [r EXCEPT !.node = "on"]
  <2>1. sock' = [sock EXCEPT ![s] = q] /\ r.node = "new"
    BY <1>3 DEF RcvInserts
  <2> HIDE DEF r, u, c, n, g
  <2>2. OfConn(q, u, c, n, g) /\ q.obj = r.obj
    BY <1>0, <2>1, Inserted
  <2> QED
    BY <1>2, <2>1, <2>2
<1>4. CASE RcvRemoves(s)
  <2> DEFINE q == [r EXCEPT !.node = "off"]
  <2>1. sock' = [sock EXCEPT ![s] = q] /\ r.node = "on" /\ ~(r.connected /\ ~r.broken /\ ~r.closing)
    BY <1>4 DEF RcvRemoves, Working
  <2> HIDE DEF r, u, c, n, g
  <2>2. OfConn(q, u, c, n, g) /\ q.obj = r.obj
    BY <1>0, <2>1, Removed
  <2> QED
    BY <1>2, <2>1, <2>2
<1>5. CASE RcvProcesses(s)
  <2>1. r.node = "on" /\ r.connected /\ ~r.broken /\ ~r.closing
    BY <1>5 DEF RcvProcesses, Working
  <2>2. CASE sock' = [sock EXCEPT ![s].avail = TRUE]
    <3> DEFINE q == [r EXCEPT !.avail = TRUE]
    <3>1. sock' = [sock EXCEPT ![s] = q]
      BY <2>2
    <3> HIDE DEF r, u, c, n, g
    <3>2. OfConn(q, u, c, n, g) /\ q.obj = r.obj
      BY <1>0, <2>1, GotData
    <3> QED
      BY <1>2, <3>1, <3>2
  <2>3. CASE sock' = [sock EXCEPT ![s].buf = "empty", ![s].heap = TRUE]
    <3> DEFINE q == [r EXCEPT !.buf = "empty", !.heap = TRUE]
    <3>1. sock' = [sock EXCEPT ![s] = q]
      BY <2>3
    <3> HIDE DEF r, u, c, n, g
    <3>2. OfConn(q, u, c, n, g) /\ q.obj = r.obj
      BY <1>0, <2>1, Acked
    <3> QED
      BY <1>2, <3>1, <3>2
  <2>4. CASE sock' = [sock EXCEPT ![s].buf = "unsent", ![s].heap = TRUE]
    <3> DEFINE q == [r EXCEPT !.buf = "unsent", !.heap = TRUE]
    <3>1. sock' = [sock EXCEPT ![s] = q]
      BY <2>4
    <3> HIDE DEF r, u, c, n, g
    <3>2. OfConn(q, u, c, n, g) /\ q.obj = r.obj
      BY <1>0, <2>1, Unacked
    <3> QED
      BY <1>2, <3>1, <3>2
  <2>5. ASSUME NEW h \in {sock[s].heap, TRUE},
               sock' = [sock EXCEPT ![s].broken = TRUE, ![s].closing = TRUE,
                                    ![s].wait = BrokenWait, ![s].heap = h]
        PROVE  SocketsInv'
    <3> DEFINE q == [r EXCEPT !.broken = TRUE, !.closing = TRUE, !.wait = BrokenWait, !.heap = h]
    <3>1. sock' = [sock EXCEPT ![s] = q]
      BY <2>5
    <3>2. r.heap \in BOOLEAN
      BY <1>0 DEF OfConn, SockRec
    <3>3. h \in BOOLEAN
      BY <2>5, <3>2
    <3> HIDE DEF r, u, c, n, g
    <3>4. OfConn(q, u, c, n, g) /\ q.obj = r.obj
      BY <1>0, <2>1, <3>3, Breaks
    <3> QED
      BY <1>2, <3>1, <3>4
  <2> QED
    BY <1>5, <2>2, <2>3, <2>4, <2>5 DEF RcvProcesses
<1> QED
  BY <1>3, <1>4, <1>5

(* RequestBegins, RequestRejected, and steps that change nothing. *)
LEMMA RcvTurns ==
  ASSUME SocketsInv, RequestBegins \/ RequestRejected \/ UNCHANGED vars
  PROVE  SocketsInv'
<1>1. /\ UNCHANGED <<sock, queue, listener, muxRef, user, closer, snd, gc>>
      /\ rcv' \in {"idle", "request"} /\ (rcv' = "request" => listener)
  BY DEF RequestBegins, RequestRejected, vars, SocketsInv, Shape
<1>2. Shape'
  BY <1>1 DEF SocketsInv, Shape
<1>3. Counted'
  BY <1>1 DEF SocketsInv, Counted, Live
<1>4. \A t : SndAt(t)' = SndAt(t) /\ GcAt(t)' = GcAt(t)
  BY <1>1 DEF SndAt, GcAt
<1> QED
  BY <1>1, <1>2, <1>3, <1>4 DEF SocketsInv

(* A connection of the same peer is closed. *)
LEMMA ReplaceKeeps ==
  ASSUME SocketsInv, NEW s \in Conns, ReplacesOld(s)
  PROVE  SocketsInv'
<1> DEFINE r == sock[s]
           u == user[s]
           c == closer[s]
           n == SndAt(s)
           g == GcAt(s)
           q == Closed(r)
<1>0. OfConn(r, u, c, n, g) /\ (s \in queue => c = "none" /\ r.obj # "none")
  BY ConnIs
<1>1. /\ sock' = [sock EXCEPT ![s] = q] /\ user' = [user EXCEPT ![s] = u]
      /\ closer' = [closer EXCEPT ![s] = c] /\ queue' \subseteq queue
      /\ (s \in queue' => c = "none") /\ UNCHANGED <<listener, muxRef, snd, rcv, gc>>
  BY <1>0, ConnIs DEF ReplacesOld
<1>2. r.map = "open" /\ r.broken
  BY <1>0 DEF ReplacesOld
<1>3. q.obj = r.obj /\ OfConn(q, u, c, n, g)
  <2> HIDE DEF r, u, c, n, g
  <2> QED
    BY <1>0, <1>2, Replaced
<1> QED
  BY <1>1, <1>3, OneConn

(* accept *)
LEMMA AcceptKeeps ==
  ASSUME SocketsInv, NEW s \in Conns, AcceptPops(s)
  PROVE  SocketsInv'
<1> DEFINE r == sock[s]
           u == user[s]
           c == closer[s]
           n == SndAt(s)
           g == GcAt(s)
           q == r
<1>0. OfConn(r, u, c, n, g) /\ (s \in queue => c = "none" /\ r.obj # "none")
  BY ConnIs
<1>1. /\ sock' = [sock EXCEPT ![s] = q] /\ user' = [user EXCEPT ![s] = u]
      /\ closer' = [closer EXCEPT ![s] = "may"] /\ queue' \subseteq queue
      /\ (s \in queue' => "may" = "none") /\ UNCHANGED <<listener, muxRef, snd, rcv, gc>>
  BY <1>0, ConnIs DEF AcceptPops
<1>2. c = "none" /\ r.obj # "none"
  BY <1>0 DEF AcceptPops
<1>3. q.obj = r.obj /\ OfConn(q, u, "may", n, g)
  <2> HIDE DEF r, u, c, n, g
  <2> QED
    BY <1>0, <1>2, IsAccepted
<1> QED
  BY <1>1, <1>3, OneConn

(* The application's send and receive. *)
LEMMA LocateKeeps ==
  ASSUME SocketsInv, NEW s \in Conns, ApiLocates(s)
  PROVE  SocketsInv'
<1> DEFINE r == sock[s]
           u == user[s]
           c == closer[s]
           n == SndAt(s)
           g == GcAt(s)
           q == r
<1>0. OfConn(r, u, c, n, g) /\ (s \in queue => c = "none" /\ r.obj # "none")
  BY ConnIs
<1>1. /\ sock' = [sock EXCEPT ![s] = q] /\ user' = [user EXCEPT ![s] = "in"]
      /\ closer' = [closer EXCEPT ![s] = c] /\ queue' \subseteq queue
      /\ (s \in queue' => c = "none") /\ UNCHANGED <<listener, muxRef, snd, rcv, gc>>
  BY <1>0, ConnIs DEF ApiLocates, Located
<1>2. r.map = "open"
  BY <1>0 DEF ApiLocates, Located
<1>3. q.obj = r.obj /\ OfConn(q, "in", c, n, g)
  <2> HIDE DEF r, u, c, n, g
  <2> QED
    BY <1>0, <1>2, IsLocated
<1> QED
  BY <1>1, <1>3, OneConn

(* srt_recvmsg2 reads. *)
LEMMA ReceiveKeeps ==
  ASSUME SocketsInv, NEW s \in Conns, ApiReceives(s)
  PROVE  SocketsInv'
<1> DEFINE r == sock[s]
           u == user[s]
           c == closer[s]
           n == SndAt(s)
           g == GcAt(s)
           q == [r EXCEPT !.avail = FALSE]
<1>0. OfConn(r, u, c, n, g) /\ (s \in queue => c = "none" /\ r.obj # "none")
  BY ConnIs
<1>1. /\ sock' = [sock EXCEPT ![s] = q] /\ user' = [user EXCEPT ![s] = "out"]
      /\ closer' = [closer EXCEPT ![s] = c] /\ queue' \subseteq queue
      /\ (s \in queue' => c = "none") /\ UNCHANGED <<listener, muxRef, snd, rcv, gc>>
  BY <1>0, ConnIs DEF ApiReceives
<1>2. u # "out"
  BY <1>0 DEF ApiReceives
<1>3. q.obj = r.obj /\ OfConn(q, "out", c, n, g)
  <2> HIDE DEF r, u, c, n, g
  <2> QED
    BY <1>0, <1>2, Received
<1> QED
  BY <1>1, <1>3, OneConn

(* A call that finds the connection down. *)
LEMMA FailKeeps ==
  ASSUME SocketsInv, NEW s \in Conns, ApiFails(s)
  PROVE  SocketsInv'
<1> DEFINE r == sock[s]
           u == user[s]
           c == closer[s]
           n == SndAt(s)
           g == GcAt(s)
           q == r
<1>0. OfConn(r, u, c, n, g) /\ (s \in queue => c = "none" /\ r.obj # "none")
  BY ConnIs
<1>1. /\ sock' = [sock EXCEPT ![s] = q] /\ user' = [user EXCEPT ![s] = "out"]
      /\ closer' = [closer EXCEPT ![s] = c] /\ queue' \subseteq queue
      /\ (s \in queue' => c = "none") /\ UNCHANGED <<listener, muxRef, snd, rcv, gc>>
  BY <1>0, ConnIs DEF ApiFails
<1>2. u # "out"
  BY <1>0 DEF ApiFails
<1>3. q.obj = r.obj /\ OfConn(q, "out", c, n, g)
  <2> HIDE DEF r, u, c, n, g
  <2> QED
    BY <1>0, <1>2, IsChecked
<1> QED
  BY <1>1, <1>3, OneConn

(* srt_sendmsg2 passes its checks. *)
LEMMA CheckKeeps ==
  ASSUME SocketsInv, NEW s \in Conns, ApiChecks(s)
  PROVE  SocketsInv'
<1> DEFINE r == sock[s]
           u == user[s]
           c == closer[s]
           n == SndAt(s)
           g == GcAt(s)
           q == r
<1>0. OfConn(r, u, c, n, g) /\ (s \in queue => c = "none" /\ r.obj # "none")
  BY ConnIs
<1>1. /\ sock' = [sock EXCEPT ![s] = q] /\ user' = [user EXCEPT ![s] = "checked"]
      /\ closer' = [closer EXCEPT ![s] = c] /\ queue' \subseteq queue
      /\ (s \in queue' => c = "none") /\ UNCHANGED <<listener, muxRef, snd, rcv, gc>>
  BY <1>0, ConnIs DEF ApiChecks
<1>2. u # "out"
  BY <1>0 DEF ApiChecks
<1>3. q.obj = r.obj /\ OfConn(q, "checked", c, n, g)
  <2> HIDE DEF r, u, c, n, g
  <2> QED
    BY <1>0, <1>2, IsChecked
<1> QED
  BY <1>1, <1>3, OneConn

(* srt_sendmsg2 submits. *)
LEMMA SendKeeps ==
  ASSUME SocketsInv, NEW s \in Conns, ApiSends(s)
  PROVE  SocketsInv'
<1> DEFINE r == sock[s]
           u == user[s]
           c == closer[s]
           n == SndAt(s)
           g == GcAt(s)
           q == [r EXCEPT !.buf = "unsent", !.heap = TRUE]
<1>0. OfConn(r, u, c, n, g) /\ (s \in queue => c = "none" /\ r.obj # "none")
  BY ConnIs
<1>1. /\ sock' = [sock EXCEPT ![s] = q] /\ user' = [user EXCEPT ![s] = "out"]
      /\ closer' = [closer EXCEPT ![s] = c] /\ queue' \subseteq queue
      /\ (s \in queue' => c = "none") /\ UNCHANGED <<listener, muxRef, snd, rcv, gc>>
  BY <1>0, ConnIs DEF ApiSends
<1>2. u = "checked"
  BY <1>0 DEF ApiSends
<1>3. q.obj = r.obj /\ OfConn(q, "out", c, n, g)
  <2> HIDE DEF r, u, c, n, g
  <2> QED
    BY <1>0, <1>2, Submitted
<1> QED
  BY <1>1, <1>3, OneConn

(* srt_close finds the connection. *)
LEMMA AcquireKeeps ==
  ASSUME SocketsInv, NEW s \in Conns, CloseAcquires(s), Located(s)
  PROVE  SocketsInv'
<1> DEFINE r == sock[s]
           u == user[s]
           c == closer[s]
           n == SndAt(s)
           g == GcAt(s)
           q == [r EXCEPT !.busy = @ + 1]
<1>0. OfConn(r, u, c, n, g) /\ (s \in queue => c = "none" /\ r.obj # "none")
  BY ConnIs
<1>1. /\ sock' = [sock EXCEPT ![s] = q] /\ user' = [user EXCEPT ![s] = u]
      /\ closer' = [closer EXCEPT ![s] = "acquired"] /\ queue' \subseteq queue
      /\ (s \in queue' => "acquired" = "none")
      /\ UNCHANGED <<listener, muxRef, snd, rcv, gc>>
  BY <1>0, ConnIs DEF CloseAcquires, Located
<1>2. c = "may" /\ r.map = "open"
  BY <1>0 DEF CloseAcquires, Located
<1>3. q.obj = r.obj /\ OfConn(q, u, "acquired", n, g)
  <2> HIDE DEF r, u, c, n, g
  <2> QED
    BY <1>0, <1>2, Acquired
<1> QED
  BY <1>1, <1>3, OneConn

(* srt_close does not find it. *)
LEMMA MissKeeps ==
  ASSUME SocketsInv, NEW s \in Conns, CloseAcquires(s), ~Located(s)
  PROVE  SocketsInv'
<1> DEFINE r == sock[s]
           u == user[s]
           c == closer[s]
           n == SndAt(s)
           g == GcAt(s)
           q == r
<1>0. OfConn(r, u, c, n, g) /\ (s \in queue => c = "none" /\ r.obj # "none")
  BY ConnIs
<1>1. /\ sock' = [sock EXCEPT ![s] = q] /\ user' = [user EXCEPT ![s] = u]
      /\ closer' = [closer EXCEPT ![s] = "done"] /\ queue' \subseteq queue
      /\ (s \in queue' => "done" = "none") /\ UNCHANGED <<listener, muxRef, snd, rcv, gc>>
  BY <1>0, ConnIs DEF CloseAcquires
<1>2. c = "may"
  BY <1>0 DEF CloseAcquires
<1>3. q.obj = r.obj /\ OfConn(q, u, "done", n, g)
  <2> HIDE DEF r, u, c, n, g
  <2> QED
    BY <1>0, <1>2, IsNotFound
<1> QED
  BY <1>1, <1>3, OneConn

(* srt_close of a connection that was taken down before. *)
LEMMA BeginDownKeeps ==
  ASSUME SocketsInv, NEW s \in Conns, CloseBegins(s), ~sock[s].opened
  PROVE  SocketsInv'
<1> DEFINE r == sock[s]
           u == user[s]
           c == closer[s]
           n == SndAt(s)
           g == GcAt(s)
           q == [r EXCEPT !.status = "closing"]
<1>0. OfConn(r, u, c, n, g) /\ (s \in queue => c = "none" /\ r.obj # "none")
  BY ConnIs
<1>1. /\ sock' = [sock EXCEPT ![s] = q] /\ user' = [user EXCEPT ![s] = u]
      /\ closer' = [closer EXCEPT ![s] = "manager"] /\ queue' \subseteq queue
      /\ (s \in queue' => "manager" = "none") /\ UNCHANGED <<listener, muxRef, snd, rcv, gc>>
  BY <1>0, ConnIs DEF CloseBegins, ClosedInternally
<1>2. c = "acquired" /\ ~r.opened
  BY <1>0 DEF CloseBegins, ClosedInternally
<1>3. q.obj = r.obj /\ OfConn(q, u, "manager", n, g)
  <2> HIDE DEF r, u, c, n, g
  <2> QED
    BY <1>0, <1>2, BegunDown
<1> QED
  BY <1>1, <1>3, OneConn

(* srt_close with data left. *)
LEMMA BeginLingerKeeps ==
  ASSUME SocketsInv, NEW s \in Conns, CloseBegins(s), sock[s].opened, HasToLinger(sock[s])
  PROVE  SocketsInv'
<1> DEFINE r == sock[s]
           u == user[s]
           c == closer[s]
           n == SndAt(s)
           g == GcAt(s)
           q == Lingering([r EXCEPT !.status = "closing"])
<1>0. OfConn(r, u, c, n, g) /\ (s \in queue => c = "none" /\ r.obj # "none")
  BY ConnIs
<1>1. /\ sock' = [sock EXCEPT ![s] = q] /\ user' = [user EXCEPT ![s] = u]
      /\ closer' = [closer EXCEPT ![s] = "manager"] /\ queue' \subseteq queue
      /\ (s \in queue' => "manager" = "none") /\ UNCHANGED <<listener, muxRef, snd, rcv, gc>>
  BY <1>0, ConnIs DEF CloseBegins, ClosedInternally, HasToLinger
<1>2. c = "acquired" /\ HasToLinger(r)
  BY <1>0 DEF CloseBegins, ClosedInternally, HasToLinger
<1>3. q.obj = r.obj /\ OfConn(q, u, "manager", n, g)
  <2> HIDE DEF r, u, c, n, g
  <2> QED
    BY <1>0, <1>2, BegunLingering
<1> QED
  BY <1>1, <1>3, OneConn

(* srt_close with nothing left. *)
LEMMA BeginCloseKeeps ==
  ASSUME SocketsInv, NEW s \in Conns, CloseBegins(s), sock[s].opened, ~HasToLinger(sock[s])
  PROVE  SocketsInv'
<1> DEFINE r == sock[s]
           u == user[s]
           c == closer[s]
           n == SndAt(s)
           g == GcAt(s)
           q == Unscheduled([r EXCEPT !.status = "closing"])
<1>0. OfConn(r, u, c, n, g) /\ (s \in queue => c = "none" /\ r.obj # "none")
  BY ConnIs
<1>1. /\ sock' = [sock EXCEPT ![s] = q] /\ user' = [user EXCEPT ![s] = u]
      /\ closer' = [closer EXCEPT ![s] = "closing"] /\ queue' \subseteq queue
      /\ (s \in queue' => "closing" = "none") /\ UNCHANGED <<listener, muxRef, snd, rcv, gc>>
  BY <1>0, ConnIs DEF CloseBegins, HasToLinger
<1>2. c = "acquired" /\ r.opened /\ ~HasToLinger(r)
  BY <1>0 DEF CloseBegins, HasToLinger
<1>3. q.obj = r.obj /\ OfConn(q, u, "closing", n, g)
  <2> HIDE DEF r, u, c, n, g
  <2> QED
    BY <1>0, <1>2, BegunClosing
<1> QED
  BY <1>1, <1>3, OneConn

(* srt_close tells the peer. *)
LEMMA FinishKeeps ==
  ASSUME SocketsInv, NEW s \in Conns, CloseFinishes(s)
  PROVE  SocketsInv'
<1> DEFINE r == sock[s]
           u == user[s]
           c == closer[s]
           n == SndAt(s)
           g == GcAt(s)
           q == SetDown(r)
<1>0. OfConn(r, u, c, n, g) /\ (s \in queue => c = "none" /\ r.obj # "none")
  BY ConnIs
<1>1. /\ sock' = [sock EXCEPT ![s] = q] /\ user' = [user EXCEPT ![s] = u]
      /\ closer' = [closer EXCEPT ![s] = "manager"] /\ queue' \subseteq queue
      /\ (s \in queue' => "manager" = "none") /\ UNCHANGED <<listener, muxRef, snd, rcv, gc>>
  BY <1>0, ConnIs DEF CloseFinishes
<1>2. c = "closing"
  BY <1>0 DEF CloseFinishes
<1>3. q.obj = r.obj /\ OfConn(q, u, "manager", n, g)
  <2> HIDE DEF r, u, c, n, g
  <2> QED
    BY <1>0, <1>2, ClosedDown
<1> QED
  BY <1>1, <1>3, OneConn

(* srt_close moves the socket to m_ClosedSockets. *)
LEMMA MoveKeeps ==
  ASSUME SocketsInv, NEW s \in Conns, CloseMoves(s), Located(s)
  PROVE  SocketsInv'
<1> DEFINE r == sock[s]
           u == user[s]
           c == closer[s]
           n == SndAt(s)
           g == GcAt(s)
           q == [[Closed(r) EXCEPT !.map = "closed"] EXCEPT !.busy = @ - 1]
<1>0. OfConn(r, u, c, n, g) /\ (s \in queue => c = "none" /\ r.obj # "none")
  BY ConnIs
<1>1. /\ sock' = [sock EXCEPT ![s] = q] /\ user' = [user EXCEPT ![s] = u]
      /\ closer' = [closer EXCEPT ![s] = "done"] /\ queue' \subseteq queue
      /\ (s \in queue' => "done" = "none") /\ UNCHANGED <<listener, muxRef, snd, rcv, gc>>
  BY <1>0, ConnIs DEF CloseMoves, Located
<1>2. c = "manager" /\ r.map = "open"
  BY <1>0 DEF CloseMoves, Located
<1>3. q.obj = r.obj /\ OfConn(q, u, "done", n, g)
  <2> HIDE DEF r, u, c, n, g
  <2> QED
    BY <1>0, <1>2, MovedByClose
<1> QED
  BY <1>1, <1>3, OneConn

(* srt_close finds it moved. *)
LEMMA LeaveKeeps ==
  ASSUME SocketsInv, NEW s \in Conns, CloseMoves(s), ~Located(s)
  PROVE  SocketsInv'
<1> DEFINE r == sock[s]
           u == user[s]
           c == closer[s]
           n == SndAt(s)
           g == GcAt(s)
           q == [r EXCEPT !.busy = @ - 1]
<1>0. OfConn(r, u, c, n, g) /\ (s \in queue => c = "none" /\ r.obj # "none")
  BY ConnIs
<1>1. /\ sock' = [sock EXCEPT ![s] = q] /\ user' = [user EXCEPT ![s] = u]
      /\ closer' = [closer EXCEPT ![s] = "done"] /\ queue' \subseteq queue
      /\ (s \in queue' => "done" = "none") /\ UNCHANGED <<listener, muxRef, snd, rcv, gc>>
  BY <1>0, ConnIs DEF CloseMoves
<1>2. c = "manager"
  BY <1>0 DEF CloseMoves
<1>3. q.obj = r.obj /\ OfConn(q, u, "done", n, g)
  <2> HIDE DEF r, u, c, n, g
  <2> QED
    BY <1>0, <1>2, LeftByClose
<1> QED
  BY <1>1, <1>3, OneConn

(* A second passes. *)
LEMMA AgeKeeps ==
  ASSUME SocketsInv, NEW s \in Conns, Ages(s), ~Stalls
  PROVE  SocketsInv'
<1> DEFINE r == sock[s]
           u == user[s]
           c == closer[s]
           n == SndAt(s)
           g == GcAt(s)
           q == [r EXCEPT !.aged = TRUE]
<1>0. OfConn(r, u, c, n, g) /\ (s \in queue => c = "none" /\ r.obj # "none")
  BY ConnIs
<1>1. /\ sock' = [sock EXCEPT ![s] = q] /\ user' = [user EXCEPT ![s] = u]
      /\ closer' = [closer EXCEPT ![s] = c] /\ queue' \subseteq queue
      /\ (s \in queue' => c = "none") /\ UNCHANGED <<listener, muxRef, snd, rcv, gc>>
  BY <1>0, ConnIs DEF Ages, SndAt
<1>2. u = "out" /\ n = "idle" /\ r.map = "closed" /\ ~r.heap
  BY <1>0 DEF Ages, SndAt
<1>3. q.obj = r.obj /\ OfConn(q, u, c, n, g)
  <2> HIDE DEF r, u, c, n, g
  <2> QED
    BY <1>0, <1>2, GrowsOld
<1> QED
  BY <1>1, <1>3, OneConn

(* The linger time passes. *)
LEMMA ExpireKeeps ==
  ASSUME SocketsInv, NEW s \in Conns, LingerExpires(s)
  PROVE  SocketsInv'
<1> DEFINE r == sock[s]
           u == user[s]
           c == closer[s]
           n == SndAt(s)
           g == GcAt(s)
           q == [r EXCEPT !.linger = "over"]
<1>0. OfConn(r, u, c, n, g) /\ (s \in queue => c = "none" /\ r.obj # "none")
  BY ConnIs
<1>1. /\ sock' = [sock EXCEPT ![s] = q] /\ user' = [user EXCEPT ![s] = u]
      /\ closer' = [closer EXCEPT ![s] = c] /\ queue' \subseteq queue
      /\ (s \in queue' => c = "none") /\ UNCHANGED <<listener, muxRef, snd, rcv, gc>>
  BY <1>0, ConnIs DEF LingerExpires
<1>2. r.linger = "on"
  BY <1>0 DEF LingerExpires
<1>3. q.obj = r.obj /\ OfConn(q, u, c, n, g)
  <2> HIDE DEF r, u, c, n, g
  <2> QED
    BY <1>0, <1>2, LingersLonger
<1> QED
  BY <1>1, <1>3, OneConn

(* newConnection *)
LEMMA NewKeeps ==
  ASSUME SocketsInv, NEW s \in Conns, NewConnection(s)
  PROVE  SocketsInv'
<1> DEFINE r == sock[s]
           u == user[s]
           c == closer[s]
           n == SndAt(s)
           g == GcAt(s)
           q == [r EXCEPT !.obj = "live", !.map = "open", !.status = "connected",
                          !.opened = TRUE, !.connected = TRUE, !.node = "new"]
<1>0. OfConn(r, u, c, n, g) /\ r.obj = "none" /\ r = Unborn /\ c = "none"
  BY ConnIs DEF NewConnection, OfConn
<1>1. /\ sock' = [sock EXCEPT ![s] = q] /\ queue' = queue \cup {s} /\ muxRef' = muxRef + 1
      /\ rcv' = "idle" /\ UNCHANGED <<listener, user, closer, snd, gc>>
  BY <1>0 DEF NewConnection
<1>2. OfConn(q, u, c, n, g) /\ q.obj = "live"
  <2> HIDE DEF r, u, c, n, g
  <2> QED
    BY <1>0, Born
<1> HIDE DEF q
<1>3. s \in Sockets /\ s # Lsn /\ Lsn \in Sockets /\ Conns \subseteq Sockets
  BY SocketsAssumption DEF Sockets
<1>4. sock = [t \in Sockets |-> sock[t]]
  BY DEF SocketsInv, Shape
<1>5. sock'[s] = q /\ \A t \in Sockets : t # s => sock'[t] = sock[t]
  BY <1>1, <1>3, <1>4
<1>6. \A t : SndAt(t)' = SndAt(t) /\ GcAt(t)' = GcAt(t)
  BY <1>1 DEF SndAt, GcAt
<1>7. Shape'
  <2>1. queue' \subseteq {t \in Conns : sock'[t].obj # "none" /\ closer'[t] = "none"}
    <3> SUFFICES ASSUME NEW t \in queue'
                 PROVE  t \in Conns /\ sock'[t].obj # "none" /\ closer'[t] = "none"
      OBVIOUS
    <3>1. CASE t = s
      BY <1>0, <1>1, <1>2, <1>5, <3>1
    <3>2. CASE t # s
      <4>1. t \in Conns /\ sock[t].obj # "none" /\ closer[t] = "none"
        BY <1>1, <3>2 DEF SocketsInv, Shape
      <4> QED
        BY <1>1, <1>3, <1>5, <3>2, <4>1
    <3> QED
      BY <3>1, <3>2
  <2>2. DOMAIN sock' = Sockets /\ sock' = [t \in Sockets |-> sock'[t]]
    BY <1>1, <1>4
  <2> QED
    BY <1>1, <2>1, <2>2 DEF SocketsInv, Shape
<1>8. Counted'
  <2> DEFINE L == {t \in Sockets : Live(t)}
  <2>1. IsFiniteSet(Sockets)
    BY SocketsAssumption, FS_AddElement DEF Sockets
  <2>2. IsFiniteSet(L) /\ s \notin L
    BY <1>0, <2>1, FS_Subset DEF Live
  <2>3. {t \in Sockets : Live(t)}' = L \cup {s}
    BY <1>2, <1>3, <1>5 DEF Live
  <2>4. Cardinality(L \cup {s}) = Cardinality(L) + 1
    BY <2>2, FS_AddElement
  <2>5. muxRef = Cardinality(L)
    BY DEF SocketsInv, Counted
  <2> HIDE DEF L
  <2> QED
    BY <1>1, <2>3, <2>4, <2>5 DEF Counted
<1>9. ASSUME NEW t \in Conns
      PROVE  OfConn(sock'[t], user'[t], closer'[t], SndAt(t)', GcAt(t)')
  <2>1. CASE t = s
    BY <1>1, <1>2, <1>5, <1>6, <2>1
  <2>2. CASE t # s
    <3>1. OfConn(sock[t], user[t], closer[t], SndAt(t), GcAt(t))
      BY DEF SocketsInv
    <3> QED
      BY <1>1, <1>3, <1>5, <1>6, <2>2, <3>1
  <2> QED
    BY <2>1, <2>2
<1>10. OfLsn(sock'[Lsn], user'[Lsn], closer'[Lsn], SndAt(Lsn)', GcAt(Lsn)')
  BY <1>1, <1>3, <1>5, <1>6 DEF SocketsInv
<1> QED
  BY <1>7, <1>8, <1>9, <1>10 DEF SocketsInv

(* CSndQueue::worker *)
LEMMA SndKeepsInv ==
  ASSUME SocketsInv, NEW s \in Conns,
         SndPops(s) \/ SndKeeps(s) \/ SndPacksNothing(s) \/ SndSends(s)
  PROVE  SocketsInv'
<1> DEFINE r == sock[s]
           u == user[s]
           c == closer[s]
           n == SndAt(s)
           g == GcAt(s)
<1>0. OfConn(r, u, c, n, g) /\ sock = [sock EXCEPT ![s] = r]
  BY ConnIs
<1>1. UNCHANGED <<queue, listener, muxRef, user, closer, rcv, gc>>
  BY DEF SndPops, SndKeeps, SndPacksNothing, SndSends
<1>2. ASSUME NEW q, NEW a, sock' = [sock EXCEPT ![s] = q], snd.s \in {Nobody, s},
             \/ a = "idle" /\ snd' = [at |-> "idle", s |-> Nobody]
             \/ a \in {"popped", "keeps"} /\ snd' = [at |-> a, s |-> s],
             q.obj = r.obj /\ OfConn(q, u, c, a, g)
      PROVE  SocketsInv'
  BY <1>1, <1>2, SndStep
<1>3. CASE SndPops(s)
  <2> DEFINE q == [r EXCEPT !.heap = FALSE]
  <2>1. /\ sock' = [sock EXCEPT ![s] = q] /\ r.heap /\ snd' = [at |-> "popped", s |-> s]
        /\ snd.s = Nobody /\ n = "idle"
    BY <1>3, SocketsAssumption DEF SndPops, SocketsInv, Shape, SndAt, Sockets
  <2>2. q.obj = r.obj /\ OfConn(q, u, c, "popped", g)
    <3> HIDE DEF r, u, c, n, g
    <3> QED
      BY <1>0, <2>1, Pops
  <2> HIDE DEF r, u, c, n, g, q
  <2> QED
    BY <1>2, <2>1, <2>2
<1>4. CASE SndKeeps(s)
  <2>1. snd.s = s /\ n = "popped" /\ snd = [at |-> "popped", s |-> s]
    BY <1>4 DEF SndKeeps, SndAt
  <2>2. CASE sock[s].connected /\ ~sock[s].broken /\ Located(s)
    <3> DEFINE q == [r EXCEPT !.busy = @ + 1]
    <3>1. sock' = [sock EXCEPT ![s] = q] /\ r.map = "open" /\ snd' = [at |-> "keeps", s |-> s]
      BY <1>4, <2>1, <2>2 DEF SndKeeps, Located
    <3>2. q.obj = r.obj /\ OfConn(q, u, c, "keeps", g)
      <4> HIDE DEF r, u, c, n, g
      <4> QED
        BY <1>0, <2>1, <3>1, KeptBusy
    <3> HIDE DEF r, u, c, n, g, q
    <3> QED
      BY <1>2, <2>1, <3>1, <3>2
  <2>3. CASE ~(sock[s].connected /\ ~sock[s].broken /\ Located(s))
    <3>1. sock' = sock /\ snd' = [at |-> "idle", s |-> Nobody]
      BY <1>4, <2>3 DEF SndKeeps
    <3>2. OfConn(r, u, c, "idle", g)
      <4> HIDE DEF r, u, c, n, g
      <4> QED
        BY <1>0, <2>1, IsLetGo
    <3> HIDE DEF r, u, c, n, g
    <3> QED
      BY <1>0, <1>2, <2>1, <3>1, <3>2
  <2> QED
    BY <2>2, <2>3
<1>5. CASE SndPacksNothing(s)
  <2> DEFINE q == [r EXCEPT !.busy = @ - 1]
  <2>1. /\ sock' = [sock EXCEPT ![s] = q] /\ snd' = [at |-> "idle", s |-> Nobody]
        /\ snd.s = s /\ n = "keeps"
    BY <1>5 DEF SndPacksNothing, SndAt
  <2>2. q.obj = r.obj /\ OfConn(q, u, c, "idle", g)
    <3> HIDE DEF r, u, c, n, g
    <3> QED
      BY <1>0, <2>1, NothingPacked
  <2> HIDE DEF r, u, c, n, g, q
  <2> QED
    BY <1>2, <2>1, <2>2
<1>6. CASE SndSends(s)
  <2> DEFINE q == [r EXCEPT !.buf = "sent", !.heap = TRUE, !.busy = @ - 1]
  <2>1. /\ sock' = [sock EXCEPT ![s] = q] /\ snd' = [at |-> "idle", s |-> Nobody]
        /\ snd.s = s /\ n = "keeps" /\ r.buf = "unsent"
    BY <1>6 DEF SndSends, SndAt
  <2>2. q.obj = r.obj /\ OfConn(q, u, c, "idle", g)
    <3> HIDE DEF r, u, c, n, g
    <3> QED
      BY <1>0, <2>1, Sent
  <2> HIDE DEF r, u, c, n, g, q
  <2> QED
    BY <1>2, <2>1, <2>2
<1> QED
  BY <1>3, <1>4, <1>5, <1>6
-----------------------------------------------------------------------------
(* The listener. *)
LEMMA LsnStep ==
  ASSUME SocketsInv, NEW q, NEW d,
         sock' = [sock EXCEPT ![Lsn] = q], closer' = [closer EXCEPT ![Lsn] = d],
         listener' = (d # "done"), rcv = "request" => d # "done",
         UNCHANGED <<queue, muxRef, user, snd, rcv, gc>>, q.obj = sock[Lsn].obj,
         OfLsn(q, user[Lsn], d, SndAt(Lsn), GcAt(Lsn))
  PROVE  SocketsInv'
<1>1. Lsn \in Sockets /\ Lsn \notin Conns /\ Conns \subseteq Sockets
  BY SocketsAssumption DEF Sockets
<1>2. sock = [t \in Sockets |-> sock[t]] /\ closer = [t \in Sockets |-> closer[t]]
  BY DEF SocketsInv, Shape
<1>3. /\ sock'[Lsn] = q /\ closer'[Lsn] = d
      /\ \A t \in Conns : sock'[t] = sock[t] /\ closer'[t] = closer[t]
  BY <1>1, <1>2
<1>4. \A t : SndAt(t)' = SndAt(t) /\ GcAt(t)' = GcAt(t)
  BY DEF SndAt, GcAt
<1>5. \A t \in Sockets : sock'[t].obj = sock[t].obj
  BY <1>3 DEF Sockets
<1>6. Shape'
  <2>1. queue' \subseteq {t \in Conns : sock'[t].obj # "none" /\ closer'[t] = "none"}
    BY <1>3 DEF SocketsInv, Shape
  <2>2. /\ DOMAIN sock' = Sockets /\ sock' = [t \in Sockets |-> sock'[t]]
        /\ closer' = [t \in Sockets |-> closer'[t]]
    BY <1>2
  <2> QED
    BY <1>1, <1>3, <2>1, <2>2 DEF SocketsInv, Shape
<1>7. Counted'
  BY <1>5 DEF SocketsInv, Counted, Live
<1>8. ASSUME NEW t \in Conns
      PROVE  OfConn(sock'[t], user'[t], closer'[t], SndAt(t)', GcAt(t)')
  BY <1>3, <1>4 DEF SocketsInv
<1>9. OfLsn(sock'[Lsn], user'[Lsn], closer'[Lsn], SndAt(Lsn)', GcAt(Lsn)')
  BY <1>3, <1>4
<1> QED
  BY <1>6, <1>7, <1>8, <1>9 DEF SocketsInv

(* srt_close of the listener, and the second after it. *)
LEMMA LsnKeeps ==
  ASSUME SocketsInv, CloseAcquires(Lsn) \/ CloseListener \/ NotListening \/ Ages(Lsn)
  PROVE  SocketsInv'
<1> DEFINE r == sock[Lsn]
           u == user[Lsn]
           c == closer[Lsn]
           n == SndAt(Lsn)
           g == GcAt(Lsn)
<1>0. /\ OfLsn(r, u, c, n, g) /\ listener = (c # "done") /\ (rcv = "request" => listener)
      /\ closer = [closer EXCEPT ![Lsn] = c]
  BY DEF SocketsInv, Shape
<1>1. r \in SockRec /\ UNCHANGED <<queue, muxRef, user, snd, rcv, gc>>
  BY <1>0 DEF OfLsn, CloseAcquires, CloseListener, NotListening, Ages
<1>2. ASSUME NEW q, NEW d, sock' = [sock EXCEPT ![Lsn] = q], closer' = [closer EXCEPT ![Lsn] = d],
             listener' = (d # "done"), rcv = "request" => d # "done", q.obj = r.obj,
             OfLsn(q, u, d, n, g)
      PROVE  SocketsInv'
  BY <1>1, <1>2, LsnStep
<1>3. CASE CloseAcquires(Lsn)
  <2> DEFINE q == [r EXCEPT !.busy = @ + 1]
  <2>1. c = "may" /\ r.map = "open" /\ r.status = "listening" /\ c # "done"
    BY <1>0, <1>3 DEF CloseAcquires, OfLsn
  <2>2. /\ sock' = [sock EXCEPT ![Lsn] = q] /\ closer' = [closer EXCEPT ![Lsn] = "acquired"]
        /\ listener' = ("acquired" # "done")
    BY <1>0, <1>3, <2>1 DEF CloseAcquires, Located
  <2>3. q.obj = r.obj /\ OfLsn(q, u, "acquired", n, g)
    <3> HIDE DEF r, u, c, n, g
    <3>1. /\ q \in SockRec /\ q.obj = r.obj /\ q.map = r.map /\ q.status = r.status
          /\ q.aged = r.aged /\ q.node = r.node /\ q.heap = r.heap /\ q.linger = r.linger
          /\ q.connected = r.connected /\ q.busy = r.busy + 1
      BY <1>1 DEF SockRec
    <3> HIDE DEF q
    <3> QED
      BY <1>0, <2>1, <3>1 DEF OfLsn, Mapped, One, Mid
  <2> HIDE DEF r, u, c, n, g, q
  <2> QED
    BY <1>2, <2>2, <2>3
<1>4. CASE CloseListener
  <2> DEFINE q == [r EXCEPT !.broken = TRUE]
  <2>1. c = "acquired" /\ r.map = "open" /\ r.status = "listening"
    BY <1>0, <1>4 DEF CloseListener, OfLsn
  <2>2. /\ sock' = [sock EXCEPT ![Lsn] = q] /\ closer' = [closer EXCEPT ![Lsn] = "closing"]
        /\ listener' = ("closing" # "done")
    BY <1>0, <1>4, <2>1 DEF CloseListener
  <2>3. q.obj = r.obj /\ OfLsn(q, u, "closing", n, g)
    <3> HIDE DEF r, u, c, n, g
    <3>1. /\ q \in SockRec /\ q.obj = r.obj /\ q.map = r.map /\ q.status = r.status
          /\ q.aged = r.aged /\ q.node = r.node /\ q.heap = r.heap /\ q.linger = r.linger
          /\ q.connected = r.connected /\ q.busy = r.busy
      BY <1>1 DEF SockRec
    <3> HIDE DEF q
    <3> QED
      BY <1>0, <2>1, <3>1 DEF OfLsn, Mapped, One, Mid
  <2> HIDE DEF r, u, c, n, g, q
  <2> QED
    BY <1>2, <2>2, <2>3
<1>5. CASE NotListening
  <2> DEFINE q == [r EXCEPT !.status = "closing", !.busy = @ - 1]
  <2>1. c = "closing" /\ rcv # "request"
    BY <1>5 DEF NotListening
  <2>2. /\ sock' = [sock EXCEPT ![Lsn] = q] /\ closer' = [closer EXCEPT ![Lsn] = "done"]
        /\ listener' = ("done" # "done")
    BY <1>5 DEF NotListening
  <2>3. q.obj = r.obj /\ OfLsn(q, u, "done", n, g)
    <3> HIDE DEF r, u, c, n, g
    <3>1. /\ q.obj = r.obj /\ q.map = r.map
          /\ q.aged = r.aged /\ q.node = r.node /\ q.heap = r.heap /\ q.linger = r.linger
          /\ q.connected = r.connected /\ q.busy = r.busy - 1
      BY <1>1 DEF SockRec
    <3>2. r.busy \in Int /\ r.busy - 1 \in Int
      BY <1>1 DEF SockRec
    <3>3. q \in SockRec
      BY <1>1, <3>2, Zenon DEF SockRec
    <3> HIDE DEF q
    <3> QED
      BY <1>0, <2>1, <3>1, <3>3 DEF OfLsn, Mapped, One, Mid
  <2> HIDE DEF r, u, c, n, g, q
  <2> QED
    BY <1>2, <2>1, <2>2, <2>3
<1>6. CASE Ages(Lsn)
  <2> DEFINE q == [r EXCEPT !.aged = TRUE]
  <2>1. r.map = "closed"
    BY <1>6 DEF Ages
  <2>2. sock' = [sock EXCEPT ![Lsn] = q] /\ closer' = [closer EXCEPT ![Lsn] = c]
    BY <1>0, <1>6 DEF Ages
  <2>3. listener' = (c # "done") /\ (rcv = "request" => c # "done")
    BY <1>0, <1>6 DEF Ages
  <2>4. q.obj = r.obj /\ OfLsn(q, u, c, n, g)
    <3> HIDE DEF r, u, c, n, g
    <3>1. /\ q \in SockRec /\ q.obj = r.obj /\ q.map = r.map /\ q.status = r.status
          /\ q.aged = TRUE /\ q.node = r.node /\ q.heap = r.heap /\ q.linger = r.linger
          /\ q.connected = r.connected /\ q.busy = r.busy
      BY <1>1 DEF SockRec
    <3> HIDE DEF q
    <3> QED
      BY <1>0, <2>1, <3>1 DEF OfLsn, Mapped, One, Mid
  <2> HIDE DEF r, u, c, n, g, q
  <2> QED
    BY <1>2, <2>2, <2>3, <2>4
<1> QED
  BY <1>3, <1>4, <1>5, <1>6
-----------------------------------------------------------------------------
(* The collector.                                                          *)

(* A step of the collector, once what it does to each socket is known. *)
LEMMA GcStep ==
  ASSUME SocketsInv, NEW S, sock' = [t \in Sockets |-> S[t]], queue' \subseteq queue,
         \A t \in Sockets : S[t].obj = sock[t].obj,
         UNCHANGED <<listener, muxRef, user, closer, snd, rcv>>,
         gc' = [at |-> gc'.at, list |-> gc'.list, s |-> gc'.s],
         gc'.at \in {"idle", "remove", "internal", "delete"},
         IF gc'.at \in {"internal", "delete"} THEN gc'.s \in Sockets ELSE gc'.s = Nobody,
         gc'.list \subseteq Sockets, gc'.at = "idle" => gc'.list = {}, gc'.s \notin gc'.list,
         \A t \in Conns : OfConn(S[t], user[t], closer[t], SndAt(t), GcAt(t)'),
         OfLsn(S[Lsn], user[Lsn], closer[Lsn], SndAt(Lsn), GcAt(Lsn)')
  PROVE  SocketsInv'
<1>1. Lsn \in Sockets /\ Conns \subseteq Sockets
  BY DEF Sockets
<1>2. \A t \in Sockets : sock'[t] = S[t] /\ sock'[t].obj = sock[t].obj
  OBVIOUS
<1>3. \A t : SndAt(t)' = SndAt(t)
  BY DEF SndAt
<1>4. Shape'
  <2>1. queue' \subseteq {t \in Conns : sock'[t].obj # "none" /\ closer'[t] = "none"}
    <3> SUFFICES ASSUME NEW t \in queue'
                 PROVE  t \in Conns /\ sock'[t].obj # "none" /\ closer'[t] = "none"
      OBVIOUS
    <3>1. t \in queue /\ t \in Conns /\ sock[t].obj # "none" /\ closer[t] = "none"
      BY DEF SocketsInv, Shape
    <3>2. t \in Sockets
      BY <1>1, <3>1
    <3> QED
      BY <1>2, <3>1, <3>2
  <2>2. DOMAIN sock' = Sockets /\ sock' = [t \in Sockets |-> sock'[t]]
    OBVIOUS
  <2>3. /\ user' = [t \in Sockets |-> user'[t]] /\ closer' = [t \in Sockets |-> closer'[t]]
        /\ snd' = [at |-> snd'.at, s |-> snd'.s] /\ snd'.at \in {"idle", "popped", "keeps"}
        /\ IF snd'.at = "idle" THEN snd'.s = Nobody ELSE snd'.s \in Conns
        /\ rcv' \in {"idle", "request"} /\ (rcv' = "request" => listener')
        /\ listener' = (closer'[Lsn] # "done")
    BY DEF SocketsInv, Shape
  <2> QED
    BY <2>1, <2>2, <2>3 DEF Shape
<1>5. Counted'
  BY <1>2 DEF SocketsInv, Counted, Live
<1>6. ASSUME NEW t \in Conns
      PROVE  OfConn(sock'[t], user'[t], closer'[t], SndAt(t)', GcAt(t)')
  BY <1>1, <1>2, <1>3
<1>7. OfLsn(sock'[Lsn], user'[Lsn], closer'[Lsn], SndAt(Lsn)', GcAt(Lsn)')
  BY <1>1, <1>2, <1>3
<1> QED
  BY <1>4, <1>5, <1>6, <1>7 DEF SocketsInv

(* What it says of any socket. *)
LEMMA SocketIs ==
  ASSUME SocketsInv, NEW s \in Sockets
  PROVE  sock[s] \in SockRec /\ (gc.at = "idle" => GcAt(s) = "no")
<1>1. sock[s] \in SockRec
  BY DEF SocketsInv, Sockets, OfConn, OfLsn
<1>2. ASSUME gc.at = "idle"
      PROVE  GcAt(s) = "no"
  BY <1>2, SocketsAssumption DEF SocketsInv, Shape, GcAt
<1> QED
  BY <1>1, <1>2

(* What checkBrokenSockets leaves alone. *)
LEMMA CheckedSame ==
  ASSUME NEW s, sock[s] \in SockRec
  PROVE  /\ Checked(s).obj = sock[s].obj /\ Checked(s).node = sock[s].node
         /\ Checked(s).busy = sock[s].busy
  BY DEF Checked, Moves, Waits, Closed, LingerOver, LingerEnded, SockRec

(* What it does to a connection. *)
LEMMA CheckedConn ==
  ASSUME NEW s, NEW u, NEW c, NEW n, OfConn(sock[s], u, c, n, "no")
  PROVE  OfConn(Checked(s), u, c, n, "no")
<1> DEFINE r == sock[s]
           m == IF Moves(s) THEN [Closed(sock[s]) EXCEPT !.map = "closed"]
                ELSE IF Waits(s) THEN [sock[s] EXCEPT !.wait = @ - 1]
                ELSE sock[s]
<1>1. OfConn(m, u, c, n, "no")
  <2>1. CASE Moves(s)
    <3>1. r.map = "open" /\ r.broken /\ m = [Closed(r) EXCEPT !.map = "closed"]
      BY <2>1 DEF Moves
    <3> HIDE DEF r, m
    <3> QED
      BY <3>1, MovedByScan DEF r
  <2>2. CASE ~Moves(s) /\ Waits(s)
    <3>1. r.map = "open" /\ m = [r EXCEPT !.wait = @ - 1]
      BY <2>2 DEF Waits
    <3> HIDE DEF r, m
    <3> QED
      BY <3>1, GivenTime DEF r
  <2>3. CASE ~Moves(s) /\ ~Waits(s)
    BY <2>3
  <2> QED
    BY <2>1, <2>2, <2>3
<1>2. Checked(s) = IF m.map = "closed" /\ m.busy = 0 /\ LingerOver(m) THEN LingerEnded(m) ELSE m
  BY DEF Checked
<1> HIDE DEF m
<1>3. CASE m.map = "closed" /\ m.busy = 0 /\ LingerOver(m)
  BY <1>1, <1>2, <1>3, LingerDone DEF LingerOver
<1>4. CASE ~(m.map = "closed" /\ m.busy = 0 /\ LingerOver(m))
  BY <1>1, <1>2, <1>4
<1> QED
  BY <1>3, <1>4

(* What it does to the listener. *)
LEMMA CheckedLsn ==
  ASSUME NEW s, NEW u, NEW c, NEW n, OfLsn(sock[s], u, c, n, "no")
  PROVE  OfLsn(Checked(s), u, c, n, "no")
<1> DEFINE r == sock[s]
           q == Checked(s)
<1>1. r \in SockRec /\ r.linger = "no"
  BY DEF OfLsn
<1>2. CASE Moves(s)
  <2>1. q = [Closed(r) EXCEPT !.map = "closed"]
    BY <1>1, <1>2 DEF Checked, LingerOver, Closed, SockRec
  <2>2. r.map = "open" /\ r.status # "listening"
    BY <1>2 DEF Moves
  <2> HIDE DEF r, q
  <2>3. /\ q \in SockRec /\ q.obj = r.obj /\ q.map = "closed"
        /\ q.aged = FALSE /\ q.node = r.node /\ q.heap = r.heap /\ q.linger = r.linger
        /\ q.connected = r.connected /\ q.busy = r.busy
    BY <1>1, <2>1 DEF SockRec, Closed
  <2> QED
    BY <2>2, <2>3 DEF OfLsn, Mapped, One, Mid, r, q
<1>3. CASE ~Moves(s) /\ Waits(s)
  <2>1. q = [r EXCEPT !.wait = @ - 1]
    BY <1>1, <1>3 DEF Checked, LingerOver, SockRec
  <2> HIDE DEF r, q
  <2>3. /\ q \in SockRec /\ q.obj = r.obj /\ q.map = r.map /\ q.status = r.status
        /\ q.aged = r.aged /\ q.node = r.node /\ q.heap = r.heap /\ q.linger = r.linger
        /\ q.connected = r.connected /\ q.busy = r.busy
    BY <1>1, <2>1 DEF SockRec
  <2> QED
    BY <2>3 DEF OfLsn, Mapped, One, Mid, r, q
<1>4. CASE ~Moves(s) /\ ~Waits(s)
  BY <1>1, <1>4 DEF Checked, LingerOver
<1> QED
  BY <1>2, <1>3, <1>4

(* checkBrokenSockets *)
LEMMA ScanKeeps ==
  ASSUME SocketsInv, GcScan
  PROVE  SocketsInv'
<1> DEFINE S == [t \in Sockets |-> Checked(t)]
           list == {s \in Sockets : /\ sock'[s].map = "closed" /\ sock'[s].busy = 0
                                    /\ sock'[s].aged /\ ~OnList(s)}
<1>1. /\ gc.at = "idle" /\ gc.s = Nobody /\ gc = [at |-> gc.at, list |-> gc.list, s |-> gc.s]
      /\ sock' = S /\ queue' \subseteq queue
      /\ UNCHANGED <<listener, muxRef, user, closer, snd, rcv>>
  BY DEF GcScan, SocketsInv, Shape
<1>2. gc' = [gc EXCEPT !.at = IF list = {} THEN "idle" ELSE "remove", !.list = list]
  BY DEF GcScan
<1>3. /\ gc' = [at |-> gc'.at, list |-> gc'.list, s |-> gc'.s]
      /\ gc'.at = IF list = {} THEN "idle" ELSE "remove"
      /\ gc'.list = list /\ gc'.s = Nobody
  BY <1>1, <1>2
<1>4. \A t \in Sockets : GcAt(t)' = IF t \in list THEN "listed" ELSE "no"
  BY <1>3, SocketsAssumption DEF GcAt
<1>5. Lsn \in Sockets /\ Conns \subseteq Sockets /\ Nobody \notin Sockets
  BY SocketsAssumption DEF Sockets
<1>6. ASSUME NEW t \in Sockets
      PROVE  /\ S[t].obj = sock[t].obj
             /\ t \in list => S[t].map = "closed" /\ S[t].aged /\ S[t].node = "off"
  BY <1>1, SocketIs, CheckedSame DEF OnList
<1>7. ASSUME NEW t \in Conns
      PROVE  OfConn(S[t], user[t], closer[t], SndAt(t), GcAt(t)')
  <2> DEFINE u == user[t]
             c == closer[t]
             n == SndAt(t)
             q == S[t]
  <2>1. OfConn(sock[t], u, c, n, "no")
    BY <1>1, <1>5, SocketIs DEF SocketsInv
  <2>2. OfConn(q, u, c, n, "no")
    <3> HIDE DEF u, c, n
    <3> QED
      BY <1>5, <2>1, CheckedConn
  <2>3. t \in list => q.map = "closed" /\ q.aged /\ q.node = "off"
    BY <1>5, <1>6
  <2>4. t \in list => OfConn(q, u, c, n, "listed")
    <3> HIDE DEF u, c, n, q, list
    <3> QED
      BY <2>2, <2>3, IsListed
  <2> HIDE DEF list, S
  <2> QED
    BY <1>4, <1>5, <2>2, <2>4
<1>8. OfLsn(S[Lsn], user[Lsn], closer[Lsn], SndAt(Lsn), GcAt(Lsn)')
  <2> DEFINE u == user[Lsn]
             c == closer[Lsn]
             n == SndAt(Lsn)
             q == S[Lsn]
  <2>1. OfLsn(sock[Lsn], u, c, n, "no")
    BY <1>1, <1>5, SocketIs DEF SocketsInv
  <2>2. OfLsn(q, u, c, n, "no")
    <3> HIDE DEF u, c, n
    <3> QED
      BY <1>5, <2>1, CheckedLsn
  <2>3. Lsn \in list => q.map = "closed" /\ q.aged /\ q.node = "off"
    BY <1>5, <1>6
  <2>4. Lsn \in list => OfLsn(q, u, c, n, "listed")
    <3> HIDE DEF u, c, n, q, list
    <3> QED
      BY <2>2, <2>3 DEF OfLsn, Mapped
  <2> HIDE DEF list, S
  <2> QED
    BY <1>4, <1>5, <2>2, <2>4
<1>9. gc'.list \subseteq Sockets
  BY <1>3
<1>10. sock' = [t \in Sockets |-> S[t]]
  BY <1>1
<1> HIDE DEF S, list
<1> QED
  BY <1>1, <1>3, <1>5, <1>6, <1>7, <1>8, <1>9, <1>10, GcStep

(* removeSocket leaves a socket for a later round, or the round ends. *)
LEMMA SkipKeeps ==
  ASSUME SocketsInv, GcEnds \/ \E s \in Sockets : GcSkips(s)
  PROVE  SocketsInv'
<1>1. /\ gc = [at |-> gc.at, list |-> gc.list, s |-> gc.s] /\ gc.s = Nobody /\ gc.at = "remove"
      /\ gc.list \subseteq Sockets /\ sock = [t \in Sockets |-> sock[t]]
      /\ UNCHANGED <<sock, queue, listener, muxRef, user, closer, snd, rcv>>
  BY DEF GcSkips, GcEnds, SocketsInv, Shape
<1>2. /\ gc' = [at |-> gc'.at, list |-> gc'.list, s |-> gc'.s]
      /\ gc'.at \in {"idle", "remove"} /\ gc'.list \subseteq gc.list /\ gc'.s = Nobody
      /\ gc'.at = "idle" => gc'.list = {}
  <2>1. CASE GcEnds
    BY <1>1, <2>1 DEF GcEnds
  <2>2. ASSUME NEW s \in Sockets, GcSkips(s)
        PROVE  <1>2
    BY <1>1, <2>2 DEF GcSkips
  <2> QED
    BY <2>1, <2>2
<1>3. Lsn \in Sockets /\ Conns \subseteq Sockets /\ Nobody \notin Sockets
  BY SocketsAssumption DEF Sockets
<1>4. \A t \in Sockets : \/ GcAt(t)' = GcAt(t)
                         \/ GcAt(t) = "listed" /\ GcAt(t)' = "no"
  BY <1>1, <1>2, <1>3 DEF GcAt
<1>5. ASSUME NEW t \in Conns
      PROVE  OfConn(sock[t], user[t], closer[t], SndAt(t), GcAt(t)')
  <2> DEFINE r == sock[t]
             u == user[t]
             c == closer[t]
             n == SndAt(t)
             g == GcAt(t)
  <2>1. OfConn(r, u, c, n, g)
    BY DEF SocketsInv
  <2>2. g = "listed" => OfConn(r, u, c, n, "no")
    <3> HIDE DEF r, u, c, n, g
    <3> QED
      BY <2>1, IsSkipped
  <2> QED
    BY <1>3, <1>4, <2>1, <2>2
<1>6. OfLsn(sock[Lsn], user[Lsn], closer[Lsn], SndAt(Lsn), GcAt(Lsn)')
  <2> DEFINE r == sock[Lsn]
             u == user[Lsn]
             c == closer[Lsn]
             n == SndAt(Lsn)
             g == GcAt(Lsn)
  <2>1. OfLsn(r, u, c, n, g)
    BY DEF SocketsInv
  <2>2. g = "listed" => OfLsn(r, u, c, n, "no")
    <3> HIDE DEF r, u, c, n, g
    <3> QED
      BY <2>1 DEF OfLsn, Mapped
  <2> QED
    BY <1>3, <1>4, <2>1, <2>2
<1>7. \A t \in Sockets : sock[t].obj = sock[t].obj
  OBVIOUS
<1>8. sock' = [t \in Sockets |-> sock[t]] /\ queue' \subseteq queue
  BY <1>1
<1>9. gc'.list \subseteq Sockets /\ gc'.s \notin gc'.list
  BY <1>1, <1>2, <1>3
<1> QED
  BY <1>1, <1>2, <1>5, <1>6, <1>7, <1>8, <1>9, GcStep

(* removeSocket takes it out of m_ClosedSockets. *)
LEMMA TakeKeeps ==
  ASSUME SocketsInv, NEW s \in Sockets, GcTakes(s)
  PROVE  SocketsInv'
<1> DEFINE S == [t \in Sockets |->
                   IF t = s THEN [sock[t] EXCEPT !.map = "none"]
                   ELSE IF t \in Unaccepted(s)
                        THEN [BrokenAndClosed(sock[t]) EXCEPT !.map = "closed"]
                        ELSE sock[t]]
<1>1. /\ gc.at = "remove" /\ gc.s = Nobody /\ s \in gc.list /\ gc.list \subseteq Sockets
      /\ sock[s].busy = 0 /\ sock' = S
      /\ gc' = [at |-> "internal", list |-> gc.list \ {s}, s |-> s]
      /\ UNCHANGED <<listener, muxRef, user, closer, snd, rcv>>
  BY DEF GcTakes, SocketsInv, Shape
<1>2. queue' \subseteq queue
  BY DEF GcTakes
<1>3. Lsn \in Sockets /\ Lsn \notin Conns /\ Conns \subseteq Sockets /\ Nobody \notin Sockets
  BY SocketsAssumption DEF Sockets
<1>4. /\ GcAt(s) = "listed" /\ GcAt(s)' = "internal"
      /\ \A t \in Sockets : t # s => GcAt(t)' = GcAt(t)
  BY <1>1, <1>3 DEF GcAt
<1>5. \A t \in Unaccepted(s) : t \in Conns /\ sock[t].map = "open"
  BY DEF Unaccepted, SocketsInv, Shape
<1>6. ASSUME NEW t \in Conns
      PROVE  S[t].obj = sock[t].obj /\ OfConn(S[t], user[t], closer[t], SndAt(t), GcAt(t)')
  <2> DEFINE r == sock[t]
             u == user[t]
             c == closer[t]
             n == SndAt(t)
             g == GcAt(t)
             q == S[t]
  <2>0. OfConn(r, u, c, n, g) /\ t \in Sockets
    BY <1>3 DEF SocketsInv
  <2>1. CASE t = s
    <3>1. q = [r EXCEPT !.map = "none"] /\ r.busy = 0 /\ g = "listed" /\ GcAt(t)' = "internal"
      BY <1>1, <1>4, <2>1
    <3>2. q.obj = r.obj /\ OfConn(q, u, c, n, "internal")
      <4> HIDE DEF r, u, c, n, g, q
      <4> QED
        BY <2>0, <3>1, Taken
    <3> HIDE DEF S
    <3> QED
      BY <3>1, <3>2
  <2>2. CASE t # s /\ t \in Unaccepted(s)
    <3>1. q = [BrokenAndClosed(r) EXCEPT !.map = "closed"] /\ r.map = "open" /\ GcAt(t)' = g
      BY <1>4, <1>5, <2>0, <2>2
    <3>2. q.obj = r.obj /\ OfConn(q, u, c, n, g)
      <4> HIDE DEF r, u, c, n, g, q
      <4> QED
        BY <2>0, <3>1, Unclaimed
    <3> HIDE DEF S
    <3> QED
      BY <3>1, <3>2
  <2>3. CASE t # s /\ t \notin Unaccepted(s)
    <3>1. q = r /\ GcAt(t)' = g
      BY <1>4, <2>0, <2>3
    <3> HIDE DEF S
    <3> QED
      BY <2>0, <3>1
  <2> QED
    BY <2>1, <2>2, <2>3
<1>7. S[Lsn].obj = sock[Lsn].obj /\ OfLsn(S[Lsn], user[Lsn], closer[Lsn], SndAt(Lsn), GcAt(Lsn)')
  <2> DEFINE r == sock[Lsn]
             u == user[Lsn]
             c == closer[Lsn]
             n == SndAt(Lsn)
             g == GcAt(Lsn)
             q == S[Lsn]
  <2>0. OfLsn(r, u, c, n, g) /\ r \in SockRec
    BY DEF SocketsInv, OfLsn
  <2>1. CASE Lsn = s
    <3>1. q = [r EXCEPT !.map = "none"] /\ r.busy = 0 /\ g = "listed" /\ GcAt(Lsn)' = "internal"
      BY <1>1, <1>4, <2>1
    <3>2. q.obj = r.obj /\ OfLsn(q, u, c, n, "internal")
      <4> HIDE DEF r, u, c, n, g, q
      <4>1. /\ q \in SockRec /\ q.obj = r.obj /\ q.map = "none" /\ q.status = r.status
            /\ q.aged = r.aged /\ q.node = r.node /\ q.heap = r.heap /\ q.linger = r.linger
            /\ q.connected = r.connected /\ q.busy = r.busy
        BY <2>0, <3>1 DEF SockRec
      <4> QED
        BY <2>0, <3>1, <4>1 DEF OfLsn, Mapped, One, Mid
    <3> HIDE DEF S
    <3> QED
      BY <3>1, <3>2
  <2>2. CASE Lsn # s
    <3>1. q = r /\ GcAt(Lsn)' = g
      BY <1>3, <1>4, <1>5, <2>2
    <3> HIDE DEF S
    <3> QED
      BY <2>0, <3>1
  <2> QED
    BY <2>1, <2>2
<1>8. sock' = [t \in Sockets |-> S[t]]
  BY <1>1
<1> HIDE DEF S
<1>9. \A t \in Sockets : S[t].obj = sock[t].obj
  BY <1>6, <1>7 DEF Sockets
<1>10. /\ gc' = [at |-> gc'.at, list |-> gc'.list, s |-> gc'.s] /\ gc'.at = "internal"
       /\ gc'.s \in Sockets /\ gc'.list \subseteq Sockets /\ gc'.s \notin gc'.list
  BY <1>1
<1> QED
  BY <1>1, <1>2, <1>6, <1>7, <1>8, <1>9, <1>10, GcStep

(* What the collector's closeInternal does to a socket it has taken. *)
LEMMA ClosedConn ==
  ASSUME NEW r, NEW u, NEW c, NEW n, OfConn(r, u, c, n, "internal")
  PROVE  /\ OfConn(ClosedInternally(r), u, c, n, "delete")
         /\ ClosedInternally(r).obj = r.obj
<1>1. CASE ~r.opened
  BY <1>1, NotReopened DEF ClosedInternally
<1>2. CASE r.opened /\ HasToLinger(r)
  BY <1>2, LingersAgain DEF ClosedInternally
<1>3. CASE r.opened /\ ~HasToLinger(r)
  BY <1>3, DownAtLast DEF ClosedInternally
<1> QED
  BY <1>1, <1>2, <1>3

(* The same for the listener. *)
LEMMA ClosedLsn ==
  ASSUME NEW r, NEW u, NEW c, NEW n, OfLsn(r, u, c, n, "internal")
  PROVE  /\ OfLsn(ClosedInternally(r), u, c, n, "delete")
         /\ ClosedInternally(r).obj = r.obj
<1> DEFINE q == ClosedInternally(r)
<1>1. r \in SockRec /\ ~r.connected /\ ~r.heap
  BY DEF OfLsn
<1>2. CASE ~r.opened
  BY <1>2 DEF ClosedInternally, OfLsn, Mapped
<1>3. CASE r.opened
  <2>1. q = SetDown(Unscheduled(r))
    BY <1>1, <1>3 DEF ClosedInternally, HasToLinger
  <2> HIDE DEF q
  <2>2. q \in SockRec
    BY <1>1, <2>1, RecordSteps
  <2>3. /\ q.obj = r.obj /\ q.map = r.map /\ q.status = r.status
        /\ q.aged = r.aged /\ q.node = r.node /\ q.heap = (r.heap /\ ~r.connected)
        /\ q.linger = r.linger /\ q.connected = FALSE /\ q.busy = r.busy
    BY <1>1, <2>1 DEF SockRec, SetDown, Unscheduled
  <2> QED
    BY <1>1, <2>2, <2>3 DEF OfLsn, Mapped, One, Mid, q
<1> QED
  BY <1>2, <1>3

(* closeInternal by the collector. *)
LEMMA CloseKeeps ==
  ASSUME SocketsInv, GcCloses
  PROVE  SocketsInv'
<1> DEFINE S == [sock EXCEPT ![gc.s] = ClosedInternally(@)]
<1>1. /\ gc.at = "internal" /\ gc.s \in Sockets /\ gc.list \subseteq Sockets /\ sock' = S
      /\ gc = [at |-> gc.at, list |-> gc.list, s |-> gc.s] /\ gc.s \notin gc.list
      /\ gc' = [gc EXCEPT !.at = "delete"] /\ sock = [t \in Sockets |-> sock[t]]
      /\ UNCHANGED <<queue, listener, muxRef, user, closer, snd, rcv>>
  BY DEF GcCloses, SocketsInv, Shape
<1>2. /\ gc' = [at |-> gc'.at, list |-> gc'.list, s |-> gc'.s] /\ gc'.at = "delete"
      /\ gc'.s = gc.s /\ gc'.list = gc.list
  BY <1>1
<1>3. Lsn \in Sockets /\ Lsn \notin Conns /\ Conns \subseteq Sockets
  BY SocketsAssumption DEF Sockets
<1>4. \A t \in Sockets : IF t = gc.s THEN GcAt(t) = "internal" /\ GcAt(t)' = "delete"
                                      ELSE GcAt(t)' = GcAt(t)
  BY <1>1, <1>2 DEF GcAt
<1>5. \A t \in Sockets : S[t] = IF t = gc.s THEN ClosedInternally(sock[t]) ELSE sock[t]
  BY <1>1
<1>6. sock' = [t \in Sockets |-> S[t]]
  BY <1>1
<1> HIDE DEF S
<1>7. ASSUME NEW t \in Conns
      PROVE  S[t].obj = sock[t].obj /\ OfConn(S[t], user[t], closer[t], SndAt(t), GcAt(t)')
  <2> DEFINE r == sock[t]
             u == user[t]
             c == closer[t]
             n == SndAt(t)
             g == GcAt(t)
  <2>0. OfConn(r, u, c, n, g) /\ t \in Sockets
    BY <1>3 DEF SocketsInv
  <2>1. CASE t = gc.s
    <3>1. S[t] = ClosedInternally(r) /\ g = "internal" /\ GcAt(t)' = "delete"
      BY <1>4, <1>5, <2>0, <2>1
    <3>2. OfConn(ClosedInternally(r), u, c, n, "delete") /\ ClosedInternally(r).obj = r.obj
      <4> HIDE DEF r, u, c, n, g
      <4> QED
        BY <2>0, <3>1, ClosedConn
    <3> QED
      BY <3>1, <3>2
  <2>2. CASE t # gc.s
    BY <1>4, <1>5, <2>0, <2>2
  <2> QED
    BY <2>1, <2>2
<1>8. S[Lsn].obj = sock[Lsn].obj /\ OfLsn(S[Lsn], user[Lsn], closer[Lsn], SndAt(Lsn), GcAt(Lsn)')
  <2> DEFINE r == sock[Lsn]
             u == user[Lsn]
             c == closer[Lsn]
             n == SndAt(Lsn)
             g == GcAt(Lsn)
  <2>0. OfLsn(r, u, c, n, g)
    BY DEF SocketsInv
  <2>1. CASE Lsn = gc.s
    <3>1. S[Lsn] = ClosedInternally(r) /\ g = "internal" /\ GcAt(Lsn)' = "delete"
      BY <1>3, <1>4, <1>5, <2>1
    <3>2. OfLsn(ClosedInternally(r), u, c, n, "delete") /\ ClosedInternally(r).obj = r.obj
      <4> HIDE DEF r, u, c, n, g
      <4> QED
        BY <2>0, <3>1, ClosedLsn
    <3> QED
      BY <3>1, <3>2
  <2>2. CASE Lsn # gc.s
    BY <1>3, <1>4, <1>5, <2>0, <2>2
  <2> QED
    BY <2>1, <2>2
<1>9. \A t \in Sockets : S[t].obj = sock[t].obj
  BY <1>7, <1>8 DEF Sockets
<1>10. queue' \subseteq queue /\ gc'.s \in Sockets /\ gc'.s \notin gc'.list
  BY <1>1, <1>2
<1> QED
  BY <1>1, <1>2, <1>6, <1>7, <1>8, <1>9, <1>10, GcStep

(* delete *)
LEMMA DeleteKeeps ==
  ASSUME SocketsInv, GcDeletes
  PROVE  SocketsInv'
<1>0. PICK d \in Sockets : d = gc.s /\ gc.at = "delete"
  BY DEF GcDeletes, SocketsInv, Shape
<1>1. /\ gc.at = "delete" /\ d \in Sockets /\ gc.list \subseteq Sockets /\ d \notin gc.list
      /\ gc = [at |-> gc.at, list |-> gc.list, s |-> gc.s]
      /\ sock' = [sock EXCEPT ![d].obj = "deleted"] /\ sock = [t \in Sockets |-> sock[t]]
      /\ gc' = [gc EXCEPT !.at = "remove", !.s = Nobody] /\ muxRef' = muxRef - 1
      /\ UNCHANGED <<queue, listener, user, closer, snd, rcv>>
  BY <1>0 DEF GcDeletes, SocketsInv, Shape
<1>2. /\ gc' = [at |-> gc'.at, list |-> gc'.list, s |-> gc'.s] /\ gc'.at = "remove"
      /\ gc'.s = Nobody /\ gc'.list = gc.list
  BY <1>1
<1>3. /\ Lsn \in Sockets /\ Lsn \notin Conns /\ Conns \subseteq Sockets
      /\ Nobody \notin Sockets
  BY SocketsAssumption DEF Sockets
<1>4. /\ GcAt(d) = "delete" /\ GcAt(d)' = "no"
      /\ \A t \in Sockets : t # d => GcAt(t)' = GcAt(t)
      /\ \A t : SndAt(t)' = SndAt(t)
  BY <1>0, <1>1, <1>2, <1>3 DEF GcAt, SndAt
<1>5. \A t \in Sockets : sock'[t] = IF t = d THEN [sock[t] EXCEPT !.obj = "deleted"] ELSE sock[t]
  BY <1>1
<1>6. sock[d].obj = "live" /\ sock'[d].obj = "deleted"
  <2>1. sock[d] \in SockRec /\ Mapped(sock[d], GcAt(d))
    BY <1>1 DEF SocketsInv, OfConn, OfLsn, Sockets
  <2>2. sock[d].obj = "live"
    BY <1>4, <2>1 DEF Mapped
  <2>3. sock'[d].obj = "deleted"
    BY <1>1, <1>5, <2>1 DEF SockRec
  <2> QED
    BY <2>2, <2>3
<1>7. \A t \in Sockets : t # d => sock'[t].obj = sock[t].obj
  BY <1>5
<1>8. Shape'
  <2>1. queue' \subseteq {t \in Conns : sock'[t].obj # "none" /\ closer'[t] = "none"}
    BY <1>1, <1>3, <1>6, <1>7 DEF SocketsInv, Shape
  <2>2. DOMAIN sock' = Sockets /\ sock' = [t \in Sockets |-> sock'[t]]
    BY <1>1
  <2> QED
    BY <1>1, <1>2, <1>3, <2>1, <2>2 DEF SocketsInv, Shape
<1>9. Counted'
  <2> DEFINE L == {t \in Sockets : Live(t)}
  <2>1. IsFiniteSet(Sockets)
    BY SocketsAssumption, FS_AddElement DEF Sockets
  <2>2. IsFiniteSet(L) /\ d \in L
    BY <1>1, <1>6, <2>1, FS_Subset DEF Live
  <2>3. {t \in Sockets : Live(t)}' = L \ {d}
    BY <1>1, <1>6, <1>7 DEF Live
  <2>4. Cardinality(L \ {d}) = Cardinality(L) - 1
    BY <2>2, FS_RemoveElement
  <2>5. muxRef = Cardinality(L)
    BY DEF SocketsInv, Counted
  <2> HIDE DEF L
  <2> QED
    BY <1>1, <2>3, <2>4, <2>5 DEF Counted
<1>10. ASSUME NEW t \in Conns
       PROVE  OfConn(sock'[t], user'[t], closer'[t], SndAt(t)', GcAt(t)')
  <2> DEFINE r == sock[t]
             u == user[t]
             c == closer[t]
             n == SndAt(t)
             g == GcAt(t)
             q == [r EXCEPT !.obj = "deleted"]
  <2>0. OfConn(r, u, c, n, g) /\ t \in Sockets
    BY <1>3 DEF SocketsInv
  <2>1. CASE t = d
    <3>1. sock'[t] = q /\ g = "delete" /\ GcAt(t)' = "no"
      BY <1>4, <1>5, <2>0, <2>1
    <3>2. OfConn(q, u, c, n, "no")
      <4> HIDE DEF r, u, c, n, g
      <4> QED
        BY <2>0, <3>1, IsDeleted
    <3> HIDE DEF q
    <3> QED
      BY <1>1, <1>4, <3>1, <3>2
  <2>2. CASE t # d
    BY <1>1, <1>4, <1>5, <2>0, <2>2
  <2> QED
    BY <2>1, <2>2
<1>11. OfLsn(sock'[Lsn], user'[Lsn], closer'[Lsn], SndAt(Lsn)', GcAt(Lsn)')
  <2> DEFINE r == sock[Lsn]
             u == user[Lsn]
             c == closer[Lsn]
             n == SndAt(Lsn)
             g == GcAt(Lsn)
             q == [r EXCEPT !.obj = "deleted"]
  <2>0. OfLsn(r, u, c, n, g) /\ r \in SockRec
    BY DEF SocketsInv, OfLsn
  <2>1. CASE Lsn = d
    <3>1. sock'[Lsn] = q /\ g = "delete" /\ GcAt(Lsn)' = "no"
      BY <1>3, <1>4, <1>5, <2>1
    <3>2. OfLsn(q, u, c, n, "no")
      <4> HIDE DEF r, u, c, n, g
      <4>1. /\ q \in SockRec /\ q.obj = "deleted" /\ q.map = r.map /\ q.status = r.status
            /\ q.aged = r.aged /\ q.node = r.node /\ q.heap = r.heap /\ q.linger = r.linger
            /\ q.connected = r.connected /\ q.busy = r.busy
        BY <2>0, <3>1 DEF SockRec
      <4> HIDE DEF q
      <4> QED
        BY <2>0, <3>1, <4>1 DEF OfLsn, Mapped, One, Mid
    <3> HIDE DEF q
    <3> QED
      BY <1>1, <1>4, <3>1, <3>2
  <2>2. CASE Lsn # d
    BY <1>1, <1>3, <1>4, <1>5, <2>0, <2>2
  <2> QED
    BY <2>1, <2>2
<1> QED
  BY <1>8, <1>9, <1>10, <1>11 DEF SocketsInv
-----------------------------------------------------------------------------
(* The invariant holds when only the listener is there. *)
LEMMA SocketsInit ==
  ASSUME Init
  PROVE  SocketsInv
<1>1. Lsn \in Sockets /\ Lsn \notin Conns /\ Conns \subseteq Sockets /\ Nobody \notin Sockets
  BY SocketsAssumption DEF Sockets
<1> DEFINE l == [Unborn EXCEPT !.obj = "live", !.map = "open",
                               !.status = "listening", !.opened = TRUE]
<1>2. /\ sock[Lsn] = l /\ user[Lsn] = "out" /\ closer[Lsn] = "may"
      /\ \A s \in Conns : sock[s] = Unborn /\ user[s] = "out" /\ closer[s] = "none"
      /\ \A s \in Sockets : SndAt(s) = "idle" /\ GcAt(s) = "no"
  BY <1>1 DEF Init, SndAt, GcAt
<1>3. 0 \in Int
  OBVIOUS
<1>4. Unborn \in SockRec /\ l \in SockRec
  BY <1>3 DEF Unborn, SockRec
<1>5. Shape
  <2>1. /\ DOMAIN sock = Sockets /\ sock = [s \in Sockets |-> sock[s]]
        /\ user = [s \in Sockets |-> user[s]] /\ closer = [s \in Sockets |-> closer[s]]
    BY DEF Init
  <2>2. snd = [at |-> snd.at, s |-> snd.s] /\ gc = [at |-> gc.at, list |-> gc.list, s |-> gc.s]
    BY DEF Init
  <2> QED
    BY <1>1, <1>2, <2>1, <2>2 DEF Init, Shape
<1>6. Counted
  <2>1. l.obj = "live" /\ Unborn.obj = "none"
    BY DEF Unborn
  <2> HIDE DEF l
  <2>2. {s \in Sockets : Live(s)} = {Lsn}
    BY <1>1, <1>2, <2>1 DEF Live, Sockets
  <2> QED
    BY <2>2, FS_Singleton DEF Init, Counted
<1>7. ASSUME NEW s \in Conns
      PROVE  OfConn(sock[s], user[s], closer[s], SndAt(s), GcAt(s))
  <2> DEFINE r == sock[s]
  <2>1. /\ r = Unborn /\ user[s] = "out" /\ closer[s] = "none"
        /\ SndAt(s) = "idle" /\ GcAt(s) = "no"
    BY <1>1, <1>2
  <2> HIDE DEF r
  <2>2. /\ r.obj = "none" /\ r.map = "none" /\ ~r.broken /\ ~r.closing /\ ~r.connected
        /\ ~r.opened /\ r.node = "off" /\ ~r.heap /\ r.busy = 0 /\ r.linger = "no"
        /\ ~r.aged
    BY <2>1 DEF Unborn
  <2>3. OfConn(r, "out", "none", "idle", "no")
    BY <1>4, <2>1, <2>2 DEF OfConn, Mapped, Ending, Pointers, Telling, One, Mid
  <2> QED
    BY <2>1, <2>3 DEF r
<1>8. OfLsn(sock[Lsn], user[Lsn], closer[Lsn], SndAt(Lsn), GcAt(Lsn))
  <2>1. /\ l.obj = "live" /\ l.map = "open" /\ l.status = "listening" /\ ~l.connected
        /\ l.node = "off" /\ ~l.heap /\ l.busy = 0 /\ l.linger = "no" /\ ~l.aged
    BY DEF Unborn
  <2> HIDE DEF l
  <2> QED
    BY <1>1, <1>2, <1>4, <2>1 DEF OfLsn, Mapped, One, Mid
<1> QED
  BY <1>5, <1>6, <1>7, <1>8 DEF SocketsInv

(* Every step of every thread keeps it. *)
LEMMA SocketsNext ==
  ASSUME ~Stalls, SocketsInv, [Next]_vars
  PROVE  SocketsInv'
<1>1. CASE UNCHANGED vars
  BY <1>1, RcvTurns
<1>2. CASE RcvWorker
  BY <1>2, RcvTurns, ReplaceKeeps, NewKeeps, RcvKeeps DEF RcvWorker
<1>3. CASE SndWorker
  BY <1>3, SndKeepsInv DEF SndWorker
<1>4. CASE Collector
  BY <1>4, ScanKeeps, SkipKeeps, TakeKeeps, CloseKeeps, DeleteKeeps DEF Collector
<1>5. CASE CloseListener \/ NotListening
  BY <1>5, LsnKeeps
<1>6. ASSUME NEW s \in Conns,
             \/ AcceptPops(s) \/ ApiLocates(s) \/ ApiWorks(s)
             \/ CloseWorks(s) \/ CloseMoves(s) \/ LingerExpires(s)
      PROVE  SocketsInv'
  <2>1. CASE AcceptPops(s) \/ ApiLocates(s) \/ ApiWorks(s)
    BY <2>1, AcceptKeeps, LocateKeeps, ReceiveKeeps, FailKeeps, CheckKeeps, SendKeeps DEF ApiWorks
  <2>2. CASE CloseWorks(s)
    BY <2>2, BeginDownKeeps, BeginLingerKeeps, BeginCloseKeeps, FinishKeeps DEF CloseWorks
  <2>3. CASE CloseMoves(s) \/ LingerExpires(s)
    BY <2>3, MoveKeeps, LeaveKeeps, ExpireKeeps
  <2> QED
    BY <1>6, <2>1, <2>2, <2>3
<1>7. ASSUME NEW s \in Sockets, CloseAcquires(s) \/ Ages(s)
      PROVE  SocketsInv'
  <2>1. CASE s = Lsn
    BY <1>7, <2>1, LsnKeeps
  <2>2. CASE s \in Conns
    BY <1>7, <2>2, AcquireKeeps, MissKeeps, AgeKeeps
  <2> QED
    BY <2>1, <2>2 DEF Sockets
<1> QED
  BY <1>1, <1>2, <1>3, <1>4, <1>5, <1>6, <1>7 DEF Next

(* Unless threads stall for a second, the invariant of api.cpp's two maps, *)
(* of the pointers to their sockets and of m_iBusy, holds in every state.  *)
THEOREM SocketsInvHolds ==
  ASSUME ~Stalls
  PROVE  Spec => []SocketsInv
<1>1. Init => SocketsInv
  BY SocketsInit
<1>2. SocketsInv /\ [Next]_vars => SocketsInv'
  BY SocketsNext
<1> QED
  BY <1>1, <1>2, PTL DEF Spec

(* However the application, the workers and the collector interleave, for  *)
(* any number of connections: unless threads stall, a socket somebody has  *)
(* a pointer to is not deleted, except a connection that breaks while it   *)
(* lingers, and the multiplexer counts exactly the sockets there are.      *)
THEOREM NobodyDangles ==
  ASSUME ~Stalls
  PROVE  Spec => []NoDanglingUnlessLingering
<1>1. SocketsInv => NoDanglingUnlessLingering
  <2> SUFFICES ASSUME SocketsInv
               PROVE  NoDanglingUnlessLingering
    OBVIOUS
  <2>1. ASSUME NEW s \in Conns, PointedAt(s)
        PROVE  Live(s) \/ (sock[s].broken /\ sock[s].linger # "no")
    <3> DEFINE r == sock[s]
               u == user[s]
               c == closer[s]
               n == SndAt(s)
               g == GcAt(s)
    <3>1. OfConn(r, u, c, n, g)
      BY ConnIs
    <3>2. \/ r.heap \/ r.node # "off" \/ snd.s = s \/ u # "out"
          \/ c \notin {"none", "may", "done"}
      BY <2>1, SocketsAssumption DEF PointedAt, OnList
    <3>3. snd.s = s => n # "idle"
      BY SocketsAssumption DEF SocketsInv, Shape, SndAt, Sockets
    <3> HIDE DEF r, u, c, n, g
    <3>4. r.obj # "none"
      BY <3>1, <3>2, <3>3 DEF OfConn, Unborn
    <3>5. CASE r.map # "none"
      BY <3>1, <3>5 DEF OfConn, Mapped, Live, r
    <3>6. CASE r.map = "none"
      <4>1. /\ r.node = "off" /\ u = "out" /\ c \notin Mid
            /\ (r.broken /\ r.linger # "no") \/ (~r.heap /\ n = "idle")
        BY <3>1, <3>4, <3>6 DEF OfConn, Pointers
      <4>2. CASE r.broken /\ r.linger # "no"
        BY <4>2 DEF r
      <4>3. CASE ~r.heap /\ n = "idle"
        <5>1. c \notin {"none", "may", "done"}
          BY <3>2, <3>3, <4>1, <4>3
        <5>2. c \in {"none", "may", "done"} \cup Mid
          BY <3>1 DEF OfConn, Pointers
        <5> QED
          BY <4>1, <5>1, <5>2
      <4> QED
        BY <4>1, <4>2, <4>3
    <3> QED
      BY <3>5, <3>6
  <2>2. ASSUME PointedAt(Lsn)
        PROVE  Live(Lsn)
    <3> DEFINE r == sock[Lsn]
               c == closer[Lsn]
    <3>1. OfLsn(r, user[Lsn], c, SndAt(Lsn), GcAt(Lsn))
      BY DEF SocketsInv
    <3>2. snd.s # Lsn
      BY SocketsAssumption DEF SocketsInv, Shape, Sockets
    <3>3. listener \/ rcv = "request" => c # "done"
      BY DEF SocketsInv, Shape
    <3>4. c \notin {"none", "may", "done"} \/ c # "done"
      BY <2>2, <3>1, <3>2, <3>3 DEF PointedAt, OfLsn, OnList
    <3> QED
      BY <3>1, <3>4 DEF OfLsn, Mapped, Live
  <2>3. muxRef = Cardinality({s \in Sockets : Live(s)})
    BY DEF SocketsInv, Counted
  <2> QED
    BY <2>1, <2>2, <2>3 DEF NoDanglingUnlessLingering, Sockets
<1>2. Spec => []SocketsInv
  BY SocketsInvHolds
<1> QED
  BY <1>1, <1>2, PTL

(* A connection that was alive to the end and had nothing left to send is  *)
(* never deleted before its peer has been sent UMSG_SHUTDOWN, whichever of *)
(* srt_close and the collector takes it down.                              *)
THEOREM PeerIsTold ==
  ASSUME ~Stalls
  PROVE  Spec => []PeerTold
<1>1. SocketsInv => PeerTold
  BY DEF SocketsInv, OfConn, Telling, PeerTold
<1>2. Spec => []SocketsInv
  BY SocketsInvHolds
<1> QED
  BY <1>1, <1>2, PTL
=============================================================================
