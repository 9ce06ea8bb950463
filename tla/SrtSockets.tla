----------------------------- MODULE SrtSockets ------------------------------
(***************************************************************************)
(* The life of libsrt's socket objects: m_Sockets and m_ClosedSockets      *)
(* (api.cpp), srt_close and the garbage collector, against the threads     *)
(* that hold bare pointers to them: the application in srt_sendmsg2 and    *)
(* srt_recvmsg2, CSndQueue::worker with CSndUList, CRcvQueue::worker with  *)
(* its hash and list.  A listener and the connections made through it      *)
(* share one multiplexer.  Options as the tunnel sets them: file mode, so  *)
(* SO_LINGER of 180 s, and SNDSYN off; bonding is not compiled in.         *)
(*                                                                         *)
(* m_GlobControlLock guards the two maps; the collector gives it up while  *)
(* it closes a socket it has taken out of m_ClosedSockets.                 *)
(***************************************************************************)
EXTENDS Integers, FiniteSets

CONSTANTS
  Conns,      \* sockets newConnection may create
  Lsn,        \* the listener
  BrokenWait, \* m_iBrokenCounter of a connection that breaks: 30 or 60
  Stalls      \* may a thread stand still for the second a closed socket is kept?

Sockets == Conns \cup {Lsn}
Nobody == "nobody"

ASSUME SocketsAssumption ==
  /\ IsFiniteSet(Conns) /\ Lsn \notin Conns /\ Nobody \notin Sockets
  /\ BrokenWait \in Nat
  /\ Stalls \in BOOLEAN

VARIABLES
  sock,     \* the CUDTSocket objects
  queue,    \* m_QueuedSockets of the listener
  listener, \* m_pListener of the CRcvQueue is set
  muxRef,   \* m_iRefCount of the multiplexer
  user,     \* per socket, the application's send or receive: "out", "in"
            \* or past the checks of sendmsg2 ("checked")
  closer,   \* per socket, the application's srt_close
  snd,      \* CSndQueue::worker: the socket it popped, and where it is
  rcv,      \* CRcvQueue::worker: "idle" | "request"
  gc        \* the collector: what it still has to remove, and where it is

vars == <<sock, queue, listener, muxRef, user, closer, snd, rcv, gc>>

Unborn ==
  [obj |-> "none",      \* "none" | "live" | "deleted"
   map |-> "none",      \* m_Sockets, m_ClosedSockets or neither: "open" | "closed" | "none"
   status |-> "init",   \* m_Status
   broken |-> FALSE, closing |-> FALSE, connected |-> FALSE, opened |-> FALSE,
   wait |-> 0,          \* m_iBrokenCounter
   node |-> "off",      \* m_pRNode: "off", in m_vNewEntry ("new"), in list and hash ("on")
   heap |-> FALSE,      \* in CSndUList (m_iHeapLoc >= 0)
   busy |-> 0,          \* m_iBusy
   avail |-> FALSE,     \* the receive buffer has packets
   buf |-> "empty",     \* send buffer: "empty" | "unsent" | "sent", not acknowledged
   linger |-> "no",     \* m_tsLingerExpiration: "no" | "on" | "over"
   aged |-> FALSE,      \* m_tsClosureTimeStamp is more than a second ago
   told |-> FALSE]      \* UMSG_SHUTDOWN was sent

Init ==
  /\ sock = [s \in Sockets |-> IF s = Lsn
               THEN [Unborn EXCEPT !.obj = "live", !.map = "open",
                                   !.status = "listening", !.opened = TRUE]
               ELSE Unborn]
  /\ queue = {} /\ listener = TRUE /\ muxRef = 1
  /\ user = [s \in Sockets |-> "out"]
  /\ closer = [s \in Sockets |-> IF s = Lsn THEN "may" ELSE "none"]
  /\ snd = [at |-> "idle", s |-> Nobody]
  /\ rcv = "idle"
  /\ gc = [at |-> "idle", list |-> {}, s |-> Nobody]

(* locateSocket, under m_GlobControlLock. *)
GlobLockFree == gc.at \notin {"remove", "delete"}
Located(s) == sock[s].map = "open" /\ sock[s].status # "closed"
Working(s) == sock[s].connected /\ ~sock[s].broken /\ ~sock[s].closing
OnListOnceInserted(s) == sock[s].node = "on"
OnList(s) == sock[s].node # "off"

(* setClosed *)
Closed(r) == [r EXCEPT !.status = "closed", !.aged = FALSE]

(* closeInternal.  With something left in the send buffer of a connection  *)
(* that works it only starts the linger time; otherwise it takes the       *)
(* socket out of CSndUList and sets m_bClosing, then, under                *)
(* m_ConnectionLock, tells the peer and is done.                           *)
HasToLinger(r) == ~r.broken /\ r.connected /\ r.buf # "empty"
Lingering(r) == [r EXCEPT !.linger = IF @ = "no" THEN "on" ELSE @]
Unscheduled(r) == [r EXCEPT !.heap = @ /\ ~r.connected, !.closing = TRUE]
SetDownUntold(r) == [r EXCEPT !.connected = FALSE, !.opened = FALSE]
SetDown(r) == [r EXCEPT !.told = @ \/ r.connected, !.connected = FALSE, !.opened = FALSE]
ClosedInternally(r) ==
  IF ~r.opened THEN r
  ELSE IF HasToLinger(r) THEN Lingering(r)
  ELSE SetDown(Unscheduled(r))

(* breakSocket_LOCKED *)
BrokenAndClosed(r) ==
  Closed(ClosedInternally([r EXCEPT !.broken = TRUE, !.wait = 0]))
-----------------------------------------------------------------------------
(* CRcvQueue::worker: connection requests.  The listener cannot be removed *)
(* from the queue while newConnection runs (m_pListener is locked).        *)
RequestBegins ==
  /\ rcv = "idle" /\ listener /\ \A s \in Conns : sock[s].node # "new"
  /\ rcv' = "request"
  /\ UNCHANGED <<sock, queue, listener, muxRef, user, closer, snd, gc>>

(* A connection from the same peer that has broken is closed first. *)
ReplacesOld(s) ==
  /\ rcv = "request" /\ GlobLockFree /\ Located(Lsn)
  /\ sock[s].map = "open" /\ sock[s].broken
  /\ sock' = [sock EXCEPT ![s] = Closed(@)]
  /\ queue' = queue \ {s}
  /\ UNCHANGED <<listener, muxRef, user, closer, snd, rcv, gc>>

(* m_bOnList is set before the worker has the socket in its list. *)
NewConnection(s) ==
  /\ rcv = "request" /\ GlobLockFree /\ Located(Lsn)
  /\ sock[s].obj = "none"
  /\ sock' = [sock EXCEPT ![s] =
        [Unborn EXCEPT !.obj = "live", !.map = "open", !.status = "connected",
                       !.opened = TRUE, !.connected = TRUE, !.node = "new"]]
  /\ queue' = queue \cup {s}
  /\ muxRef' = muxRef + 1
  /\ rcv' = "idle"
  /\ UNCHANGED <<listener, user, closer, snd, gc>>

RequestRejected ==
  /\ rcv = "request"
  /\ rcv' = "idle"
  /\ UNCHANGED <<sock, queue, listener, muxRef, user, closer, snd, gc>>

(* worker_RetrieveUnit takes the new entries over before it reads. *)
RcvInserts(s) ==
  /\ rcv = "idle" /\ sock[s].node = "new"
  /\ sock' = [sock EXCEPT ![s].node = "on"]
  /\ UNCHANGED <<queue, listener, muxRef, user, closer, snd, rcv, gc>>

(* worker_ProcessAddressedPacket: the pointer comes from the hash.  What a *)
(* packet or a timer does to the socket: data; an acknowledgement;         *)
(* something found lost; the peer's shutdown, or nothing from it for 5 s.  *)
RcvProcesses(s) ==
  /\ rcv = "idle" /\ sock[s].node = "on" /\ Working(s)
  /\ \/ sock' = [sock EXCEPT ![s].avail = TRUE]
     \/ sock[s].buf = "sent" /\ sock' = [sock EXCEPT ![s].buf = "empty", ![s].heap = TRUE]
     \/ sock[s].buf = "sent" /\ sock' = [sock EXCEPT ![s].buf = "unsent", ![s].heap = TRUE]
     \/ \E scheduled \in {sock[s].heap, TRUE} :
          sock' = [sock EXCEPT ![s].broken = TRUE, ![s].closing = TRUE,
                               ![s].wait = BrokenWait, ![s].heap = scheduled]
  /\ UNCHANGED <<queue, listener, muxRef, user, closer, snd, rcv, gc>>

(* removeFromLists, for a socket that no longer works. *)
RcvRemoves(s) ==
  /\ rcv = "idle" /\ sock[s].node = "on" /\ ~Working(s)
  /\ sock' = [sock EXCEPT ![s].node = "off"]
  /\ UNCHANGED <<queue, listener, muxRef, user, closer, snd, rcv, gc>>
-----------------------------------------------------------------------------
(* CSndQueue::worker.  From pop on it has a bare pointer, until it finds   *)
(* the socket by its number and makes it busy.                             *)
SndPops(s) ==
  /\ snd.at = "idle" /\ sock[s].heap
  /\ sock' = [sock EXCEPT ![s].heap = FALSE]
  /\ snd' = [at |-> "popped", s |-> s]
  /\ UNCHANGED <<queue, listener, muxRef, user, closer, rcv, gc>>

SndKeeps(s) ==
  /\ snd = [at |-> "popped", s |-> s] /\ GlobLockFree
  /\ IF sock[s].connected /\ ~sock[s].broken /\ Located(s)
     THEN sock' = [sock EXCEPT ![s].busy = @ + 1] /\ snd' = [snd EXCEPT !.at = "keeps"]
     ELSE UNCHANGED sock /\ snd' = [at |-> "idle", s |-> Nobody]
  /\ UNCHANGED <<queue, listener, muxRef, user, closer, rcv, gc>>

(* packData, under m_ConnectionLock: nothing to send, or one packet and    *)
(* the socket is scheduled again.                                          *)
SndPacksNothing(s) ==
  /\ snd = [at |-> "keeps", s |-> s]
  /\ ~sock[s].opened \/ sock[s].buf # "unsent"
  /\ sock' = [sock EXCEPT ![s].busy = @ - 1]
  /\ snd' = [at |-> "idle", s |-> Nobody]
  /\ UNCHANGED <<queue, listener, muxRef, user, closer, rcv, gc>>

SndSends(s) ==
  /\ snd = [at |-> "keeps", s |-> s]
  /\ sock[s].opened /\ sock[s].buf = "unsent"
  /\ sock' = [sock EXCEPT ![s].buf = "sent", ![s].heap = TRUE, ![s].busy = @ - 1]
  /\ snd' = [at |-> "idle", s |-> Nobody]
  /\ UNCHANGED <<queue, listener, muxRef, user, closer, rcv, gc>>
-----------------------------------------------------------------------------
(* The application.  accept *)
AcceptPops(s) ==
  /\ s \in queue /\ sock[Lsn].status = "listening" /\ ~sock[Lsn].broken
  /\ queue' = queue \ {s}
  /\ closer' = [closer EXCEPT ![s] = "may"]
  /\ UNCHANGED <<sock, listener, muxRef, user, snd, rcv, gc>>

(* srt_sendmsg2 and srt_recvmsg2: locateSocket gives up the lock and       *)
(* leaves them a bare pointer, without making the socket busy.             *)
ApiLocates(s) ==
  /\ user[s] = "out" /\ closer[s] # "none" /\ GlobLockFree /\ Located(s)
  /\ user' = [user EXCEPT ![s] = "in"]
  /\ UNCHANGED <<sock, queue, listener, muxRef, closer, snd, rcv, gc>>

ApiReceives(s) ==
  /\ user[s] = "in"
  /\ sock' = [sock EXCEPT ![s].avail = FALSE]
  /\ user' = [user EXCEPT ![s] = "out"]
  /\ UNCHANGED <<queue, listener, muxRef, closer, snd, rcv, gc>>

ApiFails(s) ==
  /\ user[s] = "in" /\ ~Working(s)
  /\ user' = [user EXCEPT ![s] = "out"]
  /\ UNCHANGED <<sock, queue, listener, muxRef, closer, snd, rcv, gc>>

ApiChecks(s) ==
  /\ user[s] = "in" /\ Working(s)
  /\ user' = [user EXCEPT ![s] = "checked"]
  /\ UNCHANGED <<sock, queue, listener, muxRef, closer, snd, rcv, gc>>

(* m_SendLock is taken after the checks: the socket that gets data and is  *)
(* scheduled may be closing by then, or closed.                            *)
ApiSends(s) ==
  /\ user[s] = "checked"
  /\ sock' = [sock EXCEPT ![s].buf = "unsent", ![s].heap = TRUE]
  /\ user' = [user EXCEPT ![s] = "out"]
  /\ UNCHANGED <<queue, listener, muxRef, closer, snd, rcv, gc>>

(* srt_close, with a SocketKeeper: busy until it returns. *)
CloseAcquires(s) ==
  /\ closer[s] = "may" /\ GlobLockFree
  /\ IF Located(s)
     THEN /\ sock' = [sock EXCEPT ![s].busy = @ + 1]
          /\ closer' = [closer EXCEPT ![s] = "acquired"]
     ELSE closer' = [closer EXCEPT ![s] = "done"] /\ UNCHANGED sock
  /\ UNCHANGED <<queue, listener, muxRef, user, snd, rcv, gc>>

CloseBegins(s) ==
  /\ s # Lsn /\ closer[s] = "acquired"
  /\ LET r == [sock[s] EXCEPT !.status = "closing"] IN
     IF ~r.opened \/ HasToLinger(r)
     THEN /\ sock' = [sock EXCEPT ![s] = ClosedInternally(r)]
          /\ closer' = [closer EXCEPT ![s] = "manager"]
     ELSE /\ sock' = [sock EXCEPT ![s] = Unscheduled(r)]
          /\ closer' = [closer EXCEPT ![s] = "closing"]
  /\ UNCHANGED <<queue, listener, muxRef, user, snd, rcv, gc>>

CloseFinishes(s) ==
  /\ s # Lsn /\ closer[s] = "closing"
  /\ sock' = [sock EXCEPT ![s] = SetDown(@)]
  /\ closer' = [closer EXCEPT ![s] = "manager"]
  /\ UNCHANGED <<queue, listener, muxRef, user, snd, rcv, gc>>

(* The collector may have moved the socket in the meantime. *)
CloseMoves(s) ==
  /\ closer[s] = "manager" /\ GlobLockFree
  /\ LET r == IF Located(s) THEN [Closed(sock[s]) EXCEPT !.map = "closed"] ELSE sock[s]
     IN sock' = [sock EXCEPT ![s] = [r EXCEPT !.busy = @ - 1]]
  /\ closer' = [closer EXCEPT ![s] = "done"]
  /\ UNCHANGED <<queue, listener, muxRef, user, snd, rcv, gc>>

(* srt_close of the listener: it is out of the CRcvQueue when the call     *)
(* returns, the rest is left to the collector.                             *)
CloseListener ==
  /\ closer[Lsn] = "acquired"
  /\ sock' = [sock EXCEPT ![Lsn].broken = TRUE]
  /\ closer' = [closer EXCEPT ![Lsn] = "closing"]
  /\ UNCHANGED <<queue, listener, muxRef, user, snd, rcv, gc>>

NotListening ==
  /\ closer[Lsn] = "closing" /\ rcv # "request"
  /\ listener' = FALSE
  /\ sock' = [sock EXCEPT ![Lsn].status = "closing", ![Lsn].busy = @ - 1]
  /\ closer' = [closer EXCEPT ![Lsn] = "done"]
  /\ UNCHANGED <<queue, muxRef, user, snd, rcv, gc>>
-----------------------------------------------------------------------------
(* The collector.  checkBrokenSockets, under the lock, up to the removals. *)
(* A broken connection with something left to read is given more rounds; a *)
(* socket in m_ClosedSockets goes when it has been there for a second,     *)
(* nobody has made it busy and the CRcvQueue has let it go.                *)
Moves(s) ==
  /\ sock[s].map = "open" /\ sock[s].broken /\ sock[s].status # "listening"
  /\ ~(sock[s].avail /\ sock[s].wait > 0)
Waits(s) ==
  /\ sock[s].map = "open" /\ sock[s].broken /\ sock[s].status # "listening"
  /\ sock[s].avail /\ sock[s].wait > 0

LingerOver(r) == r.linger # "no" /\ (r.buf = "empty" \/ r.linger = "over")
LingerEnded(r) == [r EXCEPT !.linger = "no", !.closing = TRUE, !.aged = FALSE]

Checked(s) ==
  LET r == IF Moves(s) THEN [Closed(sock[s]) EXCEPT !.map = "closed"]
           ELSE IF Waits(s) THEN [sock[s] EXCEPT !.wait = @ - 1]
           ELSE sock[s]
  IN IF r.map = "closed" /\ r.busy = 0 /\ LingerOver(r) THEN LingerEnded(r) ELSE r

GcScan ==
  /\ gc.at = "idle"
  /\ sock' = [s \in Sockets |-> Checked(s)]
  /\ queue' = {s \in queue : ~Moves(s)}
  /\ LET list == {s \in Sockets : /\ sock'[s].map = "closed" /\ sock'[s].busy = 0
                                  /\ sock'[s].aged /\ ~OnList(s)}
     IN gc' = [gc EXCEPT !.at = IF list = {} THEN "idle" ELSE "remove", !.list = list]
  /\ UNCHANGED <<listener, muxRef, user, closer, snd, rcv>>

(* removeSocket *)
GcSkips(s) ==
  /\ gc.at = "remove" /\ s \in gc.list
  /\ sock[s].heap \/ OnList(s) \/ sock[s].busy > 0
  /\ gc' = [gc EXCEPT !.list = @ \ {s}]
  /\ UNCHANGED <<sock, queue, listener, muxRef, user, closer, snd, rcv>>

(* With a listener go the connections nobody has accepted. *)
UnacceptedLeft(s) == {}
Unaccepted(s) == IF s = Lsn THEN {t \in queue : sock[t].map = "open"} ELSE {}

GcTakes(s) ==
  /\ gc.at = "remove" /\ s \in gc.list
  /\ ~sock[s].heap /\ ~OnList(s) /\ sock[s].busy = 0
  /\ sock' = [t \in Sockets |->
                 IF t = s THEN [sock[t] EXCEPT !.map = "none"]
                 ELSE IF t \in Unaccepted(s)
                      THEN [BrokenAndClosed(sock[t]) EXCEPT !.map = "closed"]
                      ELSE sock[t]]
  /\ queue' = IF s = Lsn THEN {} ELSE queue
  /\ gc' = [at |-> "internal", list |-> gc.list \ {s}, s |-> s]
  /\ UNCHANGED <<listener, muxRef, user, closer, snd, rcv>>

(* closeInternal, without the lock, and then delete.  The multiplexer goes *)
(* with the last socket.                                                   *)
GcCloses ==
  /\ gc.at = "internal"
  /\ sock' = [sock EXCEPT ![gc.s] = ClosedInternally(@)]
  /\ gc' = [gc EXCEPT !.at = "delete"]
  /\ UNCHANGED <<queue, listener, muxRef, user, closer, snd, rcv>>

GcDeletes ==
  /\ gc.at = "delete"
  /\ sock' = [sock EXCEPT ![gc.s].obj = "deleted"]
  /\ muxRef' = muxRef - 1
  /\ gc' = [gc EXCEPT !.at = "remove", !.s = Nobody]
  /\ UNCHANGED <<queue, listener, user, closer, snd, rcv>>

GcEnds ==
  /\ gc.at = "remove" /\ gc.list = {}
  /\ gc' = [gc EXCEPT !.at = "idle"]
  /\ UNCHANGED <<sock, queue, listener, muxRef, user, closer, snd, rcv>>
-----------------------------------------------------------------------------
(* Time.  Unless threads stall, a call of the application and a turn of    *)
(* CSndQueue::worker take less than the second a closed socket is kept.    *)
Ages(s) ==
  /\ sock[s].map = "closed" /\ ~sock[s].aged
  /\ Stalls \/ (~sock[s].heap /\ snd.s # s /\ user[s] = "out")
  /\ sock' = [sock EXCEPT ![s].aged = TRUE]
  /\ UNCHANGED <<queue, listener, muxRef, user, closer, snd, rcv, gc>>

LingerExpires(s) ==
  /\ sock[s].linger = "on"
  /\ sock' = [sock EXCEPT ![s].linger = "over"]
  /\ UNCHANGED <<queue, listener, muxRef, user, closer, snd, rcv, gc>>

RcvWorker ==
  \/ RequestBegins \/ RequestRejected
  \/ \E s \in Conns : \/ ReplacesOld(s) \/ NewConnection(s)
                       \/ RcvInserts(s) \/ RcvProcesses(s) \/ RcvRemoves(s)
SndWorker ==
  \E s \in Conns : SndPops(s) \/ SndKeeps(s) \/ SndPacksNothing(s) \/ SndSends(s)
ApiWorks(s) == ApiReceives(s) \/ ApiFails(s) \/ ApiChecks(s) \/ ApiSends(s)
CloseWorks(s) == CloseBegins(s) \/ CloseFinishes(s)
Collector ==
  GcScan \/ GcCloses \/ GcDeletes \/ GcEnds \/ \E s \in Sockets : GcSkips(s) \/ GcTakes(s)

Next ==
  \/ RcvWorker \/ SndWorker \/ Collector \/ CloseListener \/ NotListening
  \/ \E s \in Conns : \/ AcceptPops(s) \/ ApiLocates(s) \/ ApiWorks(s)
                       \/ CloseWorks(s) \/ CloseMoves(s) \/ LingerExpires(s)
  \/ \E s \in Sockets : CloseAcquires(s) \/ Ages(s)

(* Every thread keeps running; m_pListener's lock is not kept from the     *)
(* closing thread for ever, and connection requests do not keep the worker *)
(* from its list.  Nothing is assumed of the peer, nor of whether the      *)
(* application closes.                                                     *)
Fairness ==
  /\ WF_vars(Collector) /\ WF_vars(SndWorker)
  /\ WF_vars(rcv = "request" /\ RcvWorker)
  /\ WF_vars(CloseListener) /\ SF_vars(NotListening)
  /\ \A s \in Conns :
       /\ WF_vars(RcvInserts(s)) /\ SF_vars(RcvRemoves(s)) /\ WF_vars(ApiWorks(s))
       /\ WF_vars(CloseWorks(s)) /\ WF_vars(CloseMoves(s)) /\ WF_vars(LingerExpires(s))
  /\ \A s \in Sockets : WF_vars(Ages(s))

Spec == Init /\ [][Next]_vars /\ Fairness
-----------------------------------------------------------------------------
Live(s) == sock[s].obj = "live"

(* Who has a bare pointer to a socket: CSndUList, the CRcvQueue's list and *)
(* hash, a worker, a call of the application, the CRcvQueue's m_pListener. *)
PointedAt(s) ==
  \/ sock[s].heap \/ OnList(s) \/ snd.s = s
  \/ s = Lsn /\ (listener \/ rcv = "request")
  \/ user[s] # "out"
  \/ closer[s] \notin {"none", "may", "done"}

(* An object is deleted only when nobody has a pointer to it any more, and *)
(* the multiplexer, with the queues its workers run in, only after the     *)
(* last socket: what setClosed's second, m_iHeapLoc, m_bOnList and m_iBusy *)
(* are there for between them.                                             *)
NoDangling ==
  /\ \A s \in Sockets : PointedAt(s) => Live(s)
  /\ muxRef = Cardinality({s \in Sockets : Live(s)})

(* The same but for a connection that breaks while it lingers: its second  *)
(* is long over, and it goes as soon as the CRcvQueue has let it go, while *)
(* CSndQueue::worker may just have popped it.                              *)
NoDanglingUnlessLingering ==
  /\ \A s \in Sockets : PointedAt(s) => Live(s) \/ (sock[s].broken /\ sock[s].linger # "no")
  /\ muxRef = Cardinality({s \in Sockets : Live(s)})

(* A connection that breaks, or that srt_close was called for, or that     *)
(* nobody accepted before its listener was closed, is deleted in the end.  *)
AllCollected ==
  \A s \in Sockets :
    (Live(s) /\ (\/ closer[s] = "done"
                 \/ s # Lsn /\ sock[s].broken
                 \/ closer[s] = "none" /\ closer[Lsn] = "done"))
      ~> sock[s].obj = "deleted"

(* The peer of a connection that was alive to the end and had all its data *)
(* acknowledged has been sent UMSG_SHUTDOWN by the time the object goes.   *)
PeerTold ==
  \A s \in Conns :
    sock[s].obj = "deleted" /\ ~sock[s].broken /\ sock[s].buf = "empty" => sock[s].told

(* What setClosed's description says of a socket closed with data in its   *)
(* send buffer: it "continues to be responsive in the connection in order  *)
(* to finish sending the data that were scheduled" (api.h).                *)
LingerSends ==
  \A s \in Conns :
    (closer[s] = "done" /\ sock[s].linger = "on" /\ sock[s].buf = "unsent")
      ~> (sock[s].buf # "unsent" \/ sock[s].broken)
=============================================================================
