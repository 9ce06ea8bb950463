----------------------------- MODULE SrtHandshake ----------------------------
(***************************************************************************)
(* libsrt's caller-listener handshake, the listener's backlog and the end  *)
(* of its connections (src/srt-1.5.6/srtcore/core.cpp, api.cpp): a blocking*)
(* srt_connect repeats its request every 250 ms until an answer or the end *)
(* of its time; CRcvQueue::worker answers for the listener; the garbage    *)
(* collector takes what broke.  Admission composes it with the server's    *)
(* accept loop.                                                            *)
(*                                                                         *)
(* hsnet is what was ever sent: a packet in it may arrive never, late, or  *)
(* any number of times, which covers loss, reordering, duplication and the *)
(* repetition of requests.  A call is one socket of a caller: its id and   *)
(* initial sequence number, by which the listener knows it again.          *)
(***************************************************************************)
EXTENDS Integers, FiniteSets, FiniteSetsExt

CONSTANTS
  Calls,   \* calls made to the listener
  Sids,    \* sockets the listener may create; the greatest number is the newest
  Backlog  \* argument of srt_listen

ASSUME HandshakeAssumption ==
  /\ Sids \subseteq Nat \ {0}
  /\ \E n \in Sids : \A s \in Sids : s <= n

VARIABLES
  caller, \* "idle" | "induction" | "conclusion" | "connected" | "over"
  peerId, \* the listener's socket a caller is connected to; 0 for none
  sock,   \* the listener's sockets: call, at (m_Sockets: "open"), m_bBroken
  queue,  \* m_QueuedSockets
  aged,   \* calls whose cookie is from before the last minute
  hsnet

hsVars == <<caller, peerId, sock, queue, aged, hsnet>>

NoSock == [call |-> 0, at |-> "none", broken |-> FALSE]

InductionReq(c) == [type |-> "INDREQ", call |-> c]
InductionRsp(c) == [type |-> "INDRSP", call |-> c]
ConclusionReq(c) == [type |-> "CONREQ", call |-> c]
ConclusionRsp(c, s) == [type |-> "CONRSP", call |-> c, sid |-> s]
Reject(c) == [type |-> "REJECT", call |-> c]
ShutdownCaller(c) == [type |-> "SHUTCALL", call |-> c]
ShutdownSock(s) == [type |-> "SHUTSOCK", sid |-> s]

HsInit ==
  /\ caller = [c \in Calls |-> "idle"]
  /\ peerId = [c \in Calls |-> 0]
  /\ sock = [s \in Sids |-> NoSock]
  /\ queue = {} /\ aged = {} /\ hsnet = {}

Posts(ps) == hsnet' = hsnet \cup ps
-----------------------------------------------------------------------------
(* The caller.                                                             *)

Connecting(c) == caller[c] \in {"induction", "conclusion"}

StartConnect(c) ==
  /\ caller[c] = "idle"
  /\ caller' = [caller EXCEPT ![c] = "induction"]
  /\ Posts({InductionReq(c)})
  /\ UNCHANGED <<peerId, sock, queue, aged>>

(* processConnectResponse: the cookie goes back in the conclusion. *)
RecvInductionRsp(c) ==
  /\ caller[c] = "induction" /\ InductionRsp(c) \in hsnet
  /\ caller' = [caller EXCEPT ![c] = "conclusion"]
  /\ Posts({ConclusionReq(c)})
  /\ UNCHANGED <<peerId, sock, queue, aged>>

(* postConnect *)
RecvConclusionRsp(c) ==
  /\ caller[c] = "conclusion"
  /\ \E s \in Sids : /\ ConclusionRsp(c, s) \in hsnet
                     /\ peerId' = [peerId EXCEPT ![c] = s]
  /\ caller' = [caller EXCEPT ![c] = "connected"]
  /\ UNCHANGED <<sock, queue, aged, hsnet>>

(* The attempt ends without a connection: a rejection, a SHUTDOWN of a     *)
(* listener's socket that is gone already, or the time is up.  The caller  *)
(* does not know the listener's socket and cannot tell it.                 *)
ConnectFails(c) ==
  /\ Connecting(c)
  /\ caller' = [caller EXCEPT ![c] = "over"]
  /\ UNCHANGED <<peerId, sock, queue, aged, hsnet>>

(* closeInternal of a connected caller; processCtrlShutdown or             *)
(* checkExpTimer and what the client does about them.                      *)
CallerCloses(c) ==
  /\ caller[c] = "connected"
  /\ caller' = [caller EXCEPT ![c] = "over"]
  /\ Posts({ShutdownSock(peerId[c])})
  /\ UNCHANGED <<peerId, sock, queue, aged>>

CallerLearns(c) ==
  /\ caller[c] = "connected" /\ ShutdownCaller(c) \in hsnet
  /\ caller' = [caller EXCEPT ![c] = "over"]
  /\ UNCHANGED <<peerId, sock, queue, aged, hsnet>>
-----------------------------------------------------------------------------
(* The listener: CRcvQueue::worker, processConnectRequest.                 *)

RecvInductionReq(c) ==
  /\ InductionReq(c) \in hsnet /\ InductionRsp(c) \notin hsnet
  /\ Posts({InductionRsp(c)})
  /\ UNCHANGED <<caller, peerId, sock, queue, aged>>

(* bake: a cookie is good for the minute it is from and the next; a call   *)
(* takes three seconds at most.                                            *)
CookieAges(c) ==
  /\ caller[c] \in {"connected", "over"} /\ c \notin aged
  /\ aged' = aged \cup {c}
  /\ UNCHANGED <<caller, peerId, sock, queue, hsnet>>

(* locatePeer: of the sockets of this call in m_Sockets, the first in      *)
(* their set, which is the newest: generateSocketID counts down.           *)
OfCall(c) == {s \in Sids : sock[s].call = c /\ sock[s].at = "open"}
LocatePeer(c) == IF OfCall(c) = {} THEN 0 ELSE Max(OfCall(c))

Unused == {s \in Sids : sock[s].at = "none"}
NewSid == Min(Unused)

(* newConnection, when no working socket of this call is found (else the   *)
(* answer it had is repeated): a broken one leaves the queue; then, unless *)
(* the backlog is full, a socket is made and queued and the caller told.   *)
Unqueued(c) == IF LocatePeer(c) = 0 THEN queue ELSE queue \ {LocatePeer(c)}
AsksAnewAlways(c) == ConclusionReq(c) \in hsnet /\ c \notin aged
AsksAnew(c) ==
  /\ ConclusionReq(c) \in hsnet /\ c \notin aged
  /\ LocatePeer(c) # 0 => sock[LocatePeer(c)].broken

NewConnection(c) ==
  /\ AsksAnew(c)
  /\ Cardinality(Unqueued(c)) < Backlog
  /\ Unused # {}
  /\ sock' = [sock EXCEPT ![NewSid] = [call |-> c, at |-> "open", broken |-> FALSE]]
  /\ queue' = Unqueued(c) \cup {NewSid}
  /\ Posts({ConclusionRsp(c, NewSid)})
  /\ UNCHANGED <<caller, peerId, aged>>

RejectBacklog(c) ==
  /\ AsksAnew(c)
  /\ Cardinality(Unqueued(c)) >= Backlog
  /\ queue' = Unqueued(c)
  /\ Posts({Reject(c)})
  /\ UNCHANGED <<caller, peerId, sock, aged>>
-----------------------------------------------------------------------------
(* The end of a listener's socket.                                         *)

Alive(s) == sock[s].at = "open" /\ ~sock[s].broken
Breaks(s) == sock' = [sock EXCEPT ![s].broken = TRUE]

(* processCtrlShutdown *)
SockShutdown(s) ==
  /\ Alive(s) /\ ShutdownSock(s) \in hsnet
  /\ Breaks(s)
  /\ UNCHANGED <<caller, peerId, queue, aged, hsnet>>

(* checkExpTimer: nothing heard for 5 s, longer than a caller tries.  The  *)
(* caller is gone, or the network was silent.                              *)
SockIdle(s) ==
  /\ Alive(s) /\ ~Connecting(sock[s].call)
  /\ Breaks(s)
  /\ UNCHANGED <<caller, peerId, queue, aged, hsnet>>

(* checkBrokenSockets moves a broken socket out of m_Sockets and out of    *)
(* the listener's queue; removeSocket closes it, which tells the peer.     *)
Collect(s) ==
  /\ sock[s].at = "open" /\ sock[s].broken
  /\ sock' = [sock EXCEPT ![s].at = "closed"]
  /\ queue' = queue \ {s}
  /\ Posts({ShutdownCaller(sock[s].call)})
  /\ UNCHANGED <<caller, peerId, aged>>

(* srt_close by the server *)
SockCloses(s) ==
  /\ sock' = [sock EXCEPT ![s].at = "closed"]
  /\ Posts(IF sock[s].at = "open" THEN {ShutdownCaller(sock[s].call)} ELSE {})
  /\ UNCHANGED <<caller, peerId, queue, aged>>

(* accept takes the first of m_QueuedSockets, a map by socket id: the      *)
(* newest.                                                                 *)
Newest(s) == queue # {} /\ s = Max(queue)
AcceptPops(s) ==
  /\ Newest(s)
  /\ queue' = queue \ {s}
  /\ UNCHANGED <<caller, peerId, sock, aged, hsnet>>
=============================================================================
