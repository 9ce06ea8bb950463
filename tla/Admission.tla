------------------------------ MODULE Admission ------------------------------
(***************************************************************************)
(* The server's accept loop on top of libsrt's listener: AcceptLoop, whose *)
(* clients are the listener's sockets, and SrtHandshake.  A client dials   *)
(* in when newConnection queues its socket; the loop's accept pops the     *)
(* newest; the task that holds a slot gives it back when it closes the     *)
(* socket or learns that it broke.                                         *)
(***************************************************************************)
EXTENDS AcceptLoop, SrtHandshake

ASSUME AdmissionAssumption == Clients = Sids /\ MaxConnects = 1

admVars == <<vars, hsVars>>

AdmInit == Init /\ HsInit

Quiet == UNCHANGED hsVars
Away == UNCHANGED vars

(* A broken socket that newConnection or the collector takes out of the    *)
(* queue never reaches accept.                                             *)
Connects(c) ==
  /\ NewConnection(c)
  /\ \/ queue \subseteq queue' /\ Dial(NewSid)
     \/ \E s \in queue \ queue' : DialReplaces(s, NewSid)
Rejects(c) ==
  /\ RejectBacklog(c)
  /\ IF queue' = queue THEN Away ELSE HangUp(LocatePeer(c))
Collects(s) == Collect(s) /\ (IF s \in queue THEN HangUp(s) ELSE Away)

(* srt_accept; the socket it popped may have been collected before it is   *)
(* looked up, and options cannot be set on one that is.                    *)
Accepts(s) == AcceptPops(s) /\ Accept(s)
AcceptMisses(s) ==
  /\ sock[s].broken
  /\ AcceptPops(s) /\ AcceptFails(s)

(* authenticate: passed when the client was there to answer, failed at the *)
(* latest after 10 s.                                                      *)
Passes(s) == AuthPasses(s) /\ peerId[sock[s].call] = s /\ Quiet
FailsOnLoss(s) == ~Alive(s) /\ AuthFails(s) /\ Quiet
Fails(s) == AuthFails(s) /\ Quiet
Releases(s) == AuthReleases(s) /\ SockCloses(s)

(* handle_client returns when receiving fails, or after three periods of   *)
(* silence; the socket is closed with the connection's last owner.         *)
LeavesServing(s) ==
  /\ ServeEnds(s)
  /\ Alive(s) => caller[sock[s].call] # "connected"
  /\ Quiet
CountsDown(s) == MetricDown(s) /\ Quiet
DropCloses(s) ==
  /\ cli[s] \in {"metric", "away"} /\ connects[s] = 1 /\ Alive(s)
  /\ SockCloses(s) /\ Away

SockEnds(s) == (SockShutdown(s) \/ SockIdle(s)) /\ Away
LoopSteps == (Reserve \/ BackedOff) /\ Quiet
CallerSteps(c) ==
  /\ \/ StartConnect(c) \/ RecvInductionRsp(c) \/ RecvConclusionRsp(c)
     \/ ConnectFails(c) \/ CallerCloses(c) \/ CallerLearns(c)
     \/ RecvInductionReq(c) \/ CookieAges(c)
  /\ Away

AdmNext ==
  \/ LoopSteps
  \/ \E c \in Calls : CallerSteps(c) \/ Connects(c) \/ Rejects(c)
  \/ \E s \in Sids : \/ SockEnds(s)
                     \/ Collects(s)
                     \/ Accepts(s) \/ AcceptMisses(s)
                     \/ Passes(s) \/ Fails(s) \/ Releases(s)
                     \/ LeavesServing(s) \/ CountsDown(s)
                     \/ DropCloses(s)

(* Fairness.  The loop, the tasks and libsrt's threads run.  Timers fire:  *)
(* the caller's 3 s, authentication's 10 s, the idle timer of a socket     *)
(* whose peer is gone.  Clients that are served leave in the end; nothing  *)
(* forces one that waits to leave, and no packet need arrive.              *)
Gone(s) == Alive(s) /\ caller[sock[s].call] # "connected"
Idles(s) == Gone(s) /\ SockIdle(s) /\ Away
GivesUp(c) == ConnectFails(c) /\ Away
LeavesServed(c) ==
  /\ caller[c] = "connected"
  /\ cli[peerId[c]] = "serving" \/ ~Alive(peerId[c])
  /\ CallerCloses(c) /\ Away

AdmFairness ==
  /\ WF_admVars(LoopSteps)
  /\ WF_admVars(\E s \in Sids : Accepts(s) \/ AcceptMisses(s))
  /\ \A c \in Calls : WF_admVars(GivesUp(c)) /\ WF_admVars(LeavesServed(c))
  /\ \A s \in Sids :
       /\ WF_admVars(Fails(s)) /\ WF_admVars(Releases(s))
       /\ WF_admVars(LeavesServing(s)) /\ WF_admVars(CountsDown(s)) /\ WF_admVars(DropCloses(s))
       /\ WF_admVars(Idles(s)) /\ WF_admVars(Collects(s))

AdmSpec == AdmInit /\ [][AdmNext]_admVars /\ AdmFairness
-----------------------------------------------------------------------------
(* Properties.                                                             *)

(* A call has at most one working connection at the server, whatever       *)
(* requests are repeated, duplicated or late: also one that comes when the *)
(* connection broke already, or a second time after that (api.cpp:646-667).*)
OneConnectionPerCall ==
  \A s, t \in Sids : Alive(s) /\ Alive(t) /\ sock[s].call = sock[t].call => s = t

(* Every slot is given back, also one taken by a connection whose caller   *)
(* never learned that it was accepted, has left without a word, or never   *)
(* answers the challenge (listener.rs:32-35, 173).  It is assumed that     *)
(* close() returns, which SrtConn shows it may not (CloseReturns).         *)
SlotsComeBack ==
  \A s \in Sids : cli[s] \in {"auth", "serving", "closing"} ~> cli[s] = "away"

(* No connection waits in the queue for ever, although the newest is       *)
(* accepted first, slots run out, and accept fails for connections that    *)
(* broke (api.cpp:1276, listener.rs:62).  For finitely many calls: with a  *)
(* steady stream of new ones the oldest is never reached.  Like            *)
(* SlotsComeBack it assumes that close() returns.                          *)
Reached == \A s \in Sids : s \in queue ~> s \notin queue
=============================================================================
