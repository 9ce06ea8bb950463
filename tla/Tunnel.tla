------------------------------- MODULE Tunnel --------------------------------
(***************************************************************************)
(* TCP connections carried over one tunnel.  The client end runs, for each *)
(* proxied connection, start_forward_with_reply and forward_loop           *)
(* (src/src/client/proxy.rs); the server end runs the dispatcher           *)
(* dispatch_one_frame (src/src/server/listener.rs) and, for each Open, a   *)
(* task handle_open_with_rx / start_tcp_forward (src/src/server/forward.rs)*)
(* The ends share nothing but the two directions of the SRT connection.    *)
(* MuxReorder shows that for TCP sessions the multiplexing layer hands the *)
(* frames of a direction to the dispatcher as they were sent, so a         *)
(* direction is a queue here.                                              *)
(*                                                                         *)
(* A frame carries its session id and no identity of the connection: the   *)
(* field conn is history, read only by properties and by the dispatcher of *)
(* an Open, where it names the task that is spawned.                       *)
(***************************************************************************)
EXTENDS SessionRegistry, Sequences

CONSTANTS
  MaxUp,     \* bound: Data frames the client sends for a connection
  MaxDown,   \* bound: Data frames the server sends for a connection
  MayBreak   \* TRUE: the SRT connection may be lost

ASSUME TunnelAssumption == {MaxUp, MaxDown} \subseteq Nat /\ MayBreak \in BOOLEAN

Conns == Owners

VARIABLES
  creg,    \* client: registry
  next_id, \* client: where allocate continues, modulo MAX_SESSIONS
  cl,      \* client: forwarding task of each connection
  cchan,   \* client: events waiting in the channel of each connection
  app,     \* client: what was written to the local socket
  sreg,    \* server: registry
  srv,     \* server: forwarding task of each connection
  schan,   \* server: events waiting in the channel of each connection
  tgt,     \* server: what was written to the target
  link,    \* TRUE while the SRT connection is up
  up, down,   \* frames under way to the server and to the client
  cliUp, srvUp \* the receive loop of each end is running

clientVars == <<creg, next_id, cl, cchan, app>>
serverVars == <<sreg, srv, schan, tgt>>
linkVars   == <<link, cliUp, srvUp>>
vars == <<creg, next_id, cl, cchan, app, sreg, srv, schan, tgt, link, up, down, cliUp, srvUp>>

NoTask == [phase |-> "idle", sid |-> 0, eof |-> FALSE, fin |-> FALSE, sent |-> 0]

Msg(ftype, sid, c, n) == [ftype |-> ftype, sid |-> sid, conn |-> c, n |-> n]

(* A send on the SRT connection.  While it is up the frame is queued.      *)
(* After it is lost a send fails if the closed flag is already set, and    *)
(* queues a frame that goes nowhere otherwise.                             *)
PutFirst(queue, queuePrime, m, ok) ==
  \/ link /\ ok /\ queuePrime = <<m>> \o queue
  \/ ~link /\ queuePrime = queue
Put(queue, queuePrime, m, ok) ==
  \/ link /\ ok /\ queuePrime = Append(queue, m)
  \/ ~link /\ queuePrime = queue

-----------------------------------------------------------------------------
(* What both forwarding loops do to the task t: eof is client_eof or       *)
(* target_eof, fin is peer_fin, and leaving the loop is phase "exit".      *)

Leave(t) == [t EXCEPT !.phase = "exit"]

(* A read returned data, which is sent; a failed send leaves the loop. *)
AfterRead(t, ok) == IF ok THEN [t EXCEPT !.sent = @ + 1] ELSE Leave(t)

(* A read returned end of file, Fin is sent; both sides done: leave. *)
AfterEof(t, ok) ==
  IF ok THEN [t EXCEPT !.eof = TRUE, !.phase = IF t.fin THEN "exit" ELSE @] ELSE Leave(t)

(* An event was taken from the channel; write tells whether the socket     *)
(* took the data.                                                          *)
AfterEventNoHalfClose(t, ftype, write) ==
  CASE ftype = "Data" -> IF write THEN t ELSE Leave(t)
    [] ftype = "Fin"  -> [t EXCEPT !.fin = TRUE]
    [] ftype = "Close" -> Leave(t)
AfterEvent(t, ftype, write) ==
  CASE ftype = "Data" -> IF write THEN t ELSE Leave(t)
    [] ftype = "Fin"  -> [t EXCEPT !.fin = TRUE, !.phase = IF t.eof THEN "exit" ELSE @]
    [] ftype = "Close" -> Leave(t)

(* The select branch on the channel is disabled once the peer has sent Fin. *)
Listening(t) == t.phase = "loop" /\ ~t.fin

(* registry.route: the event joins the channel of the id's owner, unless   *)
(* there is none or its receiver is gone.  dead is the set of connections  *)
(* whose receiver was dropped.                                             *)
Routable(reg, sid, dead) == reg[sid] # NoOwner /\ reg[sid] \notin dead

RouteUnlessFull(chan, reg, dead, m) ==
  IF Routable(reg, m.sid, dead) /\ chan[reg[m.sid]] = <<>>
  THEN [chan EXCEPT ![reg[m.sid]] = Append(@, m)]
  ELSE chan
Route(chan, reg, dead, m) ==
  IF Routable(reg, m.sid, dead)
  THEN [chan EXCEPT ![reg[m.sid]] = Append(@, m)]
  ELSE chan

(* dispatch_frame turns a Rst into a Close event. *)
AsEvent(m) == IF m.ftype = "Rst" THEN [m EXCEPT !.ftype = "Close"] ELSE m

-----------------------------------------------------------------------------
(* The client's task.                                                      *)

(* registry.allocate; a full table refuses the connection. *)
Allocate(c) ==
  /\ cl[c].phase = "idle"
  /\ IF Full(creg)
     THEN /\ cl' = [cl EXCEPT ![c].phase = "done"]
          /\ UNCHANGED <<creg, next_id>>
     ELSE LET sid == FirstFree(creg, next_id) IN
          /\ creg' = Insert(creg, sid, c)
          /\ next_id' = NextId(sid)
          /\ cl' = [cl EXCEPT ![c] = [@ EXCEPT !.phase = "open", !.sid = sid]]
  /\ UNCHANGED <<cchan, app, serverVars, linkVars, up, down>>

ClientTask(c, t) ==
  /\ cl' = [cl EXCEPT ![c] = t]
  /\ UNCHANGED <<creg, next_id, serverVars, linkVars, down>>

(* send_open. *)
ClientOpen(c, ok) ==
  /\ cl[c].phase = "open"
  /\ Put(up, up', Msg("Open", cl[c].sid, c, 0), ok)
  /\ ClientTask(c, IF ok THEN [cl[c] EXCEPT !.phase = "loop"] ELSE Leave(cl[c]))
  /\ UNCHANGED <<cchan, app>>

ClientRead(c, ok) ==
  /\ cl[c].phase = "loop" /\ ~cl[c].eof
  /\ cl[c].sent < MaxUp
  /\ Put(up, up', Msg("Data", cl[c].sid, c, cl[c].sent + 1), ok)
  /\ ClientTask(c, AfterRead(cl[c], ok))
  /\ UNCHANGED <<cchan, app>>

ClientEof(c, ok) ==
  /\ cl[c].phase = "loop" /\ ~cl[c].eof
  /\ Put(up, up', Msg("Fin", cl[c].sid, c, 0), ok)
  /\ ClientTask(c, AfterEof(cl[c], ok))
  /\ UNCHANGED <<cchan, app>>

(* A read error, a failed write of the reply, or the idle watchdog. *)
ClientFail(c) ==
  /\ cl[c].phase = "loop"
  /\ ClientTask(c, Leave(cl[c]))
  /\ UNCHANGED <<cchan, app, up>>

ClientEvent(c, write) ==
  /\ Listening(cl[c])
  /\ cchan[c] # <<>>
  /\ LET m == Head(cchan[c]) IN
       /\ ClientTask(c, AfterEvent(cl[c], m.ftype, write))
       /\ app' = IF m.ftype = "Data" /\ write THEN [app EXCEPT ![c] = Append(@, m)] ELSE app
  /\ cchan' = [cchan EXCEPT ![c] = Tail(@)]
  /\ UNCHANGED up

(* recv_event returned None: the Sender left the registry. *)
ClientChannelClosed(c) ==
  /\ Listening(cl[c])
  /\ cchan[c] = <<>>
  /\ creg[cl[c].sid] # c
  /\ ClientTask(c, Leave(cl[c]))
  /\ UNCHANGED <<cchan, app, up>>

(* start_forward_with_reply sends Close after the loop, whatever ended it. *)
ClientCloseSilent(c, ok) ==
  /\ cl[c].phase = "exit" /\ ok
  /\ ClientTask(c, [cl[c] EXCEPT !.phase = "drop"])
  /\ UNCHANGED <<cchan, app, up>>
ClientClose(c, ok) ==
  /\ cl[c].phase = "exit"
  /\ Put(up, up', Msg("Close", cl[c].sid, c, 0), ok)
  /\ ClientTask(c, [cl[c] EXCEPT !.phase = "drop"])
  /\ UNCHANGED <<cchan, app>>

(* Drop of the TunnelSession: the id leaves the registry. *)
ClientDropLeaks(c) ==
  /\ cl[c].phase = "drop"
  /\ cl' = [cl EXCEPT ![c].phase = "done"]
  /\ cchan' = [cchan EXCEPT ![c] = <<>>]
  /\ UNCHANGED <<creg, next_id, app, serverVars, linkVars, up, down>>
ClientDrop(c) ==
  /\ cl[c].phase = "drop"
  /\ cl' = [cl EXCEPT ![c].phase = "done"]
  /\ creg' = Remove(creg, cl[c].sid)
  /\ cchan' = [cchan EXCEPT ![c] = <<>>]
  /\ UNCHANGED <<next_id, app, serverVars, linkVars, up, down>>

(* The client's receive loop, run_recv_inner: Data, Fin, Close and Rst are *)
(* routed, and what cannot be routed is dropped.                           *)
ClientDispatch ==
  /\ cliUp
  /\ down # <<>>
  /\ down' = Tail(down)
  /\ cchan' = Route(cchan, creg, {}, AsEvent(Head(down)))
  /\ UNCHANGED <<creg, next_id, cl, app, serverVars, linkVars, up>>

-----------------------------------------------------------------------------
(* The server's dispatcher, dispatch_one_frame.                            *)

(* Tasks that returned from start_tcp_forward: their receiver is gone. *)
Dead == {c \in Conns : srv[c].phase \in {"notify", "cleanup", "done"}}

DispatchData ==
  /\ srvUp
  /\ up # <<>>
  /\ Head(up).ftype = "Data"
  /\ up' = Tail(up)
  /\ schan' = Route(schan, sreg, Dead, Head(up))
  /\ IF Routable(sreg, Head(up).sid, Dead)
     THEN UNCHANGED down
     ELSE \E ok \in BOOLEAN : Put(down, down', Msg("Rst", Head(up).sid, Head(up).conn, 0), ok)
  /\ UNCHANGED <<clientVars, sreg, srv, tgt, linkVars>>

DispatchEnd ==
  /\ srvUp
  /\ up # <<>>
  /\ Head(up).ftype \in {"Fin", "Close"}
  /\ up' = Tail(up)
  /\ schan' = Route(schan, sreg, Dead, Head(up))
  /\ UNCHANGED <<clientVars, sreg, srv, tgt, linkVars, down>>

(* Open of a free id: the channel is registered, then the task spawned. *)
DispatchOpenUnregistered ==
  /\ srvUp
  /\ up # <<>>
  /\ Head(up).ftype = "Open"
  /\ Registrable(sreg, Head(up).sid)
  /\ up' = Tail(up)
  /\ srv' = [srv EXCEPT ![Head(up).conn] = [NoTask EXCEPT !.phase = "connect", !.sid = Head(up).sid]]
  /\ UNCHANGED <<clientVars, sreg, schan, tgt, linkVars, down>>
DispatchOpen ==
  /\ srvUp
  /\ up # <<>>
  /\ Head(up).ftype = "Open"
  /\ Registrable(sreg, Head(up).sid)
  /\ up' = Tail(up)
  /\ sreg' = Insert(sreg, Head(up).sid, Head(up).conn)
  /\ srv' = [srv EXCEPT ![Head(up).conn] = [NoTask EXCEPT !.phase = "connect", !.sid = Head(up).sid]]
  /\ UNCHANGED <<clientVars, schan, tgt, linkVars, down>>

(* Open of an id that is taken: a Close is sent back. *)
DispatchReject ==
  /\ srvUp
  /\ up # <<>>
  /\ Head(up).ftype = "Open"
  /\ ~Registrable(sreg, Head(up).sid)
  /\ up' = Tail(up)
  /\ srv' = [srv EXCEPT ![Head(up).conn] = [NoTask EXCEPT !.phase = "refused", !.sid = Head(up).sid]]
  /\ \E ok \in BOOLEAN : Put(down, down', Msg("Close", Head(up).sid, Head(up).conn, 0), ok)
  /\ UNCHANGED <<clientVars, sreg, schan, tgt, linkVars>>

-----------------------------------------------------------------------------
(* The server's task.                                                      *)

ServerTask(c, t) ==
  /\ srv' = [srv EXCEPT ![c] = t]
  /\ UNCHANGED <<clientVars, linkVars, up>>

(* The target accepts the connection, or it fails or takes over 3 s; then  *)
(* start_tcp_forward returns before there is a TunnelSession to drop.      *)
ServerConnect(c, ok) ==
  /\ srv[c].phase = "connect"
  /\ ServerTask(c, [srv[c] EXCEPT !.phase = IF ok THEN "loop" ELSE "notify"])
  /\ UNCHANGED <<sreg, schan, tgt, down>>

ServerRead(c, ok) ==
  /\ srv[c].phase = "loop" /\ ~srv[c].eof
  /\ srv[c].sent < MaxDown
  /\ Put(down, down', Msg("Data", srv[c].sid, c, srv[c].sent + 1), ok)
  /\ ServerTask(c, AfterRead(srv[c], ok))
  /\ UNCHANGED <<sreg, schan, tgt>>

ServerEof(c, ok) ==
  /\ srv[c].phase = "loop" /\ ~srv[c].eof
  /\ Put(down, down', Msg("Fin", srv[c].sid, c, 0), ok)
  /\ ServerTask(c, AfterEof(srv[c], ok))
  /\ UNCHANGED <<sreg, schan, tgt>>

(* A read error or the idle watchdog. *)
ServerFail(c) ==
  /\ srv[c].phase = "loop"
  /\ ServerTask(c, Leave(srv[c]))
  /\ UNCHANGED <<sreg, schan, tgt, down>>

ServerEvent(c, write) ==
  /\ Listening(srv[c])
  /\ schan[c] # <<>>
  /\ LET m == Head(schan[c]) IN
       /\ ServerTask(c, AfterEvent(srv[c], m.ftype, write))
       /\ tgt' = IF m.ftype = "Data" /\ write THEN [tgt EXCEPT ![c] = Append(@, m)] ELSE tgt
  /\ schan' = [schan EXCEPT ![c] = Tail(@)]
  /\ UNCHANGED <<sreg, down>>

ServerChannelClosed(c) ==
  /\ Listening(srv[c])
  /\ schan[c] = <<>>
  /\ sreg[srv[c].sid] # c
  /\ ServerTask(c, Leave(srv[c]))
  /\ UNCHANGED <<sreg, schan, tgt, down>>

(* start_tcp_forward returns: Drop of the TunnelSession removes the id. *)
ServerDrop(c) ==
  /\ srv[c].phase = "exit"
  /\ ServerTask(c, [srv[c] EXCEPT !.phase = "notify"])
  /\ sreg' = Remove(sreg, srv[c].sid)
  /\ schan' = [schan EXCEPT ![c] = <<>>]
  /\ UNCHANGED <<tgt, down>>

(* notify_session_closed. *)
ServerNotify(c, ok) ==
  /\ srv[c].phase = "notify"
  /\ Put(down, down', Msg("Close", srv[c].sid, c, 0), ok)
  /\ ServerTask(c, [srv[c] EXCEPT !.phase = "cleanup"])
  /\ schan' = [schan EXCEPT ![c] = <<>>]
  /\ UNCHANGED <<sreg, tgt>>

(* The spawned block removes the id once more. *)
ServerCleanup(c) ==
  /\ srv[c].phase = "cleanup"
  /\ ServerTask(c, [srv[c] EXCEPT !.phase = "done"])
  /\ sreg' = Remove(sreg, srv[c].sid)
  /\ UNCHANGED <<schan, tgt, down>>

-----------------------------------------------------------------------------
(* The SRT connection is lost: the last frames under way never arrive.     *)
LinkBreak ==
  /\ MayBreak
  /\ link
  /\ link' = FALSE
  /\ \E n \in 0 .. Len(up) : up' = SubSeq(up, 1, n)
  /\ \E n \in 0 .. Len(down) : down' = SubSeq(down, 1, n)
  /\ UNCHANGED <<clientVars, serverVars, cliUp, srvUp>>

(* A receive loop ends: close_all empties its registry. *)
ClientLost ==
  /\ ~link /\ cliUp /\ down = <<>>
  /\ cliUp' = FALSE
  /\ creg' = NoSessions
  /\ UNCHANGED <<next_id, cl, cchan, app, serverVars, link, srvUp, up, down>>

ServerLost ==
  /\ ~link /\ srvUp /\ up = <<>>
  /\ srvUp' = FALSE
  /\ sreg' = NoSessions
  /\ UNCHANGED <<clientVars, srv, schan, tgt, link, cliUp, up, down>>

-----------------------------------------------------------------------------
Init ==
  /\ creg = NoSessions
  /\ next_id = 1
  /\ cl = [c \in Conns |-> NoTask]
  /\ cchan = [c \in Conns |-> <<>>]
  /\ app = [c \in Conns |-> <<>>]
  /\ sreg = NoSessions
  /\ srv = [c \in Conns |-> NoTask]
  /\ schan = [c \in Conns |-> <<>>]
  /\ tgt = [c \in Conns |-> <<>>]
  /\ link = TRUE
  /\ up = <<>>
  /\ down = <<>>
  /\ cliUp = TRUE
  /\ srvUp = TRUE

(* What a task does without waiting for its socket or its timer. *)
ClientStep(c) ==
  \/ \E ok \in BOOLEAN : \/ ClientOpen(c, ok)
                         \/ ClientEvent(c, ok)
                         \/ ClientClose(c, ok)
  \/ ClientChannelClosed(c)
  \/ ClientDrop(c)

ServerStep(c) ==
  \/ \E ok \in BOOLEAN : \/ ServerConnect(c, ok)
                         \/ ServerEvent(c, ok)
                         \/ ServerNotify(c, ok)
  \/ ServerChannelClosed(c)
  \/ ServerDrop(c)
  \/ ServerCleanup(c)

ServerDispatch == DispatchData \/ DispatchEnd \/ DispatchOpen \/ DispatchReject

Lost == ClientLost \/ ServerLost

Next ==
  \/ \E c \in Conns :
       \/ Allocate(c) \/ ClientStep(c) \/ ClientFail(c)
       \/ ServerStep(c) \/ ServerFail(c)
       \/ \E ok \in BOOLEAN : \/ ClientRead(c, ok) \/ ClientEof(c, ok)
                              \/ ServerRead(c, ok) \/ ServerEof(c, ok)
  \/ ClientDispatch
  \/ ServerDispatch
  \/ LinkBreak
  \/ Lost

Spec == Init /\ [][Next]_vars

(* The tasks and the receive loops keep being scheduled, a connect ends    *)
(* within 3 s, and a lost connection is noticed.  Sockets owe nothing.     *)
FairSpec ==
  /\ Spec
  /\ \A c \in Conns : WF_vars(ClientStep(c)) /\ WF_vars(ServerStep(c))
  /\ WF_vars(ClientDispatch)
  /\ WF_vars(ServerDispatch)
  /\ WF_vars(ClientLost)
  /\ WF_vars(ServerLost)

(* The idle watchdog of each loop fires after 300 s without data; the data *)
(* a connection carries is bounded here.                                   *)
Watchdogs == \A c \in Conns : WF_vars(ClientFail(c)) /\ WF_vars(ServerFail(c))

-----------------------------------------------------------------------------
(* Properties.                                                             *)

Frames == [ftype : {"Open", "Data", "Fin", "Close", "Rst"}, sid : Sids, conn : Conns, n : Nat]
Events == [ftype : {"Data", "Fin", "Close"}, sid : Sids, conn : Conns, n : Nat]
Tasks(phases) ==
  [phase : phases, sid : Sids \cup {0}, eof : BOOLEAN, fin : BOOLEAN, sent : Nat]

(* The types.  In particular no frame carries the reserved id 0, and a     *)
(* channel only ever holds Data, Fin and Close (dispatch.rs:38-45).        *)
TypeOK ==
  /\ creg \in Registries /\ sreg \in Registries
  /\ next_id \in 0 .. (MAX_SESSIONS - 1)
  /\ cl \in [Conns -> Tasks({"idle", "open", "loop", "exit", "drop", "done"})]
  /\ srv \in [Conns -> Tasks({"idle", "refused", "connect", "loop", "exit", "notify", "cleanup", "done"})]
  /\ cchan \in [Conns -> Seq(Events)] /\ schan \in [Conns -> Seq(Events)]
  /\ app \in [Conns -> Seq(Events)] /\ tgt \in [Conns -> Seq(Events)]
  /\ up \in Seq(Frames) /\ down \in Seq(Frames)
  /\ {link, cliUp, srvUp} \subseteq BOOLEAN

(* The bytes s were sent by the other side of connection c, from the       *)
(* first on, in order.                                                     *)
StreamOf(c, s) == \A i \in DOMAIN s : s[i].conn = c /\ s[i].n = i

(* A target only receives the byte stream of its own connection, in order  *)
(* and without a hole, even while ids are reused and the connection to the *)
(* client is lost (proxy.rs:177, forward.rs:654).                          *)
TargetIsolation == \A c \in Conns : StreamOf(c, tgt[c])

(* The same for the local application (proxy.rs:187).                      *)
AppIsolation == \A c \in Conns : StreamOf(c, app[c])

(* Both directions of every connection. *)
StreamsIsolated == TargetIsolation /\ AppIsolation

(* No byte of a stream is lost, repeated or overtaken on its way through   *)
(* the queues, the session channel and the loop that writes it, in either  *)
(* direction, whatever fails on the way (proxy.rs:177, proxy.rs:187,       *)
(* forward.rs:654).                                                        *)
InOrder(s) == \A i \in DOMAIN s : s[i].n = i
StreamsInOrder == \A c \in Conns : InOrder(tgt[c]) /\ InOrder(app[c])

(* Half close loses no tail (dispatch.rs:368): when one side's Fin is      *)
(* processed, all it had sent has been written.                            *)
CompleteAtFin ==
  \A c \in Conns :
    /\ srv[c].fin => Len(tgt[c]) = cl[c].sent
    /\ cl[c].fin => Len(app[c]) = srv[c].sent

(* A Data frame that cannot be routed belongs to a session whose task is   *)
(* over (listener.rs:375): a Rst never goes out for a running one.         *)
UnroutableMeansDead ==
  \A i \in DOMAIN down :
    down[i].ftype = "Rst" => srv[down[i].conn].phase \notin {"connect", "loop"}

(* An Open finds its id taken only if the client broke the protocol        *)
(* (listener.rs:425), which the client of this specification never does.   *)
(* The code does not guarantee it: TunnelRefused.cfg.                      *)
NeverRefused == \A c \in Conns : srv[c].phase # "refused"

(* A session that is told of its end, by Close or Rst, stops sending       *)
(* (forward.rs:81): it is still able to take the event.  The code does not *)
(* guarantee it: TunnelDeaf.cfg.                                           *)
HearsClose ==
  \A c \in Conns :
    (cl[c].phase = "loop" /\ \E i \in DOMAIN cchan[c] : cchan[c][i].ftype = "Close")
      => Listening(cl[c])

(* When both sides of a connection have reached end of file, the session   *)
(* is over on both ends without the help of a timer, unless the SRT        *)
(* connection is lost (proxy.rs:199, forward.rs:665).                      *)
HalfClosesFinish ==
  \A c \in Conns :
    (cl[c].eof /\ srv[c].eof) ~> ((cl[c].phase = "done" /\ srv[c].phase = "done") \/ ~link)

(* After the SRT connection is lost every session of both ends is released *)
(* for good, also one opened while the loss was being noticed, for which   *)
(* the watchdogs are needed (dispatch.rs:139-146, proxy.rs:145-148).       *)
LossReleasesAll == Watchdogs => (~link ~> [](creg = NoSessions /\ sreg = NoSessions))
=============================================================================
