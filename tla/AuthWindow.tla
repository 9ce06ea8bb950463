----------------------------- MODULE AuthWindow ------------------------------
(***************************************************************************)
(* The start of a tunnel as the server sees it: authenticate and the       *)
(* replay in handle_client (src/src/server/listener.rs).  The client opens *)
(* sessions as soon as the SRT connection is up and answers the CHALLENGE  *)
(* when it arrives (src/src/client/mod.rs), so session frames may reach    *)
(* the server before the RESPONSE.  authenticate keeps them, decoded but   *)
(* not put through a decoder's table; handle_client dispatches them and    *)
(* starts with an empty MuxDecoder.                                        *)
(*                                                                         *)
(* The encoder, the queues and the decoder are those of MuxReorder in the  *)
(* opener's direction.                                                     *)
(***************************************************************************)
EXTENDS MuxReorder

VARIABLES
  auth,      \* "wait" for the RESPONSE, "serving" or "refused"
  window,    \* frames kept until then
  responded, \* the client has queued its RESPONSE
  before     \* history: where each session was when it did

authVars == <<auth, window, responded, before>>
allVars  == <<vars, authVars>>

Response == [ftype |-> "Response"]

(* handle_challenge: the RESPONSE goes to the reliable queue. *)
SendResponse ==
  /\ ~responded
  /\ responded' = TRUE
  /\ before' = session
  /\ relq' = Append(relq, Response)
  /\ UNCHANGED <<senderVars, prioq, relTurn, net, decoderVars, dups, auth, window>>

(* A message that is not the RESPONSE is kept when it is a session frame.  *)
(* The other types a client may send then are heartbeats and datagrams,    *)
(* which are not part of this model.                                       *)
Kept(f) == f.ftype \in {"Open", "Data", "Fin", "Close"}

AuthKeeps ==
  /\ auth = "wait"
  /\ net # <<>>
  /\ Head(net) # Response
  /\ window' = IF Kept(Head(net)) THEN Append(window, Head(net)) ELSE window
  /\ net' = Tail(net)
  /\ UNCHANGED <<senderVars, threadVars, decoderVars, dups, auth, responded, before>>

(* The RESPONSE is right: handle_client dispatches what was kept. *)
Replay(w) == [sid \in Sids |-> got[sid] \o SelectSeq(w, LAMBDA f : f.sid = sid)]

AuthAccepts ==
  /\ auth = "wait"
  /\ net # <<>>
  /\ Head(net) = Response
  /\ auth' = "serving"
  /\ got' = Replay(window)
  /\ window' = <<>>
  /\ net' = Tail(net)
  /\ UNCHANGED <<senderVars, threadVars, states, preopen, dups, responded, before>>

(* The RESPONSE is wrong, or none came for 10 s. *)
AuthRefuses ==
  /\ auth = "wait"
  /\ auth' = "refused"
  /\ UNCHANGED <<vars, window, responded, before>>

(* The receive loop of handle_client. *)
Serve ==
  /\ auth = "serving"
  /\ \E i \in Arrivable : Receive(i)
  /\ UNCHANGED authVars

ClientSends ==
  /\ \/ \E sid \in Sids : OpenSession(sid, FALSE) \/ SendData(sid) \/ SendFin(sid) \/ SendClose(sid)
     \/ SendThread
  /\ UNCHANGED authVars

AuthInit ==
  /\ Init
  /\ auth = "wait"
  /\ window = <<>>
  /\ responded = FALSE
  /\ before = session

AuthNext == SendResponse \/ AuthKeeps \/ AuthAccepts \/ AuthRefuses \/ Serve \/ ClientSends

AuthSpec == AuthInit /\ [][AuthNext]_allVars

-----------------------------------------------------------------------------
(* Properties.                                                             *)

(* What a session sent before the RESPONSE is dispatched when the server   *)
(* starts to serve ("不再丢弃", listener.rs:171).                          *)
WindowDelivered ==
  auth = "serving" =>
    \A sid \in Sids :
      before[sid].pos > 0 => Delivered(sid, before[sid].gen, before[sid].pos - 1)

(* Serving a session does not depend on whether it was opened before or    *)
(* after the RESPONSE ("必须与正常路径完全一致", listener.rs:359): when    *)
(* nothing is under way, all that sessions sent has been dispatched.       *)
ServedAlike == auth = "serving" => QuietComplete
=============================================================================
