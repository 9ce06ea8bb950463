----------------------------- MODULE AcceptLoop ------------------------------
(***************************************************************************)
(* Admission of clients by the server: accept_loop and the tasks it spawns *)
(* (src/src/server/listener.rs).  The loop reserves one of max_clients     *)
(* slots, accepts one SRT connection and hands slot and connection to a    *)
(* task that authenticates the client and then serves it; whoever ends     *)
(* with the connection gives the slot back.                                *)
(***************************************************************************)
EXTENDS Integers, FiniteSets

CONSTANTS
  Clients,     \* client machines
  max_clients, \* configured limit
  MaxConnects  \* bound: connections each client makes

ASSUME AcceptAssumption ==
  /\ IsFiniteSet(Clients)
  /\ max_clients \in Nat \ {0}
  /\ MaxConnects \in Nat

VARIABLES
  loop,     \* accept_loop: "check" the count, "accept", or "back" off
  count,    \* client_count, an AtomicUsize
  cli,      \* what each client's connection is doing at the server
  connects, \* connections each client has made
  active    \* the metric active_connections

vars == <<loop, count, cli, connects, active>>

Init ==
  /\ loop = "check"
  /\ count = 0
  /\ cli = [c \in Clients |-> "away"]
  /\ connects = [c \in Clients |-> 0]
  /\ active = 0

(* A client dials in; libsrt queues it for srt_accept. *)
Dial(c) ==
  /\ cli[c] = "away"
  /\ connects[c] < MaxConnects
  /\ cli' = [cli EXCEPT ![c] = "queued"]
  /\ connects' = [connects EXCEPT ![c] = @ + 1]
  /\ UNCHANGED <<loop, count, active>>

(* libsrt drops a connection that broke before it was accepted, also to    *)
(* make room for a new one of the same caller.                             *)
HangUp(c) ==
  /\ cli[c] = "queued"
  /\ cli' = [cli EXCEPT ![c] = "away"]
  /\ UNCHANGED <<loop, count, connects, active>>

DialReplaces(old, c) ==
  /\ cli[old] = "queued" /\ cli[c] = "away"
  /\ connects[c] < MaxConnects
  /\ cli' = [cli EXCEPT ![old] = "away", ![c] = "queued"]
  /\ connects' = [connects EXCEPT ![c] = @ + 1]
  /\ UNCHANGED <<loop, count, active>>

(* The loop finds a free slot and reserves it; otherwise it sleeps 1 s. *)
ReserveLate ==
  /\ loop = "check"
  /\ count < max_clients
  /\ loop' = "accept"
  /\ UNCHANGED <<count, cli, connects, active>>
Reserve ==
  /\ loop = "check"
  /\ count < max_clients
  /\ count' = count + 1
  /\ loop' = "accept"
  /\ UNCHANGED <<cli, connects, active>>

Accept(c) ==
  /\ loop = "accept"
  /\ cli[c] = "queued"
  /\ cli' = [cli EXCEPT ![c] = "auth"]
  /\ loop' = "check"
  /\ UNCHANGED <<count, connects, active>>

(* accept_one fails for the connection it took: the slot goes back and     *)
(* the loop waits 500 ms.                                                  *)
AcceptFailsLeak(c) ==
  /\ loop = "accept" /\ cli[c] = "queued"
  /\ cli' = [cli EXCEPT ![c] = "away"]
  /\ loop' = "back"
  /\ UNCHANGED <<count, connects, active>>
AcceptFails(c) ==
  /\ loop = "accept" /\ cli[c] = "queued"
  /\ cli' = [cli EXCEPT ![c] = "away"]
  /\ count' = count - 1
  /\ loop' = "back"
  /\ UNCHANGED <<connects, active>>

BackedOff ==
  /\ loop = "back"
  /\ loop' = "check"
  /\ UNCHANGED <<count, cli, connects, active>>

(* authenticate returns, at the latest after its 10 s timeout. *)
AuthPasses(c) ==
  /\ cli[c] = "auth"
  /\ cli' = [cli EXCEPT ![c] = "serving"]
  /\ active' = active + 1
  /\ UNCHANGED <<loop, count, connects>>

AuthFails(c) ==
  /\ cli[c] = "auth"
  /\ cli' = [cli EXCEPT ![c] = "closing"]
  /\ UNCHANGED <<loop, count, connects, active>>

(* close() has returned: the slot goes back. *)
AuthReleases(c) ==
  /\ cli[c] = "closing"
  /\ cli' = [cli EXCEPT ![c] = "away"]
  /\ count' = count - 1
  /\ UNCHANGED <<loop, connects, active>>

(* handle_client returns: the connection is gone, or was silent for three  *)
(* heartbeat periods.  The slot goes back first, then the metric.          *)
ServeEndsLeak(c) ==
  /\ cli[c] = "serving"
  /\ cli' = [cli EXCEPT ![c] = "metric"]
  /\ UNCHANGED <<loop, count, connects, active>>
ServeEnds(c) ==
  /\ cli[c] = "serving"
  /\ cli' = [cli EXCEPT ![c] = "metric"]
  /\ count' = count - 1
  /\ UNCHANGED <<loop, connects, active>>

MetricDown(c) ==
  /\ cli[c] = "metric"
  /\ cli' = [cli EXCEPT ![c] = "away"]
  /\ active' = active - 1
  /\ UNCHANGED <<loop, count, connects>>

Next ==
  \/ Reserve \/ BackedOff
  \/ \E c \in Clients : \/ Dial(c) \/ HangUp(c) \/ \E d \in Clients : DialReplaces(d, c)
                        \/ Accept(c) \/ AcceptFails(c)
                        \/ AuthPasses(c) \/ AuthFails(c) \/ AuthReleases(c)
                        \/ ServeEnds(c) \/ MetricDown(c)

Spec == Init /\ [][Next]_vars

-----------------------------------------------------------------------------
(* Properties.                                                             *)

Holders == {c \in Clients : cli[c] \in {"auth", "serving", "closing"}}

(* The types: the counter stays between 0 and max_clients (an AtomicUsize  *)
(* taken below zero would stop the loop at listener.rs:62 for good), and   *)
(* the metric never wraps.                                                 *)
TypeOK ==
  /\ loop \in {"check", "accept", "back"}
  /\ count \in 0 .. max_clients
  /\ cli \in [Clients -> {"away", "queued", "auth", "serving", "closing", "metric"}]
  /\ connects \in [Clients -> 0 .. MaxConnects]
  /\ active \in Nat

(* The counter is the number of connections that hold a slot, plus the one *)
(* the loop has reserved: no slot leaks and none is sold twice             *)
(* (listener.rs:32-35 and 68).                                             *)
SlotsExact == count = Cardinality(Holders) + (IF loop = "accept" THEN 1 ELSE 0)

(* At most max_clients connections are authenticated and served at a time. *)
AtMostMaxClients == Cardinality(Holders) <= max_clients
=============================================================================
