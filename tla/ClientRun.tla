------------------------------ MODULE ClientRun ------------------------------
(***************************************************************************)
(* The life of the client process: run, connect_with_retry and recv_loop   *)
(* (src/src/client/mod.rs) and serve (src/src/client/socks5.rs).  The      *)
(* process connects, serves SOCKS5 on the tunnel until it is lost, and     *)
(* connects again.                                                         *)
(***************************************************************************)
EXTENDS Integers

CONSTANTS
  max_retries, \* configured; negative for no limit
  MaxTunnels,  \* bound: tunnels brought up
  MaxFails     \* bound: where the history counters stop

ASSUME RunAssumption == max_retries \in Int /\ {MaxTunnels, MaxFails} \subseteq Nat

VARIABLES
  pc,       \* run: "dial" first, "retry", "redial", "bind", "serve", "exit"
  attempt,  \* failures counted by run, or by connect_with_retry at first
  tunnel,   \* the SRT connection: "none", "new", "authed", "lost"
  recv,     \* receive task: "none", "running", "ended", "aborted"
  signal,   \* tunnel_closed as serve will see it
  registry, \* sessions of the current tunnel: "none", "open", "closed"
  active,   \* the metric active_connections
  tunnels,  \* tunnels brought up so far
  dials,    \* history: SRT connects that failed in a row
  fails     \* history: connects in a row that led to no authenticated tunnel

history == <<dials, fails>>
vars == <<pc, attempt, tunnel, recv, signal, registry, active, tunnels, dials, fails>>

Init ==
  /\ pc = "dial" /\ attempt = 0 /\ tunnel = "none" /\ recv = "none" /\ signal = FALSE
  /\ registry = "none" /\ active = 0 /\ tunnels = 0 /\ dials = 0 /\ fails = 0

GivesUpOffByOne(n) == max_retries >= 0 /\ n > max_retries + 1
GivesUp(n) == max_retries >= 0 /\ n > max_retries

OneMore(n) == IF n < MaxFails THEN n + 1 ELSE n

(* The SRT connection is up: attempt is set to 0, encoder, registry and    *)
(* tasks are new.                                                          *)
TunnelUp ==
  /\ tunnels < MaxTunnels
  /\ tunnels' = tunnels + 1
  /\ pc' = "bind"
  /\ attempt' = 0
  /\ tunnel' = "new"
  /\ recv' = "running"
  /\ signal' = FALSE
  /\ registry' = "open"
  /\ active' = active + 1
  /\ dials' = 0
  /\ UNCHANGED fails

(* An SRT connect failed. *)
CountFailure == dials' = OneMore(dials) /\ fails' = OneMore(fails)

(* connect_with_retry: one round. *)
FirstDialOk == pc = "dial" /\ TunnelUp

FirstDialFails ==
  /\ pc = "dial"
  /\ attempt' = attempt + 1
  /\ CountFailure
  /\ pc' = IF GivesUp(attempt + 1) THEN "exit" ELSE "dial"
  /\ UNCHANGED <<tunnel, recv, signal, registry, active, tunnels>>

(* The tunnel was lost: count, give up or wait and dial. *)
Retry ==
  /\ pc = "retry"
  /\ attempt' = attempt + 1
  /\ pc' = IF GivesUp(attempt + 1) THEN "exit" ELSE "redial"
  /\ UNCHANGED <<tunnel, recv, signal, registry, active, tunnels, history>>

RedialOk == pc = "redial" /\ TunnelUp

RedialFails ==
  /\ pc = "redial"
  /\ pc' = "retry"
  /\ CountFailure
  /\ UNCHANGED <<attempt, tunnel, recv, signal, registry, active, tunnels>>

(* The server accepts the RESPONSE; or it refuses it and closes, or the    *)
(* connection is lost before.                                              *)
Authenticated ==
  /\ tunnel = "new"
  /\ tunnel' = "authed"
  /\ fails' = 0
  /\ UNCHANGED <<pc, attempt, recv, signal, registry, active, tunnels, dials>>

AuthRefused ==
  /\ tunnel = "new"
  /\ tunnel' = "lost"
  /\ fails' = OneMore(fails)
  /\ UNCHANGED <<pc, attempt, recv, signal, registry, active, tunnels, dials>>

TunnelLost ==
  /\ tunnel = "authed"
  /\ tunnel' = "lost"
  /\ UNCHANGED <<pc, attempt, recv, signal, registry, active, tunnels, history>>

(* recv_loop: close_all, then the signal, which the watch channel keeps    *)
(* until serve looks.                                                      *)
RecvEndsSilently ==
  /\ recv = "running" /\ tunnel = "lost"
  /\ recv' = "ended"
  /\ registry' = "closed"
  /\ UNCHANGED <<pc, attempt, tunnel, signal, active, tunnels, history>>
RecvEnds ==
  /\ recv = "running" /\ tunnel = "lost"
  /\ recv' = "ended"
  /\ registry' = "closed"
  /\ signal' = TRUE
  /\ UNCHANGED <<pc, attempt, tunnel, active, tunnels, history>>

(* serve returned: the heartbeat task is aborted, the metric goes down,    *)
(* the receive task is aborted.                                            *)
ServeReturns(next) ==
  /\ pc' = next
  /\ active' = active - 1
  /\ recv' = IF recv = "running" THEN "aborted" ELSE recv
  /\ UNCHANGED <<attempt, tunnel, signal, registry, tunnels, history>>

(* serve binds its listener; a failure ("listen:") ends the process. *)
ServeBinds ==
  /\ pc = "bind"
  /\ pc' = "serve"
  /\ UNCHANGED <<attempt, tunnel, recv, signal, registry, active, tunnels, history>>

ServeBindFails == pc = "bind" /\ ServeReturns("exit")

(* serve sees the signal, or accepting a local connection fails. *)
ServeSignalled == pc = "serve" /\ signal /\ ServeReturns("retry")
ServeAcceptFails == pc = "serve" /\ ServeReturns("retry")

Next ==
  \/ FirstDialOk \/ FirstDialFails \/ Retry \/ RedialOk \/ RedialFails
  \/ Authenticated \/ AuthRefused \/ TunnelLost
  \/ RecvEnds \/ ServeBinds \/ ServeBindFails \/ ServeSignalled \/ ServeAcceptFails

Spec == Init /\ [][Next]_vars

(* The process runs; dialling ends within 5 s one way or the other.        *)
FairSpec ==
  /\ Spec
  /\ WF_vars(FirstDialOk \/ FirstDialFails) /\ WF_vars(Retry) /\ WF_vars(RedialOk \/ RedialFails)
  /\ WF_vars(RecvEnds) /\ WF_vars(ServeBinds \/ ServeBindFails) /\ WF_vars(ServeSignalled)

-----------------------------------------------------------------------------
(* Properties.                                                             *)

(* The types: active_connections of a client is 0 or 1.                    *)
TypeOK ==
  /\ pc \in {"dial", "retry", "redial", "bind", "serve", "exit"}
  /\ attempt \in Nat
  /\ tunnel \in {"none", "new", "authed", "lost"}
  /\ recv \in {"none", "running", "ended", "aborted"}
  /\ signal \in BOOLEAN
  /\ registry \in {"none", "open", "closed"}
  /\ active \in 0 .. 1
  /\ tunnels \in 0 .. MaxTunnels
  /\ {dials, fails} \subseteq 0 .. MaxFails

(* The process never makes more failing connects in a row than configured  *)
(* plus the first one, a refused authentication counted as a failure       *)
(* ("连续失败次数", client/mod.rs:119, and the hint for exhausted          *)
(* authentication failures at client/mod.rs:98).  The code does not        *)
(* guarantee it: ClientAuthRetries.cfg.                                    *)
FailuresBounded == max_retries >= 0 => fails <= max_retries + 1

(* The same, for SRT connects that fail: max_retries and the first one     *)
(* when the process starts, max_retries after a tunnel was lost.           *)
DialsBounded ==
  max_retries >= 0 => dials <= max_retries + (IF tunnels = 0 THEN 1 ELSE 0)

(* A lost tunnel is noticed: the process leaves serve (socks5.rs:68-72).   *)
LossNoticed == (pc = "serve" /\ tunnel = "lost") ~> (pc # "serve")

(* Without a tunnel the process gets one or gives up: it does not hang in  *)
(* the retry loop (client/mod.rs:90-112).                                  *)
Settles == (pc \in {"dial", "retry", "redial"}) ~> (pc \in {"bind", "serve", "exit"})
=============================================================================
