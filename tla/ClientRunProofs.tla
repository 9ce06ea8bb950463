--------------------------- MODULE ClientRunProofs ---------------------------
(***************************************************************************)
(* Proofs about ClientRun, for every max_retries and however often the     *)
(* tunnel comes and goes.                                                  *)
(***************************************************************************)
EXTENDS ClientRun, TLAPS

(* Where run is decides what the counters are: attempt counts every        *)
(* failure since the last tunnel, one ahead of them while run redials.     *)
WithinRetries == max_retries >= 0 => attempt <= max_retries

Counters ==
  /\ pc = "dial" => tunnels = 0 /\ dials <= attempt /\ WithinRetries
  /\ pc = "retry" => tunnels > 0 /\ dials <= attempt /\ WithinRetries
  /\ pc = "redial" => tunnels > 0 /\ dials < attempt /\ WithinRetries
  /\ pc \in {"bind", "serve"} => tunnels > 0 /\ dials = 0 /\ attempt = 0

(* The metric is up exactly while serve runs. *)
ActiveServes == active = IF pc \in {"bind", "serve"} THEN 1 ELSE 0

RunInv == TypeOK /\ Counters /\ ActiveServes /\ DialsBounded

LEMMA OneMoreIs ==
  ASSUME NEW n \in 0 .. MaxFails
  PROVE  OneMore(n) \in 0 .. MaxFails /\ OneMore(n) <= n + 1
BY RunAssumption DEF OneMore

LEMMA RunInvTunnelUp ==
  ASSUME RunInv, TunnelUp, pc \in {"dial", "redial"}
  PROVE  RunInv'
<1>1. active' = 1
  BY DEF TunnelUp, RunInv, ActiveServes
<1>2. TypeOK'
  <2>1. tunnels' \in 0 .. MaxTunnels /\ {dials', fails'} \subseteq 0 .. MaxFails
    BY RunAssumption DEF TunnelUp, RunInv, TypeOK
  <2>2. signal' \in BOOLEAN
    BY Zenon DEF TunnelUp
  <2> QED
    BY <1>1, <2>1, <2>2 DEF TunnelUp, TypeOK
<1>3. Counters' /\ DialsBounded'
  BY RunAssumption DEF TunnelUp, RunInv, TypeOK, Counters, DialsBounded
<1> QED
  BY <1>1, <1>2, <1>3 DEF RunInv, TunnelUp, ActiveServes

LEMMA RunInvFails ==
  ASSUME RunInv, FirstDialFails \/ RedialFails \/ Retry
  PROVE  RunInv'
<1>t. attempt \in Nat /\ dials \in 0 .. MaxFails /\ fails \in 0 .. MaxFails /\ tunnels \in Nat
      /\ max_retries \in Int /\ MaxFails \in Nat
  BY RunAssumption DEF RunInv, TypeOK
<1>k. PICK a, d, f : attempt' = a /\ dials' = d /\ fails' = f
  OBVIOUS
<1>1. ASSUME CountFailure PROVE d \in 0 .. MaxFails /\ f \in 0 .. MaxFails /\ d <= dials + 1
  BY <1>k, <1>t, <1>1, OneMoreIs DEF CountFailure
<1>2. CASE FirstDialFails
  <2>1. /\ a = attempt + 1 /\ tunnels = 0 /\ dials <= attempt /\ (max_retries >= 0 => attempt <= max_retries)
        /\ pc' = (IF max_retries >= 0 /\ a > max_retries THEN "exit" ELSE "dial")
        /\ d \in 0 .. MaxFails /\ f \in 0 .. MaxFails /\ d <= dials + 1
        /\ UNCHANGED <<tunnel, recv, signal, registry, active, tunnels>>
    BY <1>2, <1>k, <1>1 DEF FirstDialFails, GivesUp, RunInv, Counters, WithinRetries
  <2>2. TypeOK'
    BY <1>k, <1>t, <2>1 DEF RunInv, TypeOK
  <2>3. d <= a /\ (max_retries >= 0 => d <= max_retries + 1)
    BY <1>t, <2>1
  <2>4. Counters' /\ DialsBounded'
    BY <1>k, <1>t, <2>1, <2>3 DEF Counters, DialsBounded, WithinRetries
  <2>5. ActiveServes'
    BY <1>2, <2>1 DEF RunInv, ActiveServes, FirstDialFails
  <2> QED
    BY <2>2, <2>4, <2>5 DEF RunInv
<1>3. CASE RedialFails
  <2>1. /\ a = attempt /\ tunnels > 0 /\ dials < attempt /\ (max_retries >= 0 => attempt <= max_retries)
        /\ pc' = "retry"
        /\ d \in 0 .. MaxFails /\ f \in 0 .. MaxFails /\ d <= dials + 1
        /\ UNCHANGED <<tunnel, recv, signal, registry, active, tunnels>>
    BY <1>3, <1>k, <1>1 DEF RedialFails, RunInv, Counters, WithinRetries
  <2>2. TypeOK'
    BY <1>k, <1>t, <2>1 DEF RunInv, TypeOK
  <2>3. d <= a /\ (max_retries >= 0 => d <= max_retries)
    BY <1>t, <2>1
  <2>4. Counters' /\ DialsBounded'
    BY <1>k, <1>t, <2>1, <2>3 DEF Counters, DialsBounded, WithinRetries
  <2>5. ActiveServes'
    BY <1>3, <2>1 DEF RunInv, ActiveServes, RedialFails
  <2> QED
    BY <2>2, <2>4, <2>5 DEF RunInv
<1>4. CASE Retry
  <2>1. /\ a = attempt + 1 /\ tunnels > 0 /\ dials <= attempt
        /\ pc' = (IF max_retries >= 0 /\ a > max_retries THEN "exit" ELSE "redial")
        /\ d = dials /\ f = fails
        /\ UNCHANGED <<tunnel, recv, signal, registry, active, tunnels>>
    BY <1>4, <1>k DEF Retry, GivesUp, RunInv, Counters, history
  <2>2. TypeOK'
    BY <1>k, <1>t, <2>1 DEF RunInv, TypeOK
  <2>3. d < a
    BY <1>t, <2>1
  <2>4. Counters' /\ DialsBounded'
    BY <1>k, <1>t, <2>1, <2>3 DEF RunInv, Counters, DialsBounded, WithinRetries
  <2>5. ActiveServes'
    BY <1>4, <2>1 DEF RunInv, ActiveServes, Retry
  <2> QED
    BY <2>2, <2>4, <2>5 DEF RunInv
<1> QED
  BY <1>2, <1>3, <1>4

LEMMA RunInvTunnel ==
  ASSUME RunInv, Authenticated \/ AuthRefused \/ TunnelLost \/ RecvEnds \/ UNCHANGED vars
  PROVE  RunInv'
<1>1. UNCHANGED <<pc, attempt, active, tunnels, dials>>
  BY DEF Authenticated, AuthRefused, TunnelLost, RecvEnds, history, vars
<1>2. Counters' /\ ActiveServes' /\ DialsBounded'
  BY <1>1 DEF RunInv, Counters, ActiveServes, DialsBounded, WithinRetries
<1>3. fails' \in 0 .. MaxFails
  BY OneMoreIs, RunAssumption DEF Authenticated, AuthRefused, TunnelLost, RecvEnds, history, vars, RunInv, TypeOK
<1>4. TypeOK'
  BY <1>1, <1>3 DEF Authenticated, AuthRefused, TunnelLost, RecvEnds, vars, RunInv, TypeOK
<1> QED
  BY <1>2, <1>4 DEF RunInv

LEMMA RunInvServe ==
  ASSUME RunInv, ServeBinds \/ ServeBindFails \/ ServeSignalled \/ ServeAcceptFails
  PROVE  RunInv'
<1>1. UNCHANGED <<attempt, tunnel, signal, registry, tunnels, dials, fails>>
  BY DEF ServeBinds, ServeBindFails, ServeSignalled, ServeAcceptFails, ServeReturns, history
<1>2. pc \in {"bind", "serve"} /\ pc' \in {"serve", "exit", "retry"}
  BY DEF ServeBinds, ServeBindFails, ServeSignalled, ServeAcceptFails, ServeReturns
<1>3. active = 1 /\ active' = (IF pc' = "serve" THEN 1 ELSE 0)
  BY <1>2 DEF RunInv, ActiveServes, ServeBinds, ServeBindFails, ServeSignalled, ServeAcceptFails, ServeReturns
<1>4. recv' \in {"none", "running", "ended", "aborted"}
  BY DEF RunInv, TypeOK, ServeBinds, ServeBindFails, ServeSignalled, ServeAcceptFails, ServeReturns
<1>5. TypeOK'
  BY <1>1, <1>2, <1>3, <1>4 DEF RunInv, TypeOK
<1>6. Counters' /\ DialsBounded'
  BY <1>1, <1>2, RunAssumption DEF RunInv, Counters, DialsBounded, WithinRetries
<1> QED
  BY <1>1, <1>2, <1>3, <1>5, <1>6 DEF RunInv, ActiveServes

(* RunInv holds in every reachable state. *)
THEOREM RunInvHolds == Spec => []RunInv
<1>1. Init => RunInv
  <2> SUFFICES ASSUME Init PROVE RunInv
    OBVIOUS
  <2>1. signal \in BOOLEAN
    BY Zenon DEF Init
  <2>2. TypeOK
    BY <2>1, RunAssumption DEF Init, TypeOK
  <2> QED
    BY <2>2, RunAssumption DEF Init, RunInv, Counters, ActiveServes, DialsBounded, WithinRetries
<1>2. RunInv /\ [Next]_vars => RunInv'
  <2> SUFFICES ASSUME RunInv, [Next]_vars PROVE RunInv'
    OBVIOUS
  <2>1. CASE FirstDialOk \/ RedialOk
    BY <2>1, RunInvTunnelUp DEF FirstDialOk, RedialOk
  <2>2. CASE FirstDialFails \/ Retry \/ RedialFails
    BY <2>2, RunInvFails
  <2>3. CASE Authenticated \/ AuthRefused \/ TunnelLost \/ RecvEnds \/ UNCHANGED vars
    BY <2>3, RunInvTunnel
  <2>4. CASE ServeBinds \/ ServeBindFails \/ ServeSignalled \/ ServeAcceptFails
    BY <2>4, RunInvServe
  <2> QED
    BY <2>1, <2>2, <2>3, <2>4 DEF Next
<1> QED
  BY <1>1, <1>2, PTL DEF Spec

(* The counters of run and of the metric stay in range: active_connections *)
(* of a client is 0 or 1, however often its tunnel is lost and brought up. *)
THEOREM RunTypes == Spec => []TypeOK
BY RunInvHolds, PTL DEF RunInv

(* run and connect_with_retry never make more failing SRT connects in a    *)
(* row than max_retries, and one more when the process starts.             *)
THEOREM DialsWithinRetries == Spec => []DialsBounded
BY RunInvHolds, PTL DEF RunInv
=============================================================================
