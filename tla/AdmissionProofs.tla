--------------------------- MODULE AdmissionProofs ---------------------------
(***************************************************************************)
(* For every number of clients, slots, calls and sockets and every backlog *)
(* the server neither leaks nor oversells a slot, and a call never has two *)
(* working connections.                                                    *)
(***************************************************************************)
EXTENDS Admission, FiniteSetTheorems, WellFoundedInduction, TLAPS

(* A nonempty set of naturals has a least element. *)
LEMMA LeastNat ==
  ASSUME NEW T, T \subseteq Nat, T # {}
  PROVE  \E x \in T : \A y \in T : x <= y
<1>1. PICK x \in T : \A y \in T : ~(<<y, x>> \in OpToRel(<, Nat))
  BY NatLessThanWellFounded, WFMin
<1>2. \A y \in T : <<y, x>> \in Nat \X Nat /\ (<<y, x>> \in OpToRel(<, Nat) <=> y < x)
  BY DEF OpToRel
<1>3. \A y \in T : ~(y < x)
  BY <1>1, <1>2, Zenon
<1> QED
  BY <1>3

(* A nonempty set of indices has a greatest element. *)
LEMMA LastIndex ==
  ASSUME NEW k \in Nat, NEW T, T \subseteq 1 .. k, T # {}
  PROVE  \E i \in T : \A j \in T : j <= i
<1> DEFINE U == {k - i : i \in T}
<1>0. \A i \in T : i \in 1 .. k /\ k - i \in Nat
  OBVIOUS
<1>1. U \subseteq Nat /\ U # {}
  BY <1>0, Zenon
<1>2. PICK u \in U : \A y \in U : u <= y
  BY <1>1, LeastNat
<1>3. PICK i \in T : u = k - i
  BY <1>2
<1>4. \A j \in T : k - j \in U
  OBVIOUS
<1>5. \A j \in T : u <= k - j
  BY <1>2, <1>4, Zenon
<1>6. \A j \in T : j <= i
  BY <1>3, <1>5
<1> QED
  BY <1>6
-----------------------------------------------------------------------------
(* The accept loop.                                                        *)

Counted == {c \in Clients : cli[c] \in {"serving", "metric"}}

(* TypeOK is not inductive: that the counter is not taken below zero needs *)
(* that it counts the holders, and for the metric that it counts the       *)
(* connections being served.                                               *)
LoopInv == TypeOK /\ SlotsExact /\ active = Cardinality(Counted)

(* A client that joins or leaves a set of clients changes its size by one. *)
LEMMA Grows ==
  ASSUME NEW S \in SUBSET Clients, NEW T, NEW c, c \in Clients \ S, T = S \cup {c}
  PROVE  IsFiniteSet(S) /\ Cardinality(S) \in Nat /\ Cardinality(T) = Cardinality(S) + 1
<1>1. IsFiniteSet(S) /\ Cardinality(S) \in Nat
  BY AcceptAssumption, FS_Subset, FS_CardinalityType
<1> QED
  BY <1>1, FS_AddElement

LEMMA Shrinks ==
  ASSUME NEW S \in SUBSET Clients, NEW T, NEW c \in S, T = S \ {c}
  PROVE  Cardinality(S) \in Nat /\ Cardinality(T) = Cardinality(S) - 1 /\ Cardinality(S) > 0
<1>1. T \in SUBSET Clients /\ c \in Clients \ T /\ S = T \cup {c}
  OBVIOUS
<1>2. Cardinality(T) \in Nat /\ Cardinality(S) = Cardinality(T) + 1
  BY <1>1, Grows
<1> QED
  BY <1>2

LEMMA SizeType == Cardinality(Holders) \in Nat /\ Cardinality(Counted) \in Nat
<1>1. Holders \in SUBSET Clients /\ Counted \in SUBSET Clients
  BY DEF Holders, Counted
<1> QED
  BY <1>1, AcceptAssumption, FS_Subset, FS_CardinalityType

LEMMA LoopInvInit == Init => LoopInv
<1> SUFFICES ASSUME Init PROVE LoopInv
  OBVIOUS
<1>1. Holders = {} /\ Counted = {}
  BY DEF Init, Holders, Counted
<1>2. Cardinality(Holders) = 0 /\ Cardinality(Counted) = 0
  BY <1>1, FS_EmptySet
<1> QED
  BY <1>2, AcceptAssumption DEF Init, LoopInv, TypeOK, SlotsExact

LEMMA LoopInvNext == LoopInv /\ [Next]_vars => LoopInv'
<1> SUFFICES ASSUME LoopInv, [Next]_vars PROVE LoopInv'
  OBVIOUS
<1> USE DEF LoopInv
<1>t. TypeOK /\ SlotsExact /\ active = Cardinality(Counted)
  OBVIOUS
<1>s. Cardinality(Holders) \in Nat /\ Cardinality(Counted) \in Nat
  BY SizeType
<1>a. max_clients \in Nat \ {0} /\ MaxConnects \in Nat
  BY AcceptAssumption
<1>1. CASE Reserve
  <2>1. Holders' = Holders /\ Counted' = Counted
    BY <1>1 DEF Reserve, Holders, Counted
  <2> QED
    BY <1>1, <1>t, <1>s, <1>a, <2>1 DEF Reserve, TypeOK, SlotsExact
<1>2. CASE BackedOff
  <2>1. Holders' = Holders /\ Counted' = Counted
    BY <1>2 DEF BackedOff, Holders, Counted
  <2> QED
    BY <1>2, <1>t, <1>s, <1>a, <2>1 DEF BackedOff, TypeOK, SlotsExact
<1>3. ASSUME NEW c \in Clients, Dial(c) PROVE LoopInv'
  <2>1. Holders' = Holders /\ Counted' = Counted
    BY <1>3, <1>t DEF Dial, Holders, Counted, TypeOK
  <2> QED
    BY <1>3, <1>t, <1>s, <1>a, <2>1 DEF Dial, TypeOK, SlotsExact
<1>4. ASSUME NEW c \in Clients, HangUp(c) PROVE LoopInv'
  <2>1. Holders' = Holders /\ Counted' = Counted
    BY <1>4, <1>t DEF HangUp, Holders, Counted, TypeOK
  <2> QED
    BY <1>4, <1>t, <1>s, <1>a, <2>1 DEF HangUp, TypeOK, SlotsExact
<1>5. ASSUME NEW c \in Clients, NEW d \in Clients, DialReplaces(d, c) PROVE LoopInv'
  <2>1. Holders' = Holders /\ Counted' = Counted
    BY <1>5, <1>t DEF DialReplaces, Holders, Counted, TypeOK
  <2> QED
    BY <1>5, <1>t, <1>s, <1>a, <2>1 DEF DialReplaces, TypeOK, SlotsExact
<1>6. ASSUME NEW c \in Clients, Accept(c) PROVE LoopInv'
  <2>1. c \in Clients \ Holders /\ Holders' = Holders \cup {c} /\ Counted' = Counted
    BY <1>6, <1>t DEF Accept, Holders, Counted, TypeOK
  <2>2. Cardinality(Holders') = Cardinality(Holders) + 1
    BY <2>1, Grows DEF Holders
  <2> QED
    BY <1>6, <1>t, <1>s, <1>a, <2>1, <2>2 DEF Accept, TypeOK, SlotsExact
<1>7. ASSUME NEW c \in Clients, AcceptFails(c) PROVE LoopInv'
  <2>1. Holders' = Holders /\ Counted' = Counted
    BY <1>7, <1>t DEF AcceptFails, Holders, Counted, TypeOK
  <2> QED
    BY <1>7, <1>t, <1>s, <1>a, <2>1 DEF AcceptFails, TypeOK, SlotsExact
<1>8. ASSUME NEW c \in Clients, AuthPasses(c) PROVE LoopInv'
  <2>1. c \in Clients \ Counted /\ Counted' = Counted \cup {c} /\ Holders' = Holders
    BY <1>8, <1>t DEF AuthPasses, Holders, Counted, TypeOK
  <2>2. Cardinality(Counted') = Cardinality(Counted) + 1
    BY <2>1, Grows DEF Counted
  <2> QED
    BY <1>8, <1>t, <1>s, <1>a, <2>1, <2>2 DEF AuthPasses, TypeOK, SlotsExact
<1>9. ASSUME NEW c \in Clients, AuthFails(c) PROVE LoopInv'
  <2>1. Holders' = Holders /\ Counted' = Counted
    BY <1>9, <1>t DEF AuthFails, Holders, Counted, TypeOK
  <2> QED
    BY <1>9, <1>t, <1>s, <1>a, <2>1 DEF AuthFails, TypeOK, SlotsExact
<1>10. ASSUME NEW c \in Clients, AuthReleases(c) PROVE LoopInv'
  <2>1. c \in Holders /\ Holders' = Holders \ {c} /\ Counted' = Counted
    BY <1>10, <1>t DEF AuthReleases, Holders, Counted, TypeOK
  <2>2. Cardinality(Holders') = Cardinality(Holders) - 1 /\ Cardinality(Holders) > 0
    BY <2>1, Shrinks DEF Holders
  <2> QED
    BY <1>10, <1>t, <1>s, <1>a, <2>1, <2>2 DEF AuthReleases, TypeOK, SlotsExact
<1>11. ASSUME NEW c \in Clients, ServeEnds(c) PROVE LoopInv'
  <2>1. c \in Holders /\ Holders' = Holders \ {c} /\ Counted' = Counted
    BY <1>11, <1>t DEF ServeEnds, Holders, Counted, TypeOK
  <2>2. Cardinality(Holders') = Cardinality(Holders) - 1 /\ Cardinality(Holders) > 0
    BY <2>1, Shrinks DEF Holders
  <2> QED
    BY <1>11, <1>t, <1>s, <1>a, <2>1, <2>2 DEF ServeEnds, TypeOK, SlotsExact
<1>12. ASSUME NEW c \in Clients, MetricDown(c) PROVE LoopInv'
  <2>1. c \in Counted /\ Counted' = Counted \ {c} /\ Holders' = Holders
    BY <1>12, <1>t DEF MetricDown, Holders, Counted, TypeOK
  <2>2. Cardinality(Counted') = Cardinality(Counted) - 1 /\ Cardinality(Counted) > 0
    BY <2>1, Shrinks DEF Counted
  <2> QED
    BY <1>12, <1>t, <1>s, <1>a, <2>1, <2>2 DEF MetricDown, TypeOK, SlotsExact
<1>13. CASE UNCHANGED vars
  <2>1. Holders' = Holders /\ Counted' = Counted
    BY <1>13 DEF vars, Holders, Counted
  <2> QED
    BY <1>13, <1>t, <1>s, <1>a, <2>1 DEF vars, TypeOK, SlotsExact
<1> QED
  BY <1>1, <1>2, <1>3, <1>4, <1>5, <1>6, <1>7, <1>8, <1>9, <1>10, <1>11, <1>12, <1>13 DEF Next

(* The counter of accept_loop is exact for every number of clients: its    *)
(* inductive invariant holds in every reachable state.                     *)
THEOREM LoopInvariant == Spec => []LoopInv
  BY LoopInvInit, LoopInvNext, PTL DEF Spec
-----------------------------------------------------------------------------
(* The listener.                                                           *)

SockTypes == [call : Calls \cup {0}, at : {"none", "open", "closed"}, broken : BOOLEAN]

(* A new socket is newer than every other one. *)
UsedFirst == \A s, t \in Sids : sock[s].at # "none" /\ sock[t].at = "none" => s < t

(* A working socket is the newest of its call, hence the one that          *)
(* locatePeer finds.                                                       *)
WorkingIsNewest ==
  \A s, t \in Sids :
    Alive(s) /\ sock[t].at = "open" /\ sock[t].call = sock[s].call => t <= s

(* The loop knows only sockets that exist. *)
KnownExist == \A s \in Sids : cli[s] # "away" => sock[s].at # "none"

HsInv ==
  /\ sock \in [Sids -> SockTypes] /\ queue \subseteq Sids
  /\ UsedFirst /\ WorkingIsNewest /\ KnownExist

AdmInv == LoopInv /\ HsInv

LEMMA MinOfSids ==
  ASSUME NEW T, T \subseteq Sids, T # {}
  PROVE  Min(T) \in T /\ \A y \in T : Min(T) <= y
<1>1. T \subseteq Nat
  BY HandshakeAssumption
<1>2. \E x \in T : \A y \in T : x <= y
  BY <1>1, LeastNat
<1> QED
  BY <1>2, Zenon DEF Min

LEMMA MaxOfSids ==
  ASSUME NEW T, T \subseteq Sids, T # {}
  PROVE  Max(T) \in T /\ \A y \in T : Max(T) >= y
<1>1. PICK n \in Sids : \A s \in Sids : s <= n
  BY HandshakeAssumption
<1>2. n \in Nat /\ \A s \in T : s \in Nat /\ 1 <= s /\ s <= n
  BY <1>1, HandshakeAssumption
<1>b. T \subseteq 1 .. n
  BY <1>2
<1>3. PICK x \in T : \A y \in T : y <= x
  BY <1>2, <1>b, LastIndex
<1>4. \A y \in T : x >= y
  BY <1>2, <1>3
<1> QED
  BY <1>3, <1>4, Zenon DEF Max

(* What newConnection finds: the new socket exists nowhere yet, and a call *)
(* that asks anew has no working socket.                                   *)
LEMMA NewSidIsUnused ==
  ASSUME Unused # {}
  PROVE  NewSid \in Sids /\ sock[NewSid].at = "none" /\ \A t \in Sids : sock[t].at = "none" => NewSid <= t
<1>1. Unused \subseteq Sids
  BY DEF Unused
<1> QED
  BY <1>1, MinOfSids DEF NewSid, Unused

LEMMA LocatesInSids ==
  ASSUME NEW c \in Calls, LocatePeer(c) # 0
  PROVE  LocatePeer(c) \in OfCall(c) /\ \A t \in OfCall(c) : LocatePeer(c) >= t
<1>1. OfCall(c) \subseteq Sids
  BY DEF OfCall
<1> QED
  BY <1>1, MaxOfSids DEF LocatePeer

LEMMA NoWorkingOne ==
  ASSUME HsInv, NEW c \in Calls, AsksAnew(c), NEW s \in Sids, Alive(s)
  PROVE  sock[s].call # c
<1> SUFFICES ASSUME sock[s].call = c PROVE FALSE
  OBVIOUS
<1>1. s \in OfCall(c)
  BY DEF OfCall, Alive
<1>2. Max(OfCall(c)) \in OfCall(c) /\ OfCall(c) \subseteq Sids /\ LocatePeer(c) = Max(OfCall(c))
  BY <1>1, MaxOfSids DEF OfCall, LocatePeer
<1>3. LocatePeer(c) # 0
  BY <1>2, HandshakeAssumption
<1>4. sock[LocatePeer(c)].broken /\ LocatePeer(c) # s
  BY <1>3 DEF AsksAnew, Alive
<1>5. LocatePeer(c) \in Sids /\ sock[LocatePeer(c)].at = "open" /\ sock[LocatePeer(c)].call = c
  BY <1>2 DEF OfCall
<1>6. LocatePeer(c) <= s
  BY <1>5 DEF HsInv, WorkingIsNewest
<1>7. LocatePeer(c) >= s
  BY <1>3, <1>1, LocatesInSids
<1>8. LocatePeer(c) \in Nat /\ s \in Nat
  BY <1>5, HandshakeAssumption
<1>9. LocatePeer(c) = s
  BY <1>6, <1>7, <1>8
<1> QED
  BY <1>4, <1>9

(* Every step of the composition is a step of the accept loop, or leaves   *)
(* it alone.                                                               *)
LEMMA LoopStep == HsInv /\ [AdmNext]_admVars => [Next]_vars
<1> SUFFICES ASSUME HsInv, [AdmNext]_admVars PROVE [Next]_vars
  OBVIOUS
<1>a. Clients = Sids
  BY AdmissionAssumption
<1>1. CASE LoopSteps
  BY <1>1 DEF LoopSteps, Next
<1>2. ASSUME NEW c \in Calls, CallerSteps(c) PROVE [Next]_vars
  BY <1>2 DEF CallerSteps, Away
<1>3. ASSUME NEW c \in Calls, Connects(c) PROVE [Next]_vars
  <2>1. NewSid \in Clients
    BY <1>3, <1>a, NewSidIsUnused DEF Connects, NewConnection
  <2>2. CASE Dial(NewSid)
    BY <2>1, <2>2 DEF Next
  <2>3. ASSUME NEW s \in queue \ queue', DialReplaces(s, NewSid) PROVE [Next]_vars
    <3>1. s \in Clients
      BY <1>a, <2>3 DEF HsInv
    <3> QED
      BY <2>1, <2>3, <3>1 DEF Next
  <2> QED
    BY <1>3, <2>2, <2>3 DEF Connects
<1>4. ASSUME NEW c \in Calls, Rejects(c) PROVE [Next]_vars
  <2>1. CASE queue' = queue
    BY <1>4, <2>1 DEF Rejects, Away
  <2>2. CASE queue' # queue
    <3>1. LocatePeer(c) # 0
      BY <1>4, <2>2 DEF Rejects, RejectBacklog, Unqueued
    <3>2. LocatePeer(c) \in Clients
      BY <3>1, <1>a, LocatesInSids DEF OfCall
    <3> QED
      BY <1>4, <2>2, <3>2 DEF Rejects, Next
  <2> QED
    BY <2>1, <2>2
<1>5. ASSUME NEW s \in Sids,
             SockEnds(s) \/ Collects(s) \/ Accepts(s) \/ AcceptMisses(s) \/ Passes(s)
             \/ Fails(s) \/ Releases(s) \/ LeavesServing(s) \/ CountsDown(s) \/ DropCloses(s)
      PROVE  [Next]_vars
  BY <1>5, <1>a DEF SockEnds, Collects, Accepts, AcceptMisses, Passes, Fails, Releases,
                    LeavesServing, CountsDown, DropCloses, Away, Next
<1>6. CASE UNCHANGED admVars
  BY <1>6 DEF admVars
<1> QED
  BY <1>1, <1>2, <1>3, <1>4, <1>5, <1>6 DEF AdmNext

LEMMA HsInvInit == AdmInit => HsInv
<1> SUFFICES ASSUME AdmInit PROVE HsInv
  OBVIOUS
<1>1. queue = {} /\ sock = [s \in Sids |-> NoSock] /\ cli = [s \in Sids |-> "away"]
  BY AdmissionAssumption DEF AdmInit, Init, HsInit
<1>2. NoSock \in SockTypes /\ NoSock.at = "none"
  BY DEF SockTypes, NoSock
<1>3. \A s \in Sids : sock[s].at = "none" /\ cli[s] = "away"
  BY <1>1, <1>2
<1>4. sock \in [Sids -> SockTypes] /\ queue \subseteq Sids
  BY <1>1, <1>2
<1>5. UsedFirst /\ WorkingIsNewest /\ KnownExist
  BY <1>3 DEF UsedFirst, WorkingIsNewest, KnownExist, Alive
<1> QED
  BY <1>4, <1>5 DEF HsInv

(* Steps that leave the sockets alone. *)
LEMMA SocksStay ==
  ASSUME HsInv, sock' = sock, queue' \subseteq queue,
         \A s \in Sids : cli'[s] # "away" => cli[s] # "away"
  PROVE  HsInv'
  BY DEF HsInv, UsedFirst, WorkingIsNewest, KnownExist, Alive

(* Steps after which fewer sockets work. *)
LEMMA FewerWork ==
  ASSUME HsInv, sock' \in [Sids -> SockTypes], queue' \subseteq queue,
         \A t \in Sids : cli'[t] # "away" => cli[t] # "away",
         \A t \in Sids : sock'[t].call = sock[t].call,
         \A t \in Sids : sock'[t].at = "none" <=> sock[t].at = "none",
         \A t \in Sids : sock'[t].at = "open" => sock[t].at = "open",
         \A t \in Sids : Alive(t)' => Alive(t)
  PROVE  HsInv'
<1>1. UsedFirst'
  BY DEF HsInv, UsedFirst
<1>2. WorkingIsNewest'
  BY DEF HsInv, WorkingIsNewest
<1>3. KnownExist'
  BY DEF HsInv, KnownExist
<1> QED
  BY <1>1, <1>2, <1>3 DEF HsInv

(* Steps that end a socket: it breaks or leaves m_Sockets. *)
LEMMA SockBreaksKeeps ==
  ASSUME HsInv, NEW s \in Sids, sock' = [sock EXCEPT ![s].broken = TRUE],
         queue' \subseteq queue,
         \A t \in Sids : cli'[t] # "away" => cli[t] # "away"
  PROVE  HsInv'
<1>1. sock' \in [Sids -> SockTypes]
  BY DEF HsInv, SockTypes
<1>2. \A t \in Sids : sock'[t].call = sock[t].call /\ sock'[t].at = sock[t].at
  BY DEF HsInv, SockTypes
<1>3. \A t \in Sids : Alive(t)' => Alive(t)
  BY DEF HsInv, SockTypes, Alive
<1> QED
  BY <1>1, <1>2, <1>3, FewerWork

LEMMA SockClosesKeeps ==
  ASSUME HsInv, NEW s \in Sids, sock[s].at # "none", sock' = [sock EXCEPT ![s].at = "closed"],
         queue' \subseteq queue,
         \A t \in Sids : cli'[t] # "away" => cli[t] # "away"
  PROVE  HsInv'
<1>1. sock' \in [Sids -> SockTypes]
  BY DEF HsInv, SockTypes
<1>2. \A t \in Sids :
        /\ sock'[t].call = sock[t].call
        /\ (sock'[t].at = "none") <=> (sock[t].at = "none")
        /\ (sock'[t].at = "open") => (sock[t].at = "open")
  BY DEF HsInv, SockTypes
<1>3. \A t \in Sids : Alive(t)' => Alive(t)
  BY DEF HsInv, SockTypes, Alive
<1> QED
  BY <1>1, <1>2, <1>3, FewerWork

(* The new socket of newConnection. *)
LEMMA NewConnectionKeeps ==
  ASSUME HsInv, NEW c \in Calls, NewConnection(c),
         \A t \in Sids : t # NewSid => (cli'[t] # "away" => cli[t] # "away")
  PROVE  HsInv'
<1> DEFINE n == NewSid
<1>1. n \in Sids /\ sock[n].at = "none" /\ \A t \in Sids : sock[t].at = "none" => n <= t
  BY NewSidIsUnused DEF NewConnection
<1>2. sock' = [sock EXCEPT ![n] = [call |-> c, at |-> "open", broken |-> FALSE]]
  BY DEF NewConnection
<1>3. sock' \in [Sids -> SockTypes] /\ queue' \subseteq Sids
  BY <1>1, <1>2 DEF HsInv, SockTypes, NewConnection, Unqueued
<1>4. /\ sock'[n].call = c /\ sock'[n].at = "open"
      /\ \A t \in Sids : t # n => sock'[t] = sock[t]
  BY <1>1, <1>2 DEF HsInv
<1>5. \A t \in Sids : sock[t].at # "none" => t < n
  BY <1>1 DEF HsInv, UsedFirst
<1>6. UsedFirst'
  <2> SUFFICES ASSUME NEW s \in Sids, NEW t \in Sids, sock'[s].at # "none", sock'[t].at = "none"
               PROVE  s < t
    BY DEF UsedFirst
  <2>1. t # n /\ sock[t].at = "none"
    BY <1>4
  <2>2. n < t
    BY <1>1, <2>1, HandshakeAssumption
  <2>3. CASE s = n
    BY <2>2, <2>3
  <2>4. CASE s # n
    BY <1>4, <2>1, <2>4 DEF HsInv, UsedFirst
  <2> QED
    BY <2>3, <2>4
<1>7. WorkingIsNewest'
  <2> SUFFICES ASSUME NEW s \in Sids, NEW t \in Sids, Alive(s)', sock'[t].at = "open",
                      sock'[t].call = sock'[s].call
               PROVE  t <= s
    BY DEF WorkingIsNewest
  <2>1. CASE s = n
    <3>1. t = n \/ t < n
      BY <1>4, <1>5
    <3> QED
      BY <2>1, <3>1, HandshakeAssumption
  <2>2. CASE s # n /\ t # n
    BY <1>4, <2>2 DEF HsInv, WorkingIsNewest, Alive
  <2>3. CASE s # n /\ t = n
    <3>1. Alive(s) /\ sock[s].call = c
      BY <1>4, <2>3 DEF Alive
    <3> QED
      BY <3>1, NoWorkingOne DEF NewConnection
  <2> QED
    BY <2>1, <2>2, <2>3
<1>8. KnownExist'
  BY <1>4 DEF HsInv, KnownExist
<1> QED
  BY <1>3, <1>6, <1>7, <1>8 DEF HsInv

LEMMA HsInvNext == LoopInv /\ HsInv /\ [AdmNext]_admVars => HsInv'
<1> SUFFICES ASSUME LoopInv, HsInv, [AdmNext]_admVars PROVE HsInv'
  OBVIOUS
<1>a. Clients = Sids
  BY AdmissionAssumption
<1>c. DOMAIN cli = Sids
  BY <1>a DEF LoopInv, TypeOK
<1>1. CASE LoopSteps
  BY <1>1, SocksStay DEF LoopSteps, Reserve, BackedOff, Quiet, hsVars
<1>2. ASSUME NEW c \in Calls, CallerSteps(c) PROVE HsInv'
  <2>1. sock' = sock /\ queue' = queue /\ cli' = cli
    BY <1>2 DEF CallerSteps, StartConnect, RecvInductionRsp, RecvConclusionRsp, ConnectFails,
                CallerCloses, CallerLearns, RecvInductionReq, CookieAges, Away, vars
  <2> QED
    BY <2>1, SocksStay
<1>3. ASSUME NEW c \in Calls, Connects(c) PROVE HsInv'
  <2>1. \A t \in Sids : t # NewSid => (cli'[t] # "away" => cli[t] # "away")
    BY <1>3, <1>c, NewSidIsUnused DEF Connects, Dial, DialReplaces, HsInv
  <2>2. NewConnection(c)
    BY <1>3 DEF Connects
  <2> QED
    BY <2>1, <2>2, NewConnectionKeeps
<1>4. ASSUME NEW c \in Calls, Rejects(c) PROVE HsInv'
  <2>1. sock' = sock /\ queue' \subseteq queue
    BY <1>4 DEF Rejects, RejectBacklog, Unqueued
  <2>2. \A t \in Sids : cli'[t] # "away" => cli[t] # "away"
    BY <1>4, <1>c DEF Rejects, HangUp, Away, vars
  <2> QED
    BY <2>1, <2>2, SocksStay
<1>5. ASSUME NEW s \in Sids, SockEnds(s) PROVE HsInv'
  <2>1. cli' = cli /\ queue' = queue /\ Alive(s) /\ Breaks(s)
    BY <1>5 DEF SockEnds, SockShutdown, SockIdle, Away, vars
  <2> QED
    BY <2>1, SockBreaksKeeps DEF Breaks
<1>6. ASSUME NEW s \in Sids, Collects(s) PROVE HsInv'
  <2>1. sock[s].at # "none" /\ sock' = [sock EXCEPT ![s].at = "closed"] /\ queue' \subseteq queue
    BY <1>6 DEF Collects, Collect
  <2>2. \A t \in Sids : cli'[t] # "away" => cli[t] # "away"
    BY <1>6, <1>c DEF Collects, HangUp, Away, vars
  <2> QED
    BY <2>1, <2>2, SockClosesKeeps
<1>7. ASSUME NEW s \in Sids, Accepts(s) \/ AcceptMisses(s) PROVE HsInv'
  <2>1. sock' = sock /\ queue' \subseteq queue
    BY <1>7 DEF Accepts, AcceptMisses, AcceptPops
  <2>2. \A t \in Sids : cli'[t] # "away" => cli[t] # "away"
    BY <1>7, <1>c DEF Accepts, AcceptMisses, Accept, AcceptFails
  <2> QED
    BY <2>1, <2>2, SocksStay
<1>8. ASSUME NEW s \in Sids, Passes(s) \/ Fails(s) \/ LeavesServing(s) \/ CountsDown(s) PROVE HsInv'
  <2>1. sock' = sock /\ queue' = queue
    BY <1>8 DEF Passes, Fails, LeavesServing, CountsDown, Quiet, hsVars
  <2>2. \A t \in Sids : cli'[t] # "away" => cli[t] # "away"
    BY <1>8, <1>c DEF Passes, Fails, LeavesServing, CountsDown, AuthPasses, AuthFails,
                      ServeEnds, MetricDown
  <2> QED
    BY <2>1, <2>2, SocksStay
<1>9. ASSUME NEW s \in Sids, Releases(s) \/ DropCloses(s) PROVE HsInv'
  <2>1. sock' = [sock EXCEPT ![s].at = "closed"] /\ queue' = queue
    BY <1>9 DEF Releases, DropCloses, SockCloses
  <2>2. sock[s].at # "none"
    BY <1>9 DEF Releases, AuthReleases, DropCloses, Alive, HsInv, KnownExist
  <2>3. \A t \in Sids : cli'[t] # "away" => cli[t] # "away"
    BY <1>9, <1>c DEF Releases, AuthReleases, DropCloses, Away, vars
  <2> QED
    BY <2>1, <2>2, <2>3, SockClosesKeeps
<1>10. CASE UNCHANGED admVars
  BY <1>10, SocksStay DEF admVars, vars, hsVars
<1> QED
  BY <1>1, <1>2, <1>3, <1>4, <1>5, <1>6, <1>7, <1>8, <1>9, <1>10 DEF AdmNext

(* The invariant of the composition. *)
THEOREM AdmissionInvariant == AdmSpec => []AdmInv
<1>1. AdmInit => AdmInv
  BY LoopInvInit, HsInvInit DEF AdmInit, AdmInv
<1>2. AdmInv /\ [AdmNext]_admVars => AdmInv'
  BY LoopInvNext, LoopStep, HsInvNext DEF AdmInv
<1> QED
  BY <1>1, <1>2, PTL DEF AdmSpec

(* The composition with libsrt's listener implements the accept loop with  *)
(* clients that dial in and hang up as they like: whatever the network,    *)
(* the callers and the collector do, accept_loop sees nothing else.        *)
THEOREM ImplementsAcceptLoop == AdmSpec => Spec
<1>1. AdmInit => Init
  BY DEF AdmInit
<1>2. HsInv /\ [AdmNext]_admVars => [Next]_vars
  BY LoopStep
<1>3. AdmInv => HsInv
  BY DEF AdmInv
<1> QED
  BY <1>1, <1>2, <1>3, AdmissionInvariant, PTL DEF AdmSpec, Spec

(* No slot leaks and none is sold twice: client_count always is the number *)
(* of connections that hold a slot plus the one the loop has reserved.     *)
THEOREM SlotsAreExact == AdmSpec => []SlotsExact
<1>1. AdmInv => SlotsExact
  BY DEF AdmInv, LoopInv
<1> QED
  BY <1>1, AdmissionInvariant, PTL

(* At most max_clients clients are authenticated and served at a time. *)
THEOREM NeverOversold == AdmSpec => []AtMostMaxClients
<1>1. AdmInv => AtMostMaxClients
  BY SizeType, AcceptAssumption DEF AdmInv, LoopInv, TypeOK, SlotsExact, AtMostMaxClients
<1> QED
  BY <1>1, AdmissionInvariant, PTL

(* A call never has two working connections at the server, whatever        *)
(* requests are repeated, duplicated or late: newConnection numbers its    *)
(* sockets downwards, so that the first one locatePeer finds is the newest,*)
(* and no older one works.                                                 *)
THEOREM OneConnection == AdmSpec => []OneConnectionPerCall
<1>1. AdmInv => OneConnectionPerCall
  BY HandshakeAssumption DEF AdmInv, HsInv, WorkingIsNewest, OneConnectionPerCall, Alive
<1> QED
  BY <1>1, AdmissionInvariant, PTL
=============================================================================
