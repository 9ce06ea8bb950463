--------------------------- MODULE SessionRegistry ---------------------------
(***************************************************************************)
(* The table of live sessions each end of a tunnel keeps                   *)
(* (src/src/tunnel/dispatch.rs, SessionRegistry): from a session id to the *)
(* session whose event channel has its Sender there.  The methods are pure *)
(* operators on the table; Tunnel and RegistryMetrics hold it as state.    *)
(* The map and next_id are behind one lock in every method, so a method is *)
(* one step.                                                               *)
(***************************************************************************)
EXTENDS Integers, FiniteSets

CONSTANTS
  MAX_SESSIONS, \* size of the id space, id 0 included (256)
  Owners,       \* what a table entry may belong to
  NoOwner       \* the id has no entry

ASSUME RegistryAssumption ==
  /\ MAX_SESSIONS \in Nat /\ MAX_SESSIONS > 1
  /\ NoOwner \notin Owners

Sids == 1 .. (MAX_SESSIONS - 1)

Registries == [Sids -> Owners \cup {NoOwner}]

NoSessions == [sid \in Sids |-> NoOwner]

Occupied(reg) == {sid \in Sids : reg[sid] # NoOwner}

(* allocate refuses when every id but 0 is taken. *)
Full(reg) == Cardinality(Occupied(reg)) >= MAX_SESSIONS - 1

(* How many times the loop of allocate adds one to next_id before it tries *)
(* sid: the id is next_id modulo MAX_SESSIONS, and 0 is skipped.           *)
TriesBefore(next_id, sid) == (sid - next_id) % MAX_SESSIONS

(* The id allocate takes: the first free one the loop tries. *)
FirstFree(reg, next_id) ==
  CHOOSE sid \in Sids \ Occupied(reg) :
    \A other \in Sids \ Occupied(reg) :
      TriesBefore(next_id, sid) <= TriesBefore(next_id, other)

(* next_id after the loop stopped at sid. *)
NextId(sid) == (sid + 1) % MAX_SESSIONS

(* allocate and register_specific insert an entry; register_specific       *)
(* refuses id 0, which is no member of Sids, and an id that has one.       *)
Insert(reg, sid, owner) == [reg EXCEPT ![sid] = owner]

Registrable(reg, sid) == sid \in Sids /\ reg[sid] = NoOwner

(* remove takes the id's entry out, whoever put it there. *)
Remove(reg, sid) == [reg EXCEPT ![sid] = NoOwner]
=============================================================================
