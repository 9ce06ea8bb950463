-------------------------- MODULE RegistryMetrics ----------------------------
(***************************************************************************)
(* One SessionRegistry, the sessions that come and go in it, and the       *)
(* metric active_sessions (src/src/tunnel/dispatch.rs).  The metric is     *)
(* raised under the registry's lock and lowered after it was released, and *)
(* an entry is removed by its id: by the Drop of its TunnelSession, on the *)
(* server once more by the task that ran it, and by close_all.             *)
(***************************************************************************)
EXTENDS SessionRegistry

VARIABLES
  client,   \* TRUE: ids come from allocate; FALSE: from the Open of the peer
  sessions, \* the table
  next_id,  \* the counter of allocate, modulo MAX_SESSIONS
  task,     \* what each session's task is doing
  removed,  \* "removed" in remove: an entry was taken out, the metric is due
  active,   \* the metric active_sessions, an AtomicU64
  cleared   \* history: close_all has run

vars == <<client, sessions, next_id, task, removed, active, cleared>>

Init ==
  /\ client \in BOOLEAN
  /\ sessions = NoSessions
  /\ next_id = 1
  /\ task = [c \in Owners |-> [phase |-> "idle", sid |-> 0]]
  /\ removed = [c \in Owners |-> FALSE]
  /\ active = 0
  /\ cleared = FALSE

(* The session c takes the id sid: entry and metric under the lock. *)
Enter(c, sid) ==
  /\ sessions' = Insert(sessions, sid, c)
  /\ task' = [task EXCEPT ![c] = [phase |-> "live", sid |-> sid]]
  /\ active' = active + 1
  /\ UNCHANGED <<client, removed, cleared>>

Refuse(c) ==
  /\ task' = [task EXCEPT ![c].phase = "done"]
  /\ UNCHANGED <<client, sessions, next_id, removed, active, cleared>>

Allocate(c) ==
  /\ client
  /\ task[c].phase = "idle"
  /\ ~Full(sessions)
  /\ LET sid == FirstFree(sessions, next_id) IN Enter(c, sid) /\ next_id' = NextId(sid)

AllocateRefused(c) ==
  /\ client
  /\ task[c].phase = "idle"
  /\ Full(sessions)
  /\ Refuse(c)

RegisterSpecific(c, sid) ==
  /\ ~client
  /\ task[c].phase = "idle"
  /\ IF Registrable(sessions, sid) THEN Enter(c, sid) /\ UNCHANGED next_id ELSE Refuse(c)

(* remove takes the entry out under the lock and notes whether there was   *)
(* one.  The client's session is removed by Drop; the server's by the task *)
(* that ran it and, unless the target could not be reached, by Drop before *)
(* that (again).                                                           *)
AfterRemoval(phase, again) == IF phase = "live" /\ again THEN "dropped" ELSE "ended"

RemoveEntry(c, again) ==
  /\ task[c].phase \in {"live", "dropped"}
  /\ ~removed[c]
  /\ sessions' = Remove(sessions, task[c].sid)
  /\ removed' = [removed EXCEPT ![c] = task[c].sid \in Occupied(sessions)]
  /\ task' = [task EXCEPT ![c].phase = AfterRemoval(@, again)]
  /\ UNCHANGED <<client, next_id, active, cleared>>

(* ... and lowers the metric, the lock released. *)
LowerMetric(c) ==
  /\ removed[c]
  /\ active' = active - 1
  /\ removed' = [removed EXCEPT ![c] = FALSE]
  /\ UNCHANGED <<client, sessions, next_id, task, cleared>>

(* The receive loop ended: the table is emptied under the lock. *)
CloseAll ==
  /\ ~cleared
  /\ cleared' = TRUE
  /\ sessions' = NoSessions
  /\ active' = active - Cardinality(Occupied(sessions))
  /\ UNCHANGED <<client, next_id, task, removed>>

Next ==
  \/ \E c \in Owners : \/ Allocate(c) \/ AllocateRefused(c)
                       \/ \E sid \in Sids : RegisterSpecific(c, sid)
                       \/ \E again \in {FALSE, ~client} : RemoveEntry(c, again)
                       \/ LowerMetric(c)
  \/ CloseAll

Spec == Init /\ [][Next]_vars

-----------------------------------------------------------------------------
(* Properties.                                                             *)

(* The types: the reserved id 0 is never in the table and the metric never *)
(* wraps below zero (dispatch.rs:84 and 112).                              *)
TypeOK ==
  /\ client \in BOOLEAN
  /\ sessions \in Registries
  /\ next_id \in 0 .. (MAX_SESSIONS - 1)
  /\ task \in [Owners -> [phase : {"idle", "live", "dropped", "ended", "done"}, sid : Sids \cup {0}]]
  /\ removed \in [Owners -> BOOLEAN]
  /\ active \in Nat
  /\ cleared \in BOOLEAN

(* The metric is the number of entries plus the removals that have not     *)
(* lowered it yet, so that it never drops below the number of sessions in  *)
(* the table nor below zero, where an AtomicU64 would wrap around          *)
(* (dispatch.rs:111-112), however removals and close_all interleave.       *)
MetricSound ==
  active = Cardinality(Occupied(sessions)) + Cardinality({c \in Owners : removed[c]})

(* An id belongs to one live session of the client: allocate never hands   *)
(* out an id whose session has not been dropped, although next_id wraps    *)
(* around and ids come back in any order (dispatch.rs:87-101).  After      *)
(* close_all the table knows nothing of the sessions that still run.       *)
OwnsItsId ==
  client /\ ~cleared =>
    \A c \in Owners : task[c].phase = "live" => sessions[task[c].sid] = c

(* What remains in the table belongs to a session whose task still runs or *)
(* is about to remove it: no id leaks.                                     *)
NoOrphans ==
  \A sid \in Occupied(sessions) :
    LET c == sessions[sid] IN task[c].sid = sid /\ task[c].phase = "live"
=============================================================================
