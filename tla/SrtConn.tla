------------------------------- MODULE SrtConn -------------------------------
(***************************************************************************)
(* One SrtConnection (src/src/srt/connection.rs): its receive thread, its  *)
(* send thread, the task that receives in batches, the tasks that send,    *)
(* and the callers of close, Drop among them.  What the threads share is   *)
(* the socket, the closed flag, the receive channel with its length        *)
(* counter, and the send channel.                                          *)
(*                                                                         *)
(* The two send queues are one here: MuxReorder has their merge, and the   *)
(* send thread treats them alike when the socket fails or they are         *)
(* disconnected.  The socket is libsrt's.                                  *)
(***************************************************************************)
EXTENDS Integers, Sequences, FiniteSets

CONSTANTS
  HIGH,      \* RECV_HIGH_WATERMARK (4096)
  LOW,       \* RECV_LOW_WATERMARK (1024)
  BATCH,     \* messages recv_batch_async returns at most (512)
  RCVBUF,    \* messages libsrt's receive buffer holds
  Closers,   \* callers of close() other than Drop
  Senders,   \* tasks that call send()
  MaxMsgs,   \* bound: messages the peer sends
  MaxSends   \* bound: messages this end queues

ASSUME ConnAssumption ==
  /\ {HIGH, LOW, MaxMsgs, MaxSends} \subseteq Nat
  /\ {BATCH, RCVBUF} \subseteq Nat \ {0}
  /\ LOW < HIGH
  /\ "drop" \notin Closers

Callers == Closers \cup {"drop"}

VARIABLES
  sock,     \* "up", "broken" by the peer or the network, "closed" by srt_close
  arrived,  \* messages that have arrived at libsrt
  read,     \* messages the receive thread has taken with srt_recvmsg
  rt,       \* receive thread: where it is
  chan,     \* receive channel: message numbers, 0 for the empty message
  recv_len, \* backlog counter of the channel, an AtomicUsize
  cn,       \* receiving task: where it is
  batch,    \* the batch recv_batch_async is collecting
  given,    \* messages handed to the dispatcher
  closed,   \* the AtomicBool
  sendq,    \* send channel
  txGone,   \* TRUE once both Senders of the send channel were dropped
  st,       \* send thread: where it is
  snd,      \* sending tasks: where they are
  queued,   \* messages queued so far
  cl,       \* callers of close: where they are
  closes,   \* how often srt_close was called on the socket
  epoll,    \* the epoll handle: "live" or "released"
  dropped   \* the fields of the SrtConnection are gone

sockVars == <<sock, arrived>>
recvVars == <<read, rt, chan, recv_len, epoll>>
taskVars == <<cn, batch, given>>
sendVars == <<sendq, st, snd, queued>>
closeVars == <<txGone, cl, closes, dropped>>
vars == <<sock, arrived, read, rt, chan, recv_len, cn, batch, given, closed, sendq, txGone,
          st, snd, queued, cl, closes, epoll, dropped>>

Init ==
  /\ sock = "up" /\ arrived = 0
  /\ read = 0 /\ rt = "drain0" /\ chan = <<>> /\ recv_len = 0 /\ epoll = "live"
  /\ cn = "first" /\ batch = <<>> /\ given = <<>>
  /\ closed = FALSE
  /\ sendq = <<>> /\ st = "wait" /\ snd = [s \in Senders |-> "idle"] /\ queued = 0
  /\ txGone = FALSE /\ cl = [k \in Callers |-> "idle"] /\ closes = 0 /\ dropped = FALSE

-----------------------------------------------------------------------------
(* libsrt: messages arrive while there is room; the connection may break,  *)
(* and what was not read by then may or may not still be readable.         *)
Arrive ==
  /\ sock = "up"
  /\ arrived < MaxMsgs
  /\ arrived - read < RCVBUF
  /\ arrived' = arrived + 1
  /\ UNCHANGED <<sock, recvVars, taskVars, closed, sendVars, closeVars>>

Break ==
  /\ sock = "up"
  /\ sock' = "broken"
  /\ UNCHANGED <<arrived, recvVars, taskVars, closed, sendVars, closeVars>>

-----------------------------------------------------------------------------
(* The receive thread: run_recv_loop and the end of its closure.           *)

RecvThread(next) == rt' = next /\ UNCHANGED <<sockVars, taskVars, sendVars, closeVars>>

(* srt_recvmsg returned a message, which goes to the channel; a channel    *)
(* whose receiver is gone ends the thread without the empty message.       *)
ReadMessage ==
  /\ rt \in {"drain0", "drain"}
  /\ read < arrived
  /\ sock # "closed"
  /\ read' = read + 1
  /\ IF dropped
     THEN RecvThread("mark") /\ UNCHANGED <<chan, recv_len>>
     ELSE /\ chan' = Append(chan, read + 1)
          /\ RecvThread(IF rt = "drain0" THEN "count0" ELSE "count")
          /\ UNCHANGED recv_len
  /\ UNCHANGED <<epoll, closed>>

(* The counter follows the send: fetch_add. *)
CountMessage ==
  /\ rt \in {"count0", "count"}
  /\ recv_len' = recv_len + 1
  /\ RecvThread(IF rt = "count0" THEN "drain0" ELSE "drain")
  /\ UNCHANGED <<read, chan, epoll, closed>>

(* srt_recvmsg had nothing: back to the loop, or out of it when the        *)
(* connection is gone.  The first drain does not look at the error.        *)
NothingToRead ==
  /\ rt \in {"drain0", "drain"}
  /\ read = arrived \/ sock # "up"
  /\ RecvThread(IF rt = "drain" /\ sock # "up" THEN "exit" ELSE "head")
  /\ UNCHANGED <<read, chan, recv_len, epoll, closed>>

(* The head of the loop: above the high watermark the thread pauses. *)
LoopHead ==
  /\ rt = "head"
  /\ RecvThread(IF recv_len > HIGH THEN "paused" ELSE "wait")
  /\ UNCHANGED <<read, chan, recv_len, epoll, closed>>

(* The pause ends at the low watermark, or when the receiver is dropped. *)
PauseEndsLowOnly ==
  /\ rt = "paused"
  /\ recv_len <= LOW
  /\ RecvThread("wait")
  /\ UNCHANGED <<read, chan, recv_len, epoll, closed>>
PauseEnds ==
  /\ rt = "paused"
  /\ recv_len <= LOW \/ dropped
  /\ RecvThread(IF recv_len <= LOW THEN "wait" ELSE "mark")
  /\ UNCHANGED <<read, chan, recv_len, epoll, closed>>

(* srt_epoll_uwait: readable, timed out, an ERR event, which queues an     *)
(* empty message of its own, or an error after which the state of the      *)
(* socket is looked at.                                                    *)
WaitReadable ==
  /\ rt = "wait"
  /\ read < arrived
  /\ RecvThread("drain")
  /\ UNCHANGED <<read, chan, recv_len, epoll, closed>>

WaitTimeout ==
  /\ rt = "wait"
  /\ sock = "up"
  /\ RecvThread("head")
  /\ UNCHANGED <<read, chan, recv_len, epoll, closed>>

WaitErrorEvent ==
  /\ rt = "wait"
  /\ sock = "broken"
  /\ chan' = IF dropped THEN chan ELSE Append(chan, 0)
  /\ RecvThread("exit")
  /\ UNCHANGED <<read, recv_len, epoll, closed>>

WaitFails ==
  /\ rt = "wait"
  /\ sock # "up"
  /\ RecvThread("exit")
  /\ UNCHANGED <<read, chan, recv_len, epoll, closed>>

(* The empty message tells the application, then recv_tx is dropped, the   *)
(* closed flag is set and the epoll handle released.                       *)
SendSentinelNone ==
  /\ rt = "exit"
  /\ RecvThread("exit")
  /\ UNCHANGED <<read, chan, recv_len, epoll, closed>>
SendSentinel ==
  /\ rt = "exit"
  /\ chan' = IF dropped THEN chan ELSE Append(chan, 0)
  /\ RecvThread("mark")
  /\ UNCHANGED <<read, recv_len, epoll, closed>>

RecvMarks ==
  /\ rt = "mark"
  /\ closed' = TRUE
  /\ RecvThread("release")
  /\ UNCHANGED <<read, chan, recv_len, epoll>>

RecvReleases ==
  /\ rt = "release"
  /\ epoll' = "released"
  /\ RecvThread("done")
  /\ UNCHANGED <<read, chan, recv_len, closed>>

(* recv_tx is gone once run_recv_loop has returned. *)
RecvTxGone == rt \in {"mark", "release", "done"}

-----------------------------------------------------------------------------
(* The receiving task: recv_batch_async over and over.                     *)

Task(next) == cn' = next /\ UNCHANGED <<sockVars, read, rt, epoll, closed, sendVars, closeVars>>

(* It takes the first message when there is one, or finds the channel      *)
(* closed and empty.                                                       *)
TakeFirst ==
  /\ cn = "first"
  /\ chan # <<>>
  /\ batch' = <<Head(chan)>>
  /\ chan' = Tail(chan)
  /\ Task("sub1")
  /\ UNCHANGED <<recv_len, given>>

FirstNone ==
  /\ cn = "first"
  /\ chan = <<>>
  /\ RecvTxGone
  /\ Task("closed")
  /\ UNCHANGED <<batch, chan, recv_len, given>>

(* fetch_sub; the empty message as the first one is an error. *)
CountFirst ==
  /\ cn = "sub1"
  /\ recv_len' = recv_len - 1
  /\ IF batch = <<0>>
     THEN batch' = <<>> /\ Task("closed")
     ELSE Task("more") /\ UNCHANGED batch
  /\ UNCHANGED <<chan, given>>

(* try_recv until the batch is full or the channel empty. *)
TakeMore ==
  /\ cn = "more"
  /\ Len(batch) < BATCH
  /\ chan # <<>>
  /\ batch' = Append(batch, Head(chan))
  /\ chan' = Tail(chan)
  /\ Task("sub")
  /\ UNCHANGED <<recv_len, given>>

(* fetch_sub; an empty message ends the batch and is not seen again. *)
CountMoreSkipped ==
  /\ cn = "sub"
  /\ IF batch[Len(batch)] = 0
     THEN /\ given' = given \o SubSeq(batch, 1, Len(batch) - 1)
          /\ batch' = <<>>
          /\ Task("first")
     ELSE Task("more") /\ UNCHANGED <<batch, given>>
  /\ UNCHANGED <<chan, recv_len>>
CountMoreLosesBatch ==
  /\ cn = "sub"
  /\ recv_len' = recv_len - 1
  /\ IF batch[Len(batch)] = 0
     THEN /\ batch' = <<>>
          /\ Task("closed")
          /\ UNCHANGED given
     ELSE Task("more") /\ UNCHANGED <<batch, given>>
  /\ UNCHANGED chan
CountMore ==
  /\ cn = "sub"
  /\ recv_len' = recv_len - 1
  /\ IF batch[Len(batch)] = 0
     THEN /\ given' = given \o SubSeq(batch, 1, Len(batch) - 1)
          /\ batch' = <<>>
          /\ Task("first")
     ELSE Task("more") /\ UNCHANGED <<batch, given>>
  /\ UNCHANGED chan

ReturnBatch ==
  /\ cn = "more"
  /\ Len(batch) = BATCH \/ chan = <<>>
  /\ given' = given \o batch
  /\ batch' = <<>>
  /\ Task("first")
  /\ UNCHANGED <<chan, recv_len>>

(* The task ends without having been told: recv_task.abort() in the        *)
(* client, the heartbeat branch of handle_client in the server.            *)
TaskStops ==
  /\ cn = "first"
  /\ Task("stopped")
  /\ UNCHANGED <<batch, chan, recv_len, given>>

-----------------------------------------------------------------------------
(* The senders: send_item_to reads the closed flag, then takes the lock.   *)
SendChecks(s) ==
  /\ snd[s] = "idle"
  /\ ~dropped
  /\ queued < MaxSends
  /\ snd' = [snd EXCEPT ![s] = IF closed THEN "idle" ELSE "checked"]
  /\ UNCHANGED <<sockVars, recvVars, taskVars, closed, sendq, st, queued, closeVars>>

(* The send fails when close() took the Sender or the thread is gone. *)
SendQueues(s) ==
  /\ snd[s] = "checked"
  /\ snd' = [snd EXCEPT ![s] = "idle"]
  /\ IF txGone \/ st \in {"mark", "done"}
     THEN UNCHANGED <<sendq, queued>>
     ELSE sendq' = Append(sendq, queued + 1) /\ queued' = queued + 1
  /\ UNCHANGED <<sockVars, recvVars, taskVars, closed, st, closeVars>>

(* The send thread: run_send_loop and send_one. *)
SendThread(next) == st' = next /\ UNCHANGED <<sockVars, recvVars, taskVars, snd, queued, closeVars>>

SendTakes ==
  /\ st = "wait"
  /\ sendq # <<>>
  /\ SendThread("sending")
  /\ UNCHANGED <<sendq, closed>>

(* srt_sendmsg2 takes the message; while the buffer is full it is retried. *)
SendDone ==
  /\ st = "sending"
  /\ sock = "up"
  /\ sendq' = Tail(sendq)
  /\ SendThread("wait")
  /\ UNCHANGED closed

SendFails ==
  /\ st = "sending"
  /\ sock # "up"
  /\ sendq' = <<>>
  /\ SendThread("mark")
  /\ UNCHANGED closed

(* The channel is empty and disconnected. *)
SendDisconnected ==
  /\ st = "wait"
  /\ sendq = <<>>
  /\ txGone
  /\ SendThread("mark")
  /\ UNCHANGED <<sendq, closed>>

SendMarks ==
  /\ st = "mark"
  /\ closed' = TRUE
  /\ SendThread("done")
  /\ UNCHANGED sendq

-----------------------------------------------------------------------------
(* close() by caller k.                                                    *)

Caller(k, next) ==
  /\ cl' = [cl EXCEPT ![k] = next]
  /\ UNCHANGED <<arrived, recvVars, taskVars, sendVars, dropped>>

(* Drop runs when nobody holds the connection any more. *)
Callable(k) ==
  /\ cl[k] = "idle"
  /\ IF k = "drop"
     THEN /\ cn \in {"stopped", "closed"}
          /\ \A s \in Senders : snd[s] = "idle"
          /\ \A j \in Closers : cl[j] \in {"idle", "returned"}
     ELSE cl["drop"] = "idle"

(* The swap of the closed flag: who finds it set returns at once. *)
CloseSwap(k) ==
  /\ Callable(k)
  /\ closed' = TRUE
  /\ Caller(k, IF closed THEN "returned" ELSE "take")
  /\ UNCHANGED <<sock, txGone, closes>>

CloseTakesSenders(k) ==
  /\ cl[k] = "take"
  /\ txGone' = TRUE
  /\ Caller(k, "close")
  /\ UNCHANGED <<sock, closed, closes>>

CloseSocket(k) ==
  /\ cl[k] = "close"
  /\ sock' = "closed"
  /\ closes' = closes + 1
  /\ Caller(k, "join")
  /\ UNCHANGED <<closed, txGone>>

CloseJoins(k) ==
  /\ cl[k] = "join"
  /\ st = "done" /\ rt = "done"
  /\ Caller(k, "returned")
  /\ UNCHANGED <<sock, closed, txGone, closes>>

(* After Drop the fields go: the receiver and the Senders among them. *)
FieldsDropped ==
  /\ cl["drop"] = "returned"
  /\ ~dropped
  /\ dropped' = TRUE
  /\ txGone' = TRUE
  /\ UNCHANGED <<sockVars, recvVars, taskVars, closed, sendVars, cl, closes>>

-----------------------------------------------------------------------------
RecvStep ==
  \/ ReadMessage \/ CountMessage \/ NothingToRead \/ LoopHead \/ PauseEnds
  \/ WaitReadable \/ WaitTimeout \/ WaitErrorEvent \/ WaitFails
  \/ SendSentinel \/ RecvMarks \/ RecvReleases

TaskStep == TakeFirst \/ FirstNone \/ CountFirst \/ TakeMore \/ CountMore \/ ReturnBatch

SendStep == SendTakes \/ SendDone \/ SendFails \/ SendDisconnected \/ SendMarks

CloseStep(k) == CloseTakesSenders(k) \/ CloseSocket(k) \/ CloseJoins(k)

Next ==
  \/ Arrive \/ Break
  \/ RecvStep
  \/ TaskStep \/ TaskStops
  \/ \E s \in Senders : SendChecks(s) \/ SendQueues(s)
  \/ SendStep
  \/ \E k \in Callers : CloseSwap(k) \/ CloseStep(k)
  \/ FieldsDropped

Spec == Init /\ [][Next]_vars

(* Threads run, tasks are scheduled, a caller that entered close() goes    *)
(* on, a send in progress ends and Drop drops the fields.  Nobody owes a   *)
(* first call of close(), a message or a failure.                          *)
FairSpec ==
  /\ Spec
  /\ WF_vars(RecvStep)
  /\ WF_vars(TaskStep)
  /\ WF_vars(SendStep)
  /\ \A s \in Senders : WF_vars(SendQueues(s))
  /\ \A k \in Callers : WF_vars(CloseStep(k))
  /\ WF_vars(FieldsDropped)

-----------------------------------------------------------------------------
(* Properties.                                                             *)

(* The types: a message arrives before it is read, and an empty message    *)
(* never reaches the dispatcher (connection.rs:1286).                      *)
TypeOK ==
  /\ sock \in {"up", "broken", "closed"}
  /\ arrived \in 0 .. MaxMsgs /\ read \in 0 .. arrived
  /\ rt \in {"drain0", "count0", "head", "paused", "wait", "drain", "count", "exit",
             "mark", "release", "done"}
  /\ chan \in Seq(0 .. MaxMsgs) /\ batch \in Seq(0 .. MaxMsgs)
  /\ recv_len \in Int
  /\ cn \in {"first", "sub1", "more", "sub", "closed", "stopped"}
  /\ given \in Seq(1 .. MaxMsgs)
  /\ {closed, txGone, dropped} \subseteq BOOLEAN
  /\ sendq \in Seq(Nat) /\ queued \in Nat
  /\ st \in {"wait", "sending", "mark", "done"}
  /\ snd \in [Senders -> {"idle", "checked"}]
  /\ cl \in [Callers -> {"idle", "take", "close", "join", "returned"}]
  /\ closes \in Nat
  /\ epoll \in {"live", "released"}

(* Between srt_recvmsg and the dispatcher no message is lost, repeated or  *)
(* swapped, however the batches and the empty messages fall                *)
(* (connection.rs:1266-1295): what was handed over, is in the batch or in  *)
(* the channel is message 1, 2, 3... up to the last one read, and then     *)
(* only empty messages.                                                    *)
NothingLost ==
  ~dropped =>
    LET taken == given \o batch \o chan
    IN  /\ Len(taken) >= read
        /\ \A i \in DOMAIN taken : taken[i] = IF i <= read THEN i ELSE 0

(* Whenever the receive thread looks at the counter it is the number of    *)
(* messages in the channel, and one more while the task has taken a        *)
(* message and not yet counted it: an AtomicUsize taken below zero by a    *)
(* consumer that was faster than the fetch_add is never seen               *)
(* (connection.rs:915 and 1274).                                           *)
CounterSound ==
  rt \in {"head", "paused"} =>
    recv_len = Len(chan) + (IF cn \in {"sub1", "sub"} THEN 1 ELSE 0)

(* The receive channel holds little more than the high watermark: what     *)
(* libsrt's buffer holds on top (connection.rs:929-930) and the two empty  *)
(* messages.  The code does not guarantee it: ConnBacklog.cfg.             *)
BacklogBounded == Len(chan) <= HIGH + RCVBUF + 2

(* Dropping the connection closes its socket (connection.rs:470, 1329).    *)
(* The code does not guarantee it: ConnDropLeaks.cfg.                      *)
DropClosesSocket == dropped => closes = 1

(* A task that keeps receiving learns that the connection is gone.         *)
TaskLearns == (sock # "up") ~> (cn \in {"closed", "stopped"})

(* Once the connection has been dropped both threads end and the epoll     *)
(* handle is released.                                                     *)
ThreadsEnd == dropped ~> (st = "done" /\ rt = "done" /\ epoll = "released")

(* close() returns: "join ... 带 2s 超时防挂死" (connection.rs:1346).  The *)
(* code does not guarantee it: ConnJoinHangs.cfg.                          *)
CloseReturns == \A k \in Callers : (cl[k] = "take") ~> (cl[k] = "returned")
=============================================================================
