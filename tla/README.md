# Verification of srt-vpn

srt-vpn is a proxy over SRT: a client machine offers SOCKS5 and HTTP proxies to
local applications, carries every proxied connection as a *session* over one SRT
connection, and a server opens the real TCP connections or UDP sockets. The program
is Rust (`src/src/`) on top of a copy of libsrt, in C++ (`src/srt-1.5.6/`). This
directory holds TLA+ models of the program and of the parts of libsrt it stands on,
the TLC configurations that check them, and TLAPS proofs. Paths of `.rs` files are
relative to `src/src/`, paths of `.cpp` and `.h` files to
`src/srt-1.5.6/srtcore/`.

Tools: `tlc -config X.cfg M` for a run, where `M` is the run's module in
`PROJECT.json`; `tlapm M.tla` for the proofs of `MuxReorderProofs`, `TunnelProofs`,
`SrtConnProofs`, `ClientRunProofs`, `AdmissionProofs`, `SrtReliableProofs`,
`SrtRcvBufferProofs` and `SrtSocketsProofs` (seven minutes for the longest).

## 1. Inventory

The program:

| Component | State it keeps | Operations | What is hard |
|---|---|---|---|
| Multiplexing layer, `tunnel/multiplex.rs` | encoder: epoch counter (u8), epoch and next sequence number per sid; decoder: per (sid, direction) a `SidReorder` (epoch, next, BTreeMap), the stash `preopen` | `encode_frame`, `feed`, `flush_ready` | reordering, duplicates, sid reuse, ring arithmetic on epochs, bounded buffers |
| SRT connection, `srt/connection.rs` | socket, `closed` flag, two send queues, receive channel with length counter, two OS threads, epoll handle | `send`, `send_priority`, `recv_batch_async`, `close`, `Drop`, `run_send_loop`, `run_recv_loop` | five kinds of thread or task share a flag, a counter and channels; watermark pause; batch with an end marker inside |
| Session registry, `tunnel/dispatch.rs` | map sid -> Sender, `next_id`, metric `active_sessions` | `allocate`, `register_specific`, `route`, `remove`, `close_all`, `TunnelSession::drop`, `dispatch_frame` | removal by id, not by owner; the metric is lowered outside the lock; id 0 is reserved |
| TCP forwarding, client, `client/proxy.rs` | per session: `client_eof`, `peer_fin`, watchdog | `start_forward_with_reply`, `forward_loop` | half close, failures at every await, the tunnel lost meanwhile |
| TCP forwarding, server, `server/forward.rs` | per session: `target_eof`, `peer_fin`, watchdog | `handle_open_with_rx`, `start_tcp_forward`, `notify_session_closed` | the same, plus the race of the session's end with the client's reuse of the id |
| UDP forwarding, `server/forward.rs`, `client/socks5.rs` | socket, `UdpReassembler` | `start_udp_forward`, `start_udp_associate`, fragmentation | fragments mixed or lost; datagrams that overtake their Open |
| Server admission, `server/listener.rs` | `client_count`, metric `active_connections` | `accept_loop` | a slot must come back exactly once on every path |
| Server authentication and client handling, `server/listener.rs` | frames kept during authentication, decoder, registry | `authenticate`, `handle_client`, `dispatch_one_frame`, heartbeat | session frames that arrive before the RESPONSE |
| Client life cycle, `client/mod.rs`, `serve` in `client/socks5.rs` | retry counter, tunnel, receive task, `tunnel_closed` watch, registry | `run`, `connect_with_retry`, `recv_loop`, `handle_challenge`, heartbeat | tasks that are aborted while they clean up; retry accounting |
| Challenge-response, `auth/` | none | `verify_response_dual` | clock skew against two time windows |
| SOCKS5 and HTTP handshakes | per connection, local | parsers | none that spans tasks |
| Configuration, CLI, logging, metrics endpoint, bindings | - | - | not modelled, section 7 |

libsrt, as the program uses it (file mode, message API, single sockets, caller and
listener):

| Component | State it keeps | Operations | What is hard |
|---|---|---|---|
| Receive buffer, `buffer_rcv.cpp` | circular array of packets, first unread position, count and position of messages readable out of order | `insert`, `readMessage`, `dropMessage` | positions modulo the size; cached positions that must follow every operation |
| Reliable transfer, `core.cpp`, `buffer_snd.cpp`, `list.cpp`, `queue.cpp` | send buffer and loss list, window, receive buffer and loss list, last ACK and ACKACK, epoll flag | `sendmsg2`, `packData`, `processCtrl*`, `processData`, `sendCtrlAck`, `checkTimers`, `receiveMessage` | loss, duplication and reordering of data and of every control packet; three threads an end; a window that closes; wakeups |
| Handshake and listener, `core.cpp`, `api.cpp` | the caller's phase, accepted sockets, backlog | `startConnect`, `processConnectRequest`, `newConnection`, `accept` | repeated and late requests, full backlog, connections that break before they are accepted |
| Sockets and their collection, `api.cpp`, `queue.cpp`, `epoll.cpp` | tables of open and closed sockets, lists of the two workers, reference counts | `close`, `checkBrokenSockets`, `removeSocket`, workers, API calls | bare pointers held by other threads; linger; deletion after a delay |
| Multiplexer, channel, units, options, statistics; groups, packet filter, rendezvous, live mode, file API; encryption; applications and tests | - | - | not modelled, section 7 |

How they interact. Every forwarding task encodes its frames with the tunnel's one
`MuxEncoder` and queues them on the `SrtConnection`; UDP data sent in reliable mode
goes to the priority queue, everything else to the reliable queue, and the send
thread merges the two. At the other end the receive thread fills a channel, the
receiving task takes batches from it, feeds each message to the `MuxDecoder` and
dispatches what it releases: the client routes it to the session's event channel
(`run_recv_inner`), the server also opens sessions (`dispatch_one_frame`). When
the connection ends, the receiving task calls `close_all`, which drops all Senders
and so tells every session; on the client it also signals `serve`, which returns to
`run`, which reconnects.

Under the connection, libsrt's two worker threads per UDP port run the protocol for
all sockets of that port, and a collector thread deletes sockets. The send and
receive threads of `srt/connection.rs` meet them in `srt_sendmsg2`, `srt_recvmsg2`,
`srt_epoll_wait` and `srt_close`; `accept_loop` meets them in `srt_accept`.

What makes the parts correct:

- multiplexing: the frames of a session are delivered in the order they were sent,
  each once, none before the Open, none of an old session after a new one, with
  bounded memory, and in the end all of them;
- connection: between `srt_recvmsg` and the dispatcher nothing is lost; the end of
  the connection is reported after the last message and is always reported; the
  threads end;
- registry: an id has one owner, no id leaks, the metric neither leaks nor wraps;
- forwarding: each side receives the byte stream of its own connection; half close
  loses no tail; a session ends when both sides are done and when the tunnel is lost;
- admission and client life cycle: slots and metrics are exact, a waiting client
  gets its turn, retries are bounded, a lost tunnel is noticed.
- transfer: each message is delivered at most once, a reliable one exactly once and
  in order; nothing is acknowledged that did not arrive; no wakeup is lost;
- listener: a call has one connection, and each connection is accepted or ends;
- sockets: nobody uses a deleted socket, and every socket is deleted in the end.

## 2. Modules

| Module | Models | State and actions |
|---|---|---|
| `MuxReorder` | one direction of the tunnel: sessions, encoder, both send queues, send thread, SRT, decoder | `session_tx`, `epoch_ctr`: encoder; `relq`, `prioq`, `relTurn`: queues and the send thread's place in `run_send_loop`; `net`: SRT; `states`, `preopen`: the decoder's tables; `got`: what was dispatched. `OpenSession`/`AcceptSession`, `SendData`, `SendFin`, `SendClose` call `Emit` (= `next_seq_field`, `encode_frame`, queueing); `Feed` has one action per branch of `feed` |
| `MuxReorderProofs` | theorems about `MuxReorder` | - |
| `AuthWindow` | `MuxReorder` plus `authenticate` and the replay in `handle_client` | `window`: frames kept; `AuthKeeps`, `AuthAccepts` (with the replay), `AuthRefuses`, `Serve` |
| `SessionRegistry` | the methods of `SessionRegistry` as pure operators | `FirstFree`, `NextId`, `Insert`, `Registrable`, `Remove`, `NoSessions` |
| `RegistryMetrics` | one registry, its sessions and `active_sessions` | `Allocate`, `RegisterSpecific`, `RemoveEntry` (under the lock), `LowerMetric` (after it), `CloseAll`; `client` says which end it is |
| `Tunnel` | both ends of TCP connections over one tunnel; extends `SessionRegistry` | `cl`, `srv`: the forwarding tasks; `cchan`, `schan`: event channels; `up`, `down`: the two directions; one action per select branch and exit path of both loops, one per arm of the dispatcher, the loss of the link and the `close_all` that follows |
| `TunnelProofs` | theorems about `Tunnel` | - |
| `SrtConn` | one `SrtConnection` with its threads, the receiving task, senders, callers of `close` and `Drop` | one action per step between two accesses to shared state |
| `SrtConnProofs` | theorems about `SrtConn` | - |
| `ClientRun` | the process: `run`, `connect_with_retry`, `recv_loop`, `serve`'s exits | `pc`, `attempt`, `tunnel`, `recv`, `signal`, `registry`, metric |
| `ClientRunProofs` | theorems about `ClientRun` | - |
| `AcceptLoop` | `accept_loop` and the slot in the tasks it spawns | `count`, `cli`; reserve, accept, fail, authenticate, serve, release |
| `SrtHandshake` | libsrt's caller-listener handshake, the backlog, the end of accepted sockets | `caller`, `sock`, `queue`; `hsnet` is all that was ever sent, and any of it may arrive never, late or repeatedly |
| `Admission` | composition of `AcceptLoop` and `SrtHandshake` | the loop's clients are the listener's sockets; each action joins one of each module or leaves one alone |
| `AdmissionProofs` | theorems about `Admission` | - |
| `MsgBuffer` | what the receive buffer promises, in sequence numbers | `start`, `held`, `readAt`, `dropAt`, `non` |
| `SrtRcvBuffer` | `CRcvBuffer`, implements `MsgBuffer` | the record `buf` has the class's fields; one action per method, its helpers as operators under their names |
| `SrtRcvBufferProofs` | theorems about `SrtRcvBuffer`, among them that it implements `MsgBuffer` | - |
| `SrtService` | what one direction of an SRT connection promises | `submitted`, `got`, `unordered` |
| `SrtReliable` | one direction of an SRT connection, over `MsgBuffer`; implements `SrtService` | sender, receiver, network; one action per handler, split where a lock is given up |
| `SrtReliableProofs` | theorems about `SrtReliable`, among them that it implements `SrtService` | - |
| `SrtSockets` | the life of socket objects: tables, workers' lists, API calls, `srt_close`, linger, collector | `sock` has the fields of `CUDTSocket`/`CUDT` that decide; one action per stretch under one lock |
| `SrtSocketsProofs` | theorems about `SrtSockets` | - |

`MC*` modules extend these with the values and symmetry sets of the configurations;
`Accept` and `Client` need none and run `Admission` and `ClientRun` themselves.

How the layers fit. `SrtRcvBuffer` implements `MsgBuffer`, with which `SrtReliable`
is built and implements `SrtService`. `SrtService` is the assumption `MuxReorder`
makes of its network (`Arrivable`): reliable messages in order, datagrams anywhere
or nowhere. `MuxReorder` shows that a TCP session's frames come out as a queue,
which is how `Tunnel` models a direction. `Admission` puts the accept loop on
libsrt's listener, and `SrtSockets` has what happens below `srt_close`.

Abstractions. Payloads are a position in their session (`pos`, `n`) and the session
they belong to (`gen`, `conn`); these fields are history that no action of the code
reads, with one exception: in `Tunnel` the dispatcher of an Open names the task it
spawns after the connection. The header bytes are records; the 8-bit epoch and
24-bit sequence number are kept with their ring and their end as `EPOCH_MOD` and
`SEQ_MASK`. A `MuxDecoder` sees frames of one peer only, so the direction in its key
is the constant `DirAccept`. Frames that bypass session order (heartbeats,
datagrams, Rst, handshake) do not touch the decoder's tables and are left out of
`MuxReorder`; Rst is in `Tunnel`. In `SrtReliable` the loss lists are sets (with the
receiver's `m_iLargestSeq`, which decides an insertion), sequence numbers count from
0 without the wrap at 2^31, and the congestion controller is left out but for its
effect that a packet is sent some time after it could be. `RecvAck` joins the two
stretches `processCtrlAck` spends under `m_RecvAckLock`, and it, `Sendmsg2` and
`RecvNak` join the entry into `CSndUList` to the change of state just before it:
a worker that comes in between does the work early, and the entry then finds none
left. Time is order: a timer
fires after what it waits for could have happened, except for `MaxEarly` times.

SRT's order. Reliable messages are sent with `inorder = 1`
(`srt/connection.rs:1107`), so in the running program a direction only reorders
between the two send queues (`InOrder = TRUE`). The decoder is written for
`inorder = 0` (`tunnel/multiplex.rs:12`), which version 0.6.3 used; the run
`MuxAnyOrder` and the theorems hold it to that stronger contract.

## 3. Runs

| Run | Question | Result |
|---|---|---|
| `MuxAnyOrder` | frames of a session, TCP or UDP, arrive in any order and one of them twice | `GapFree`, `SessionPrefix`, `QuietComplete`, `EventuallyDelivered` hold |
| `MuxReuse` | three sessions follow each other on one sid over both send queues, with a stash of one and a buffer of two frames | `TypeOK`, `OpenFirst`, `MemoryBounded`, `NoStaleGeneration` hold |
| `MuxAccept` | the direction without Opens, two sids, reuse, sequence numbers that run out | `QuietComplete` holds |
| `TunnelFresh` | one connection through both ends with every failure and the loss of the tunnel | `StreamsInOrder`, `CompleteAtFin`, `UnroutableMeansDead`, `HalfClosesFinish`, `LossReleasesAll` hold |
| `TunnelReuse` | two connections on the same id, upload, with refused Opens | `TargetIsolation` holds |
| `Conn` | all interleavings of the threads of a connection | `NothingLost`, `CounterSound`, `TaskLearns`, `ThreadsEnd` hold |
| `Accept` | two calls, one slot, one place in the backlog, over libsrt's listener | `SlotsExact`, `AtMostMaxClients`, `OneConnectionPerCall` hold; `SlotsComeBack`, `Reached` hold as long as `close()` returns (section 3, Fairness) |
| `Client` | the process through up to four tunnels | `DialsBounded`, `LossNoticed` hold |
| `RcvBuffer` | the circular buffer against its promise | `Implements`, `NumOutOfOrderExact`, `OutOfOrderFound` hold |
| `Reliable` | reliable messages, and between them a datagram that may expire, over a network that reorders | `Implements`, `AckSound`, `NeverBroken`, `Scheduled` hold |
| `ReliableLive` | reliable messages through a window of two, with one mishap: a packet lost or delivered twice, a lite ACK, or an early timer | `NoOverrun`, `NoLostWakeup`, `DeliveredUnlessStuck` hold |
| `Sockets` | a listener and a connection against close, workers, API calls and the collector | `NoDanglingUnlessLingering`, `PeerTold`, `AllCollected` hold |

Every property of a passing run has a mutant in `PROJECT.json`: a plausible bug in
a mapped definition under which the run fails.

Refinement. `RcvBuffer` checks `Implements == Promise!BufSpec`, where a position of
the array stands for the sequence number it holds. `Reliable` checks
`Implements == Service!SvcSpec`: messages are of one packet, so
submitting is `added`, and delivery is `got`. Both are step simulations and say nothing of liveness;
that is `DeliveredUnlessStuck`.

### Bounds, and why they are enough

- `MuxAnyOrder`: the whole life of a session (Open, two Data, Fin, Close: five
  frames) is in flight at once, so every permutation happens, with one duplicate
  anywhere. The decoder's tables of different sids are independent, so one sid is
  enough for order; `MuxAccept` has two sids because the epoch counter is shared.
- `MuxReuse`: six frames in flight let all of the old session wait on the reliable
  queue while data of the new one passes on the priority queue; `PREOPEN_MAX = 1`
  and `REORDER_MAX = 2` make both overflow.
- `MuxAccept`: `SEQ_MASK = 2` makes a session of four frames change its epoch on
  the way; `EPOCH_MOD = 16` keeps the epochs of the run within half the ring. Beyond
  half the ring the property fails (section 6).
- `Tunnel*`: `MAX_SESSIONS = 2` leaves a single id, so that reuse and a full table
  happen with two connections. Two Data frames per direction tell order and loss
  apart.
- `Conn`: the watermarks 2 and 1, batches of 2 and four messages make the pause,
  full batches and an end marker at every place of a batch happen; two callers and
  `Drop` race for `close`.
- `Accept`: two calls for one slot and one place in the backlog, and two sockets:
  either each call gets one, or one call's request, repeated after its connection
  broke, makes a second. Packets are never removed from `hsnet`, so loss, delay and
  repetition need no bound.
- `Client`: more tunnels and more failures than `max_retries`.
- `RcvBuffer`: seven packets in messages of one and two packets through an array
  of five (`Capacity = 4`): the positions wrap, and an insertion, a read and a drop
  meet on both sides of the seam.
- `Reliable`: three packets, the buffers hold two, so both fill; packets are
  delivered in any order, one lite ACK, each of the two timers only when its answer
  could be lost; 3.8 million states, two and a half minutes. `MaxFaults = 0` there:
  a packet may be delayed for ever instead of lost. The run has one mix, a datagram
  between two reliable messages.
- `ReliableLive`: three reliable messages of one packet through a window and a send
  buffer of two, so that a gap can form behind a packet, be reported, and be filled
  by the report or by the timer. One mishap (`MaxMishaps = 1`): a packet of any kind
  lost or delivered twice, a lite ACK, or a timer that fires while its answer is
  still under way. Reordering and delay are unbounded. Loss reports, drop requests,
  late reports, lite ACKs that advance the sender, early timers and windows that
  close with more to send are all reached, and so is `WindowLost`, the one exception
  of `DeliveredUnlessStuck` that reliable messages alone can meet; mixes with
  datagrams are out of liveness checking's reach at these sizes.
  The run's specification is `PromptSpec`: a packet whose arrival decides nothing
  any more (`Spent`: an old ACK, data the receiver already has, ...) arrives at
  once, or is lost. That loses no behaviour but for where such arrivals stand in it.
  A spent packet stays spent, since the counters it is compared with only grow; the
  ACKACK that an old ACK draws is below every number the receiver compares with; and
  a timer that a spent packet would have made early fires in time, and uses up no
  mishap. 681,736 states; the full `Spec` has 3.75 million, too many for liveness in
  minutes.
- `Sockets`: one listener, one connection, `BrokenWait = 1`: a broken connection
  is kept for one round of the collector instead of 30 or 60. A second connection
  only shares the collector's and the workers' time, and takes the run beyond 16
  million states.

The `TypeOK` of `Tunnel`, `SrtConn`, `ClientRun` and `SrtReliable` are there for the
reader and are not among the runs' properties, because the types alone say little.
Deadlock checking is off where the system may stop: a process that has given up, a
connection that is closed, bounds that are used up.

### Fairness

- `MuxReorder!FairSpec`: weak fairness of the send thread and of the receive path,
  loops that run as long as the connection. Sessions owe no frame.
- `Tunnel!FairSpec`: weak fairness of what a task does without waiting for its
  socket or timer (tokio keeps scheduling it), of the dispatchers, and of noticing a
  lost link (libsrt reports it). `ServerConnect` is fair because of its 3 s timeout.
  Reads, ends of file and failures are not fair. `LossReleasesAll` assumes in
  addition (`Watchdogs`) that the 300 s watchdogs fire: a session whose `allocate`
  comes after `close_all` hears of nothing else.
- `SrtConn!FairSpec`: threads and tasks run, a caller that entered `close` goes on.
  Nobody owes a first call, a message or a failure.
- `Admission!AdmFairness`: the loop, its tasks and libsrt's threads run; timers
  fire (3 s of a call, 10 s of authentication, the idle timer of a socket whose
  peer is gone). That a served client leaves in the end is an assumption about
  users. Nothing forces a packet to arrive. That a connection that is done gives its
  slot back (`Releases`) assumes that `close()` returns. `ConnJoinHangs` (section 6)
  shows an interleaving in which it does not; the slot is then lost, and
  `SlotsComeBack` and `Reached` say nothing of it.
- `ClientRun!FairSpec`: the process runs and a dial ends within its timeout, with
  either result.
- `SrtReliable!Fairness`: the send worker, the application and the ACK timer run;
  the retransmission timer is tried every 10 ms and gets its turn between packets
  (strong); ACKs arrive, and of the packets to the receiver one or another arrives
  when there are some again and again (strong; not each of them), which `Lose`
  contradicts only `MaxFaults` times. Loss reports owe nothing: the timers must do without them.
  Nothing forces the application to send, or a datagram to expire.
- `SrtSockets!Fairness`: the collector, the workers and a thread that has entered a
  call run; the closing thread is not kept from `m_pListener`'s lock, nor the
  worker from its list, for ever (strong); a second passes and linger expires.
  Nothing is assumed of the peer, nor of whether the application closes.

## 4. Proofs

Each theorem below is for every value of the constants, from the `ASSUME` of the
modules it is about and the hypotheses it states. A hypothesis is there where the
code does less without it, and the configuration named next to it shows that. The
inductive invariants were checked with TLC on the runs' instances before they were
proved.

### The decoder

`MuxReorderProofs` proves, for every set of sids, every ring, sequence space and
buffer size, and every order of arrival, from `MuxAssumption` alone (a ring of more
than two epochs, at least one sequence number, the stash no larger than the buffer):

- `TypeCorrect`: `Spec => []TypeOK`. Every frame carries a non-zero epoch and a
  sequence number below `SEQ_MASK`, so the fields `next_seq_field` packs never
  overlap, and the decoder may use epoch 0 for "no state";
- `DeliveryIsGapFree`: `Spec => []GapFree`. A delivered frame is the successor of
  the one before it on its sid, or starts over as an Open or a newer epoch;
- `NothingBeforeOpen`: `Spec => []OpenFirst`;
- `MemoryIsBounded`: `Spec => []MemoryBounded`, also when an Open adopts the stash;
- `DecoderInvariant`: `Spec => []DecoderInv`, from which the others follow.

The argument. `GapFree` is not inductive: a flush releases frames from the buffer,
and nothing in `GapFree` says which frames are there. `DecoderInv` adds
`StateMatchesHistory`, which ties the decoder's table to what it has delivered: the
state of a sid exists once something was delivered, its `epoch` and `next` are those
after the last delivered frame, and the buffer holds, under each key, a frame with
that sequence number, of that epoch, beyond `next`. With it every branch of `feed`
delivers a frame that follows the last one:

- `FlushEndIsFirstMissing`: `flush_ready` stops at the first missing number. It
  exists because the buffer's keys are below `SEQ_MASK` (a finite interval; no
  induction is needed);
- `ReleaseKeepsTables`: given a frame list that follows the history and ends right
  before `next`, delivering it and what the buffer unblocks keeps the invariant.
  `FeedOpen`, `FeedExpected`, `FeedOtherEpoch` and `FeedNoState` all release through
  it;
- `AdoptedIsLater`: what an Open adopts from the stash is of its epoch and later;
- `FeedKeepsTables`: one step per branch of `feed`;
- `EmitKeepsTypes`: the encoder's steps leave the decoder alone and keep the types
  of its counters, in particular that `seq` never passes `SEQ_MASK`;
- `InitInv`, `NextInv`: the two halves of the induction, combined by PTL.

What relates the decoder to the sender needs to know where the frames come from:

- `NoStaleSession`: `Spec /\ [](epoch_ctr < EPOCH_MOD \div 2) => []NoStaleGeneration`,
  for any number of sessions. `NumberInv` orders all frames of a sid, queued, in
  flight, stashed, buffered or delivered, by (epoch, number), and says that this
  order agrees with the order of the sessions. The hypothesis is what a comparison
  on a ring needs; `MuxRollover` is what happens past it;
- `FirstSessionInOrder`: `SessionPrefix`, assuming `OneSession` (the opener's
  direction, a sid used once, fewer frames than sequence numbers). `OneInv`: a
  frame's number is its position, and its Open exists once. The cases outside
  `OneSession` are the `SessionPrefix` rows of section 6;
- `NothingHeldBack`: `QuietComplete`, with the same assumption and `[]NeverFull`: a
  frame dropped at a full buffer is not sent again.

### One direction of an SRT connection

`SrtReliableProofs`, for every number of packets, every capacity, every mix of
reliable messages and datagrams, and any number of losses, duplicates, lite ACKs and
early timers:

- `TypeCorrect`, `PeerTrusted` (`NeverBroken`): `CoreInv` has, next to the types, what
  a packet in flight may say however old it is (`PktOK`), that messages enter the
  send buffer whole, and the shape of the receive buffer: what is stored lies at or
  after `start`, and up to `non` without a hole;
- `NeverUnscheduled` (`Scheduled`): needs one more conjunct, about the moment between
  taking the socket off the list and `packUniqueData`;
- `AcksAreSound` (`AckSound`): `AckInv` says that up to the latest packet seen
  everything was received or is on the receiver's loss list, and that lite ACKs in
  flight cover only what was received. That holds until the send worker spins on an
  expired datagram (`RexmitSpins`); from then on the receiver's ACK may pass a gap
  (`AckedGap`), and `AckSound` holds because the worker takes no ACK any more. The
  proof had to be cut along that line;
- `NeverOverrun` (`NoOverrun`): the edge of the window, `ack + left`, is at most
  `start + Capacity` wherever it is on its way, and `start` only grows;
- `WakeupsArrive` (`NoLostWakeup`), assuming `OnePacket`: a message is one packet, as
  a tunnel frame is (`tunnel/multiplex.rs:27`);
- `TransferIsService` (`Implements`), assuming `OnePacket`, which the mapping of
  messages to packets assumes too: each step is a step of `SrtService` or a stutter.
  `SvcInv` says which messages were delivered: every reliable one below `start`, and
  none that is still stored.

### The receive buffer

`SrtRcvBufferProofs`, for every capacity, every number of packets and every cut of
them into messages, every choice of the messages that are datagrams, and arrivals,
reads and drop requests in any order, from `RcvBufferAssumption` (message numbers
do not decrease, and a datagram has a packet):

- `Refinement` (`Implements`): each method of the circular array is a step of
  `MsgBuffer` or, for a refused insert or an empty drop request, changes nothing it
  sees. `SrtReliable` is built on `MsgBuffer`, so what `SrtReliableProofs` proves
  stands on the array the code has;
- `BufInvHolds`: `Spec => []BufInv`. The proof reads the array through `At(b, s)`, the
  entry at the position of sequence number `s`, so that wrapping around is dealt with
  once, in `AtSet` (entries are written), `Shifted` and `AtCut` (the start moves on).
  `Placed`: a packet is at the position of its number, before `maxPosOff`, and nothing
  lies at or after the capacity. `InOrder`: up to the nonread position lie whole
  messages. There is no filler at the start. `Remembered` and `Found`: what is
  remembered is readable, and a whole datagram is remembered unless something comes
  first. The count is the number of stored datagram packets. None is inductive alone:
  the search is skipped when the count is zero, so `Found` needs the count; the count
  is lowered by what a read takes, so it needs that the loop over positions stops at
  the message's last packet (`ReadLenIs`), which needs `InOrder` or `Remembered`;
  after a read the nonread position is only pulled along, and stays the end of a row
  of whole messages because nothing between it and the new start was a filler
  (`ReadReleased`, last fact);
- `TypeHolds` (`TypeOK`), `NumOutOfOrderHolds` (`NumOutOfOrderExact`) and
  `OutOfOrderHolds` (`OutOfOrderFound`). The first says that every packet is where
  its number says; the second that the loop of `updateFirstReadableOutOfOrder`, which
  the model replaces by its result, sees as many packets as it counts down from and
  ends.

`ReadableIsReady`, that a complete message which is next can be read, is not a
theorem: it is false (section 6).

### The life of sockets

`SrtSocketsProofs`, for any number of connections made through a listener and any
`BrokenWait`, assuming `~Stalls` (no thread stands still for the second a closed
socket is kept; with `Stalls` the property is false, section 6):

- `NobodyDangles` (`NoDanglingUnlessLingering`): the object of a socket somebody has a
  pointer to is there, but for a connection that breaks while it lingers, and the
  multiplexer counts exactly the sockets there are;
- `PeerIsTold` (`PeerTold`);
- `SocketsInvHolds`: the invariant.

The application's calls do not make a socket busy, so nothing the collector tests
says that they have returned; only time does. `SocketsInv` therefore has one
conjunct per reason why a pointer is gone by the time a socket is taken out of
`m_ClosedSockets` (`Pointers`): `m_iBusy` counts `srt_close` and the send worker
exactly; the node is off the receive worker's list; and a socket that has been closed
for a second is in no call, and, unless it lingers, neither on the send worker's list
nor in its hands. That the second starts over whenever a socket is moved or its
linger time ends is what keeps this inductive. `Ending` says how a connection can
come to be closed without being broken: only through `srt_close`, and it lingers only
while it works and hence while the receive worker has it. `Telling` is what `PeerTold`
needs of the two places that take a connection down. Most of the proof is one lemma
per action about the record of one socket; `OneConn`, `SndStep`, `LsnStep` and `GcStep`
lift them to the state.

### The SRT connection's threads

`SrtConnProofs`, for every pair of watermarks, every batch size, any set of senders
and of callers of `close`:

- `NothingIsLost` (`NothingLost`): what was handed to the task, followed by its batch
  and the channel, are the messages read from the socket in order, followed by empty
  messages only (`InSequence`). `Batching` says where an empty message can be in a
  batch: at its end, never alone behind messages that were not handed on;
- `CounterIsSound` (`CounterSound`): `Counting` follows `recv_len` through the four
  places where it differs from the channel's length, among them the one at which the
  task has subtracted what the receive thread has not added yet.

### The client's life cycle

`ClientRunProofs`, for every `max_retries` (negative: no limit) and any number of
tunnels: `DialsWithinRetries` (`DialsBounded`) and `RunTypes`. `RunInv` ties `attempt`, the failures
since the last tunnel and the metric to the place in `run`.

### TCP connections through the tunnel

`TunnelProofs`, for any set of connections, any number of ids and any length of the
streams, with all failures and the loss of the link:

- `TargetsAreIsolated` (`TargetIsolation`) and `TargetsAreComplete`: a target
  receives the stream of its own connection, in order, and all of it before the Fin
  is processed, also while ids are used again and Opens are refused. This is the
  upload half of what a user expects of a proxy. The server routes by id, so the
  argument is about what is under way: between the frames of two connections on one
  id lies the Close of the first (`Grouped`, `CloseBehind`), because the client gives
  an id back only after it queued the Close; frames behind an Open are of its
  connection (`OpenAhead`, `OwnOrder`); so whatever reaches a session's channel
  before its Close is its own (`Guarded`), numbered from where the target's stream
  ends (`Flow`), and with the link up nothing is missing (`Whole`). After the loss
  of the link frames may be missing at the end, never in between. That Close comes
  after the frames of its session even if the Open was refused is what makes
  refused Opens harmless to other targets;
- `TypeCorrect`, `TunnelInvHolds`: the types and the invariant.

For the direction to the client the server sends no Open, and nothing separates two
sessions on one id. The theorems about it take `[]FreshIds` as hypothesis: no id is
used twice. That is so until `next_id` has gone around the table of 256
(`dispatch.rs:88`), with any number of connections at a time, and with one
connection for ever, which is the run `TunnelFresh`:

- `StreamsAreIsolated` (`StreamsIsolated`: no stream has a byte of another; with
  reuse: `TunnelStaleData`), for any number of connections at a time. No run checks
  it: two connections on two ids with data both ways are beyond TLC in minutes;
- `StreamsArriveInOrder` (`StreamsInOrder`), which follows from it;
- `HalfCloseIsComplete` (`CompleteAtFin`);
- `RstMeansDead` (`UnroutableMeansDead`; with reuse: `TunnelRefused` with that
  invariant);
- `OnlyReuseIsRefused`: `NeverRefused`, which `TunnelRefused` shows violated with
  reuse.

`DownInv` has the mirror image of the stream invariant, and `Registered`: a session
that runs is in the table of its end. With reuse that is what fails first.

### Admission

`AdmissionProofs` proves, for every finite set of clients, every limit, every set of
calls, sockets and every backlog, from `AcceptAssumption`, `HandshakeAssumption` and
`AdmissionAssumption`:

- `LoopInvariant`: `Spec => []LoopInv` of the accept loop alone. `SlotsExact` (the
  counter is the number of connections that hold a slot, and one more while the loop
  holds a reservation) is what makes the type of the counter inductive: a decrement
  is only safe because its holder is counted. The metric has the same argument;
- `ImplementsAcceptLoop`: `AdmSpec => Spec`. Each action of the composition is, on
  the loop's variables, one of the loop's actions or a stutter (`LoopStep`). The
  loop's invariant holds in the composition without being proved again;
- `AdmissionInvariant`: `AdmSpec => []AdmInv`, which adds the listener's side: a
  broken or closed socket is not found working, `newConnection` uses an identifier
  that no socket has (`NewSidIsUnused`), and of the sockets of one call only the
  newest may work. The last conjunct is what makes one connection per call
  inductive: `locate` finds the newest socket of the call, and if that one is
  broken, so are all older ones (`NoWorkingOne`);
- `SlotsAreExact`, `NeverOversold`, `OneConnection`: `SlotsExact`,
  `AtMostMaxClients` and `OneConnectionPerCall` of the composition.

### Only model-checked

- Liveness, which needs fairness and ENABLED: `EventuallyDelivered`,
  `HalfClosesFinish`, `LossReleasesAll`, `TaskLearns`, `ThreadsEnd`,
  `SlotsComeBack`, `Reached`, `LossNoticed`, `DeliveredUnlessStuck`, `AllCollected`.
- `RegistryMetrics` and `AuthWindow` (section 6).
- `QuietComplete` in the direction without Opens (`MuxAccept`): it holds within half
  the ring, with epochs that change in the middle of a session.

## 5. What the models say of the code

What the runs check holds. Where the code does less than one of its comments says,
the runs check what does hold, and section 6 has a configuration that shows the
difference. The three that matter most to users of the tunnel:

1. `TunnelStaleData`. Only an Open changes the epoch of a sid
   (`tunnel/multiplex.rs:126`), and the server never sends one. Data of an old
   session that is under way to the client when it reuses the sid continues the
   numbering and is written to the new connection.
2. `AuthBlackhole`. A session opened between the SRT handshake and the server's
   handling of the RESPONSE is served its first frames only.
3. `RexmitSpins`. A lost datagram that has expired by the time it is retransmitted
   stops libsrt's send worker, and with it all connections of the port.

## 6. Further configurations

### Known divergences

Each of these configurations ends in a counterexample, and each was met while
modelling. They document where a stronger property than the one in section 3 fails.

| Configuration (module) | Property | What happens | Said by |
|---|---|---|---|
| `MuxReuse` with `SessionPrefix`, `DirAccept = TRUE`, buffers of 4 and `MaxGen = 1` | `SessionPrefix` | in the server's direction, with `udp_datagram` off, a frame that overtakes on the other queue becomes the baseline (`multiplex.rs:431`) and the earlier one is dropped as a duplicate | `tunnel/multiplex.rs:38` |
| `MuxReuse` with `SessionPrefix`, buffers of 4 and `MaxGen = 2` | `SessionPrefix` | on a reused sid, UDP data that overtakes its Open is delivered at once as the start of the new epoch (`multiplex.rs:416`); the Open then rewinds the session | `tunnel/multiplex.rs:443` |
| `MuxReuse` with `GenerationsInOrder` as its invariant | `GenerationsInOrder` | UDP data of a new session passes the old session's Open on the priority queue and starts the newer epoch; the Open, which always starts over (`multiplex.rs:344`), then brings the old session back | `tunnel/multiplex.rs:317` |
| `MuxRollover` (`MCMuxReorder`) | `QuietComplete` | a session whose sequence numbers run out takes an epoch half a ring or more away, when 128 sessions were opened meanwhile; the decoder drops the rest of it (`multiplex.rs:410`) | `tunnel/multiplex.rs:133` |
| `TunnelRefused` (`MCTunnel`) | `NeverRefused` | the client reuses an id after sending Close; the server's entry is still there and the Open is refused | `server/listener.rs:425` |
| `TunnelRefused` with `UnroutableMeansDead` as its invariant | `UnroutableMeansDead` | the second removal of an id (`listener.rs:421`) takes out the entry of the session that reused it | `server/listener.rs:375, 393` |
| `TunnelDeaf` (`MCTunnel`) | `HearsClose` | after a Fin the client no longer takes Close or Rst (`client/proxy.rs:183`) | `server/forward.rs:80` |
| `ConnJoinHangs` (`MCSrtConn`) | `CloseReturns` | `close` joins the receive thread without a limit while it is paused above the watermark (`connection.rs:1354`) | `srt/connection.rs:1346` |
| `ConnBacklog` (`MCSrtConn`) | `BacklogBounded` | the watermark is tested outside the drain loop (`connection.rs:1003`) | `srt/connection.rs:929` |
| `ConnDropLeaks` (`MCSrtConn`) | `DropClosesSocket` | a thread that ends sets `closed`, after which `close` and `Drop` return before `srt_close` (`connection.rs:1331`) | `srt/connection.rs:470` |
| `ClientAuthRetries` (`ClientRun`) | `FailuresBounded` | `attempt` is reset when SRT connects, before authentication (`client/mod.rs:120`), so refused authentications are never exhausted | `client/mod.rs:98` |
| `TunnelStaleData` (`MCTunnel`) | `AppIsolation` | two connections on the same id, download: the server's epoch for a sid does not change when the client reuses it, and data of the old connection is written to the new one | `tunnel/multiplex.rs:317` |
| `AuthBlackhole` (`MCAuthWindow`) | `ServedAlike` | frames kept during authentication are dispatched directly, and the `MuxDecoder` that follows starts empty (`server/listener.rs:265`): later frames of these sessions wait in the stash for an Open that was already dispatched | `server/listener.rs:359` |
| `RexmitSpins` (`MCSrtReliable`) | `WorkerLeavesLoop` | a datagram that is to be retransmitted has expired: after the drop request the block is repeated with the same packet and the same answer of the send buffer, and the worker never leaves it, nor gives up its locks (`core.cpp:9763`) | `core.cpp:9762`, "REPEATABLE BLOCK (not a real loop)" |
| `ZeroWindow` (`MCSrtReliable`) | `WindowReopens` | the single ACK that reports the window open again is lost and nothing repeats it | `core.cpp:8356`, "It should unblock the sender to proceed further" |
| `RcvBufferStuck` (`MCSrtRcvBuffer`) | `ReadableIsReady` | a message that is next and complete stays behind `m_iFirstNonreadPos` after a read out of order before it, until another packet comes (`buffer_rcv.cpp:478`) | `buffer_rcv.h:363` |
| `AckedGap` (`MCSrtReliable`) | `AckedAreaComplete` | a drop request overtakes what comes before it: the gap is then recorded neither for the packet that was dropped nor, since `m_iLargestSeq` is above it, later (`list.cpp:582`), and the receiver's ACK passes it | `core.cpp:10643` |
| `Sockets` with `LingerSends` as its property | `LingerSends` | the send worker drops a closing socket (`queue.cpp:591`), so what a lingering socket has not yet sent once is never sent | `api.h:206-208` |
| `Sockets` with `NoDangling` as its invariant | `NoDangling` | a lingering connection breaks long after it was closed; the timer has just put it back on the send list (`core.cpp:12087`), the worker pops it, and the collector deletes it at once since its closure time is not renewed | `api.cpp:141` |
| `Sockets` with `Stalls = TRUE` | `NoDanglingUnlessLingering` | a thread that stands still for the second a closed socket is kept has a pointer to a deleted one | `api.cpp:141` |

Seen in the code while modelling, and part of the models without a property of
their own: a linger that expires deletes the connection without a shutdown to the
peer (`core.cpp:6493`, `api.cpp:2925`), which is why `PeerTold` is limited to
connections whose data was acknowledged; `accept` takes the newest socket of the
backlog, so a steady stream of calls starves the oldest (`api.cpp:1276`); the same is true of
reliable messages behind a steady flow on the priority queue
(`srt/connection.rs:1056`); a packet
the receive buffer refuses skips loss detection for the packets before it
(`core.cpp:10717-10859`); a datagram skipped because it expired uses a sequence
number without a look at the window (`packUniqueData`); when serving ends because
accepting a local connection failed, `run` aborts the receive task before its
`close_all` (`client/mod.rs:176`), and the sessions of the old tunnel are left to
their 300 s watchdogs.

### Passing configurations beside the runs

| Configuration (module) | What holds |
|---|---|
| `AuthReplay` (`MCAuthWindow`) | `WindowDelivered`: session frames that arrive before the RESPONSE are kept and dispatched in order when serving starts; two sids, four frames in flight |
| `Registry` (`MCRegistryMetrics`) | `MetricSound`, `NoOrphans`, `OwnsItsId`: five sessions on three ids make `next_id` wrap with ids returned in any order, and let three tasks be between removal and metric |
| `Accept` with `Backlog = 2` | the same properties, with two sockets in the queue |

## 7. Not modelled

Of the program:

- socket options, connect and accept set-up, RTT measurement; bindings to libsrt;
- HMAC, tokens and key derivation: authentication is a choice between accept and
  refuse;
- the SOCKS5 and HTTP handshakes, configuration, CLI, logging, the metrics
  endpoint: sequential code without shared state of the tunnel;
- UDP association, UDP forwarding and fragmentation, heartbeats and the challenge's
  time windows: planned (section 8);
- `SessionQueue` in `tunnel/multiplex.rs`, which nothing uses.

Of libsrt, whose lines are most of the repository:

- groups (`group.cpp`, `group_backup.cpp`), packet filter and FEC (`fec.cpp`,
  `packetfilter.cpp`), rendezvous, live mode with TSBPD and too-late drop
  (`tsbpd_time.cpp`, parts of `core.cpp`), the file API, the applications,
  examples and tests: compiled out or never reached by this program. A model of
  them would say nothing about it;
- encryption (`haicrypt/`, `crypto.cpp`): ciphers and key wrapping are arithmetic
  beyond TLC; the exchange of keys is an extension of the handshake;
- tables of options and their parsing, statistics, logging, C wrappers, address and
  platform code, headers of declarations and containers: no state that a property
  could relate;
- `CChannel` and `CUnitQueue`: the network and the memory packets are kept in;
- the rate of the congestion controllers (`congctl.cpp`): numerical, and any rate
  is a schedule `SrtReliable` already has;
- the rollback of `newConnection` when resources run out, `srt_cleanup` and
  `closeAllSockets`, fork, the wrap of the 31-bit sequence numbers.

What is left of libsrt after that, the path of a message from `srt_sendmsg2` to
`srt_recvmsg2` and a connection from `srt_connect` to its deletion, is what the
modules above cover. It is a small share of the library's lines, because the library
does far more than a tunnel asks of it.

## 8. Plan

In order:

1. `UdpReassembler` (`server/forward.rs`): fragments keyed by target address only;
   a lost fragment followed by the next datagram; the abstract specification is "a
   reassembled datagram is one that was sent".
2. `UdpAssociate`: datagrams that overtake their Open and the Rst that answers them,
   both ends, composed with `SessionRegistry`.
3. `Heartbeat`: client and server heartbeats, echoes told apart by the age of a
   timestamp (`client/mod.rs:296`), clock skew, three silent periods as death.
4. `Challenge`: the time windows of `verify_response_dual` with skewed clocks.
5. An abstract `Pipe` (two byte streams with half close) that `Tunnel` with one
   connection implements under a refinement mapping.
6. Proofs: `MetricSound` and `NoOrphans` of `RegistryMetrics`.
