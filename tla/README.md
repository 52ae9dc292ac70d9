# bdrpc: TLA+ models and proofs

bdrpc is a bidirectional RPC library on tokio: typed channels with
backpressure, calls with correlation ids, channels multiplexed over transports,
a handshake that negotiates protocols, and transports that reconnect. This
directory models its concurrent core in TLA+, checks the models with TLC and
proves the main results with TLAPS. Paths of source files below are relative to
`src/bdrpc/src/` of the repository.

## 1. The system

| Component | State | Operations | What makes it hard |
|---|---|---|---|
| Channel (`channel/channel.rs`) | send and receive sequence counters, a bounded tokio mpsc queue, the strategy, negotiated features; shared by all clones of the sender and the one receiver | `send`, `send_timeout`, `try_send`, `send_request`, `send_response`; `recv`, `recv_timeout`, `try_recv`, `recv_envelope`, `close` | each send is several atomic steps with awaits in between; clones interleave; timeouts and callers drop a future in the middle |
| Backpressure (`backpressure/bounded_queue.rs`, `unlimited.rs`) | an atomic message count, a tokio `Notify`; or nothing but counters | `should_send`, `wait_for_capacity`, `on_message_sent`, `on_message_received` | check-then-wait against count-then-notify; the count is kept apart from the queue it is about |
| RPC (`channel/rpc.rs`, `pending.rs`, `correlation.rs`, clients of `bdrpc-macros`) | next correlation id, table from ids to oneshot senders, response router task | `call`, `call_timeout`, generated methods; `register`, `complete`, `cancel` | responses in any order; late responses; registration after sending; cancellation in a spawned task; dropped calls |
| Router, bridge (`channel/router.rs`, `bridge.rs`, frames of `serialization/framing.rs`) | channel id to sender, send and receive task per transport, two tasks per channel | new, register, unregister, shutdown, drop | registration in a task of its own; tasks end one by one; a frame is two writes |
| Channel manager (`channel/manager.rs`, `id.rs`) | id to typed sender and receiver | create, get_sender, get_receiver, remove, cleanup | keeps a sender alive; receivers handed out once |
| System channel (`channel/system.rs`, `endpoint/endpoint.rs`) | pending channel requests by id | request_channel, get_channels, message handler | timeouts, early returns, a handler that answers through the channel it reads |
| Handshake (`endpoint/handshake.rs`, `direction.rs`, `endpoint.rs`) | capabilities of both sides, negotiated protocols | negotiation; connect, listen, listen_manual, accept | both sides must compute the same result; three servers with different exchanges; failures between any two messages |
| Message loop of a server (`endpoint/endpoint.rs`) | a lock on the transport, the system channel, two tasks per connection | read and route, receive and write | the lock is held for a whole frame; both ends of one channel on one connection; requests beside them |
| Transport manager (`transport/manager.rs`) | listeners, callers, connections, transport objects, routers | add, remove, enable, disable, connect, accept, create_router, disconnect, shutdown_all | several tables are updated one lock after the other |
| Caller, strategies (`transport/caller.rs`, `strategy/*`) | caller state; circuit breaker | the reconnection loop; should_reconnect, on_connected, on_disconnected | the loop races with commands; loops may share a breaker |
| Buffer pool (`serialization/buffer_pool.rs`) | pools of buffers by size class | get, return, read_frame | users extend and keep buffers |
| Providers, serializers, observability | | | network and library code, counters; not modelled |

An endpoint owns a transport manager and a channel manager. A connection has a
router; each channel on it has a bridge, between the channel's in-memory halves and
the router. Callers of a service use a client, which owns a channel sender and a
response router that owns the receiver. The list `hazards` of PROJECT.json names what
is hard to test in this code, at its line, with the properties that cover it.

## 2. The modules

| Module | Models |
|---|---|
| `Backpressure` | both strategies: count, `Notify` (one permit, waiters in order), the steps of `wait_for_capacity`, the callbacks |
| `Channel` | the channel; extends `Backpressure` with the queue, the counters and where each task stands |
| `FifoChannel` | what a channel promises, with none of that: a bounded queue, accepted per writer in the order of its calls |
| `Rpc` | callers that share a sender, the pending table, the response router, a server |
| `Mux` | bridges and routers at both ends of a connection, frames in two parts, a transport that may end |
| `LossyStream` | what a connection promises each channel: a stream in order, each message once, lost only at its end or before anyone listens |
| `Caller` | the reconnection loop and the strategies |
| `Transport` | the transport manager; extends `Caller` |
| `Handshake` | negotiation and the exchange of messages, on several connections |
| `ChannelRequests` | requests for channels, the pending table, the channel manager, the system handler; extends `Handshake` |
| `Endpoint` | the composition: connections and requests of one client |
| `MessageLoop` | a server's connection after its handshake: reader, writer, lock, system channel, requests, the peer |
| `BufferPool` | the pool, frames that are read, and users |
| `XProperties` | the properties of module X, refinement mappings, and the inductive invariants (`BufferPool` has its own) |
| `MCX` | the instances for TLC |
| `XProofs`, `RequestProofs` | the proofs |

### Backpressure and Channel

An action is the code between two points where another thread can look. A send
goes `Call` (features, `should_send` on the queue length), if need be `WaitStep`
(one step of `wait_for_capacity`) until `Granted`, `AssignSequence`
(`fetch_add`), `Push` (the mpsc send, which waits for room), `OnMessageSent`.
`TryPush` is `try_send`'s mpsc call and ends it: `try_send` does not tell the
strategy. `WaitTimeout` and `PushTimeout` are the two selects of `send_timeout`;
`DropSend` is a caller that drops the future of any waiting method at the same two
awaits. The receiver does `Take` (or `Panic`, the check of debug builds), then
`OnMessageReceived` (the decrement) and `NotifySender` (`notify_one`, when the
decrement saw the count at capacity). `recv_timeout` and `try_recv` do what
`recv` does when there is an envelope, and nothing otherwise. `ReceiveEnd` is the `None`
that a receiver gets after `Close`, or after every clone is gone (`DropSender`), once
the queue is empty.

The count is a machine word: it wraps modulo `Word`. The runs take a `Word` of
16, above anything the few operations can reach from either side, so a wrapped
count is told from a real one as 2^64 would. `Notify` is modelled from its
documented behaviour: one permit is stored when nobody waits, a dropped waiter
leaves the list, a dropped waiter that was notified passes it on. With the unlimited
strategy `should_send` is true and no count is kept.

`outcome` and `delivered` are histories for the properties; the number of an
operation among those of its task stands for the payload.

### Rpc

The two channels are FIFO queues with the bound `Capacity`, which is what
`FifoChannel` says of them. A call goes `Start` (and `Room`, when it had to wait for
capacity), `Send`, `RegisterCall`, then `Answered` or `Timeout`. In an `RpcChannel` the
call cancels its entry itself (`CancelCall`); a generated client returns and
leaves that to a spawned task (`RunCancel`). `DropCall` drops the future of a call
at any await. The router takes a response (`RouterReceive`) and then looks for
its entry (`Complete`): the two are apart, because the table's lock is awaited.
The server is the loop that the tests and the documentation of the dispatcher
use; it may answer in any order, and `ServerDown` ends its task. A call that waits for
capacity when the server goes down waits for ever, as the end of a receiver notifies
nobody: `Room` needs a server that is up. `DropClient` drops the client (an `RpcChannel` has
no `Drop`: its router is only detached); the server's loop then ends with its last
answer (`ServerEnd`), which drops the sender that the router listens to.

### Mux

One direction of a connection; the other shares nothing with it but the transport. A
message passes the bridge's `outbox`, `Outgoing` (which skips what does not serialize),
the router's queue, `WriteChannelId` and `WriteFrame` (two writes, the size check
between them), the `wire`, `Receive` (which looks its channel up), the bridge's
`incoming` queue and `Incoming` (which skips what does not deserialize). `OpenIn`
spawns the registration that `RegisterChannel` does. `AbortOut`, `AbortIn`, `AbortSend`,
`AbortReceive` are shutdowns and drops of bridges and routers, `UnregisterChannel` and
`CloseReader` what users do, `LinkDown` and `ReceiveError` failures of the transport:
each counts as one of `MaxFaults`. A task of the code is a variable that is running,
has ended or was aborted; a task that is aborted amid a frame leaves half of it.

### Caller and Transport

The loop is one action per point at which it reads or writes what others read or
write: `Check` (the state), `BeginConnect` (it writes Connecting over whatever is there),
the attempt, `Announce` or `ConnectFails`, `AskStrategy`, `GiveUp` or `BackOff`, `Retry`,
and `SeeChange` when it leaves the inner loop that polls while Connected. Strategies are
shared by reference; the breaker counts up to its threshold only, as that is all it is
compared with, and its clock is an action that lets the timeout pass.

`Transport` takes the operations of the manager apart at each lock: `connect_caller` is
`ConnectCaller`, `StoreTransport`, `RegisterConnection`, `SetConnected`, `StartCaller`;
`accept_connection` and `register_connection` share the middle; `create_router` is
`TakeTransport` and `InsertRouter`; `disconnect` is `Disconnect`,
`RemoveActive`, `RemoveConnection`; `shutdown_all` takes the list of routers first and
then disconnects one by one. `LoseConnection` tells nobody, as in the code. `connect_caller`
refuses a caller that its configuration disables (`Enabled`), and starts the loop in a step of
its own (`StartCaller`), if there is a strategy and `SetEventHandler` has given the manager an
event handler. `RemoveRouterOnly` is `remove_router`, which touches no other table.

### Handshake, ChannelRequests, Endpoint

`NegotiateProtocols` is the function of `handshake.rs`; capabilities are versions, a
direction and features by protocol. A connection has a client and a server side; the
server reads first (`listen`, `listen_manual`) or writes first (`accept`), compares
serializers or does not, and tells the client of an error or just closes, each as its
function does. `StoreNegotiated` and `CreateSystem` come after the exchange; `IoFails`,
`PeerClosed` and `Break` end a side at any read or write. `accept` has given the transport to the
manager before it creates the system channel, so a side that fails there closes nothing
(`Keep`, stage "kept").

A request goes `GetChannels` or `RequestChannel`, `InsertPending`, `SendRequest` (or
`FindNoSystem`, which leaves the entry), `SeeAnswer` or `TimeOut`, `RemovePending`,
`Finish`. The handler takes a request, asks the negotiator (which may refuse) and puts
its response into the channel that it reads; `HandleResponse` gives it to whoever is
pending for the id. `DropRequest` drops the future of a request at any of its awaits: what it
has made by then, an entry in the table or a channel in the manager, stays. `connect`
borrows the endpoint mutably, so `Endpoint` lets requests and connecting exclude each other.

`accept_channels` of a manual listener takes one connection after another (`HasTurn`), and
an endpoint without a responder protocol does not listen (`HasResponder`).

### MessageLoop

What `handle_server_connection` and `handle_manual_connection` leave running. The reader goes
`ReaderLocks` (it queues for the lock), `ReadFrame` or `ReadFails` (which let it go),
`RouteToSystem` (it waits for room in the channel) or `RouteNowhere`; the writer goes
`WriterReceives`, `SkipMessage` (the serializer, which users provide, refuses the message, and the
loop continues) or `WriterLocks`, then `WriteFrame` or `WriteFails`. The lock is tokio's, served in
order (`line`). A request of the endpoint's own tasks goes `RequestChannel`, `SendRequest`,
`TimeOut`: nobody answers it. The system channel is what `FifoChannel` says. A sender that finds
it full waits, and need never be woken (`channel_lost_wakeup`); one that finds room sends, or
gets an error if the writer has ended, as the end of the receiver drains the queue. `handled` is
the history of what the writer has written or skipped. The peer sends any frame,
but a response only to what was written to it, and may close at any time; a closed
peer is noticed by a write at once or later.

### BufferPool

A buffer is its capacity. `Get` and `StartFrame` take the newest buffer of a class or
make one, `Reshape` is what a user does with the `Vec` that `DerefMut` gives: extend it, shrink
it or put another in its place. `IntoVec` keeps it, `Return` is the drop. `reshaped` remembers
that a user has left a buffer with a capacity that no class has.

## 3. What the runs check

| Run | Instance | Shows |
|---|---|---|
| `channel_safety` | 2 clones, capacity 2, `send`, `send_timeout`, `try_send`, `send_request`, dropped sends, 2 operations each, both receiving methods, debug | `PerSenderFifo`, `ErrorMeansNotSent`, `OkMeansKept`, `EndIsComplete`, `DepthAtRest`, and that `Channel` implements `FifoChannel` |
| `channel_solo` | 1 sender, 4 operations of the methods that wait, debug | no panic, `NoStrandedWaiter`, `SendReturns`, `EndIsTold` |
| `channel_reorder` | 2 clones, one `send` each, unlimited strategy, debug | **violated**: clones can make the receiver panic |
| `channel_lost_wakeup` | 2 clones, `send`, release | **violated**: a waiting send may never return |
| `rpc_calls` | 2 calls of an `RpcChannel` beside 1 of a generated client, capacity 1 | `RightAnswer`, `PendingOwned`, `CallReturns`, `RouterEnds` |
| `rpc_lost_answer` | one caller | **violated**: an answer may overtake its registration and be dropped |
| `mux_streams` | 2 channels, two plain messages on one and one of any kind on the other, 2 faults | `NoForeignMessages`, that `Mux` implements `LossyStream`, `NothingLost`, `Transferred` |
| `transport_manager` | 2 users, 1 listener, 1 managed caller and 4 alone (2 share a breaker, 1 has a limit), 4 commands, 2 connections | `CircuitConsistent`, `GivesUpInTime`, `NoLeftovers`, `NoGhosts`, `Reconnects` |
| `transport_no_reconnect` | 1 user, 1 managed caller, 3 commands | **violated**: a lost connection is not made again |
| `endpoint_requests` | 2 connections in 3 modes, 2 serializers, with and without a common protocol; 2 requests, which may be dropped, system channel of 1 | `Agreement`, `NoMutualWait`, `HandshakeEnds`, `AnswerIsOwn`, `PendingOwned`, `ChannelsAccounted`, `RequestReturns` |
| `server_loop` | 1 connection, 2 requests, a system channel of 1, 2 frames of any kind | `WrittenWithoutGap`, `WriterNotStarved`, `AcceptedGoesOut` |
| `buffer_pool` | 2 tasks, 2 classes with 2 buffers each, sizes around every boundary | `FitsUnlessReshaped` |

No run checks a type invariant: that of every state machine is proved (section 4).

Bounds. *Channel*: two tasks give every order of two clones, and the counters need no
third; a capacity of 2 tells "full" from "one left" and, with four messages, is filled,
drained and filled again. The wait needs a sender beyond the capacity: two tasks with
two operations each have it. A debug build goes on after a number out of place when
`recv_envelope` takes a correlated message, which is what a release build does always.
The unlimited strategy takes a subset of the steps; it is what `channel_reorder` runs with,
and the proofs are for both strategies and builds. *Rpc*: the second call of one caller is what a late answer
to its first could be mistaken for, the other caller is the concurrency, and a capacity
of 1 makes both queues fill. *Mux*: two messages in a row are what can be reordered or
lost in between, the message of the other channel is what should, or (over the limit)
should not, leave them alone; two faults are an end and one more thing that goes wrong
on the way to it. *Transport*: a threshold of 2 and 1 probe reach every state of the
breaker, two loops share it; two users are every pair of overlapping operations, two
ids a connection and another. *Endpoint*: the second connection is the one that finds a
system channel; two requests can share an id, and with a system channel of one place
the handler can block itself. *MessageLoop*: one message in the writer's hand, one in the channel
and one that waits fill the path: two requests and two frames are one more. *BufferPool*: 2 and 8 are classes of a factor of four, as
in the code, and 3, 9 and 10 the lengths just past one. `MaxOps`, `MaxCalls`, `MaxSends`,
`MaxFaults`, `MaxCommands`, `MaxIds`, `MaxRequests` and `MaxFrames` only bound how often something begins.
Deadlock is not checked where tasks that have made their calls are done, which is
everywhere but in `buffer_pool`. Symmetry is used in `channel_safety` and `buffer_pool`, which
have no liveness property (`ImplementsFifo` is one of steps).

Fairness: what the code has started goes on, and nothing else has to happen.

* `Channel`: tokio runs a task that is ready (weak fairness of each task's steps); the
  semaphore of the mpsc channel serves waiting sends in order, so a send that finds
  room again and again gets it (strong fairness of `Push`); the receiver keeps receiving.
  Nothing forces a call, a timeout, a drop, `Close` or `DropReceiver`.
* `Rpc`: alike; the server answers what it has received and timers fire. No wait for
  capacity has to end, since `channel_lost_wakeup` shows that it need not; `CallReturns`
  accordingly speaks of calls that are past that wait. Nobody has to drop the client.
* `Mux`: the spawned tasks (send task, receive task, the bridges' tasks and the
  registration). Users and faults are free.
* `Transport`: the loop of each caller, whose sleeps end and whose attempts succeed or
  fail, and the operation of each user. Commands, the clock of the breaker and the peer are free.
* `Endpoint`: each side of a connection, each request (its timer included), but neither a
  request nor the handler when it waits for room in the system channel: that wait of clones
  need not end. `RequestReturns` names the requests that are in it.
  A peer that stays connected and silent is thereby left out of `HandshakeEnds`: nothing
  in the code limits a read of the handshake.
* `MessageLoop`: the writer, the reader (`ReaderGoesOn`) but for its wait for room in the system
  channel, and the timers of requests. Neither that wait nor the one of a request has to end, for
  the same reason. The peer need not send or close: `WriterNotStarved` and `AcceptedGoesOut` name
  the case in which it does neither for good.

### What the violations mean

* `channel_reorder`: the sequence number is taken before the message is in the queue, and
  never given back. The queue itself reorders nothing (see `ImplementsFifo`); the check
  does not hold of senders that are cloned. `channel_solo` shows where it does. A number
  that is never queued (of a `try_send` or `send_timeout` that failed, or of a dropped
  send) makes the receiver of a debug build panic in the same way.
* `channel_lost_wakeup`: the message is in the queue before it is counted. When
  the receiver's decrement comes first the count wraps (or just does not pass
  the capacity) and a sender that waits for `depth < capacity` stays.
* `rpc_lost_answer`: registration follows the send.
* `transport_no_reconnect`: the loop of a managed caller polls the caller's state, and
  nothing that notices the end of a connection writes it. (Without an event handler
  `connect_caller` starts no loop at all, of which its documentation says nothing.)

### Other differences between the code and what is said of it

They came up while modelling and have no run; the models follow the code.

* `try_send` never counts its message, so that each one lowers the count for good
  (`DepthAtRest` states exactly this). A waiting `send` does not return `Closed` when the
  receiver is dropped (`channel/channel.rs:366`). `close` (`channel/channel.rs:1128`) is said
  to stop receiving and leave the sender alone, and does the opposite (`Close`).
* "Channel errors don't affect transport" (`docs/ADR/ADR-004-error-handling-hierarchy.md:290`),
  "each channel is independent and isolated" (`docs/ADR/ADR-001-core-architecture.md:53`):
  a frame over the limit ends the send task of all channels of the connection (`WriteFrame`).
  `Transferred` names this as the one way in which another channel matters.
* `get_channels` "sends a request to the remote endpoint" (`endpoint/endpoint.rs:769`): the
  system channel is local, and the request reaches the handler of the same endpoint.
  The client's transport is dropped when `connect` returns. `ChannelRequests` models the loop.
* On a server `request_channel` cannot succeed. Whatever the loop reads goes into the system
  channel (`endpoint/endpoint.rs:2726`), which its own writer empties: a response of the peer,
  or a request, is sent back to it (`RouteToSystem`, then `WriteFrame`). The handler of system
  messages is spawned by a client alone (1521; the comment at 3628 leaves it to "the connection
  establishment code"). "The remote endpoint's negotiator will validate the request and either
  accept or reject it" (498).
* `request_channel` returns an error "if the request failed or timed out"
  (`endpoint/endpoint.rs:513`), but its send (598) has no timeout: on a server it waits for as
  long as the peer is silent once the path is full, as the reader holds the lock, and
  a wait that is not woken (`channel_lost_wakeup`) has no end; the handler of a client waits in
  the channel that it alone reads (907). `RequestReturns` leaves these waits out. The system
  channel of a connection that has ended stays in the manager.
* A `request_channel` whose future is dropped at its send (600) or its wait (611) leaves its id in
  `pending_requests`, so that every retry is refused, as does one that finds no system channel
  (574-596); a `get_channels` that is dropped leaves its channel in the manager. `PendingOwned` and
  `ChannelsAccounted` name these as the only ways to do so.
* An endpoint has one connection in its lifetime. The second `connect`, `accept` or connection of a
  listener runs its whole handshake and stores what was negotiated, then fails because the
  system channel's id is taken (`CreateSystem`; `endpoint/endpoint.rs:1507`, 2134), and nothing
  removes that channel. `max_connections` (`endpoint/config.rs:64-70`: "`None` means unlimited
  connections") is stored and read by nothing, the accept loops in the
  documentation (`endpoint/endpoint.rs:1915-1924`, 3352-3361) serve one peer and then get errors, and
  "good for servers that handle many concurrent connections"
  (`docs/archive/accept_channels_comparison.md:32`) does not hold. No property says that a
  second connection must fail, or that it must not.
* `handshake_timeout` (`endpoint/config.rs:62`) limits channel requests
  (`endpoint/endpoint.rs:610`) and no handshake.
* `accept` registers the connection and creates its router before the system channel; a
  second one fails there and leaves both (`endpoint/endpoint.rs:2134`).
* `start_reconnection_loop` (`transport/caller.rs:155-156`) "will run until
  `stop_reconnection_loop()` is called or the transport is disabled": it also ends when the
  strategy gives up, and being disabled need not end it. The loop reads the state and later
  overwrites it (`BeginConnect`, `Announce`, `BackOff`), so that a `Disabled` set in between, of which
  47 says that the transport "will not attempt to connect", is lost, and the loop goes on.
* In `transport/manager.rs`: `remove_listener` (363) "will shut down the listener", but the
  accept task goes on; `remove_caller` (409) "will stop any strategy attempts and close the
  connection" and does neither; `disable_transport` (511) stops nothing of a caller;
  `shutdown_all` (1488) disconnects those that have a router; `disconnect` (1405) in the
  middle of a `create_router` leaves a router behind, the one exception in `NoLeftovers`.
* `get_buffer` (`serialization/buffer_pool.rs:206`) "with at least the specified capacity":
  not after a user has extended, shrunk or replaced a buffer so that its capacity lies between
  two classes. It is filed under the larger one. Frames are safe, as `read_frame` resizes.

## 4. What is proved

All theorems hold for every value of the constants that the named assumptions allow:
a positive capacity (asserted by `BoundedQueue::new`) below the word, a positive mpsc
bound, and the shapes of the parameters.

`ChannelProofs`, for any senders, methods, strategy, capacity, word and build:

* `Inductive`: `IndInv`, which is the type invariant, "a task in a call has a method" and
  `OrderInv`: every envelope in the queue or delivered belongs to a call that returned
  Ok or is about to (`Settled`), the numbers of each sender increase along both logs,
  and those delivered come before those queued. `PerSenderFifo` alone is not inductive:
  it says nothing of the queue, from which the next delivery comes.
* `TypeCorrect`, `SenderOrder` (`PerSenderFifo`), `ErrorsAreFinal` (`ErrorMeansNotSent`).
* `BalanceKept`: the count is the balance of the two message counters, modulo the word
  (`DepthIsBalance`). The next theorems rest on it.
* `AcceptedIsKept`, and from it `OkKept` (`OkMeansKept`) and `EndComplete`
  (`EndIsComplete`). `KeptInv` speaks of calls that have pushed and not yet returned as well;
  `EndInv` adds that after the end nobody can push.
* `RestCounts` (`DepthAtRest`): by `CountInv` the two message counters are the lengths of the
  logs, but for what is never counted (`Uncounted`), what is pushed and not yet counted
  (`Pushed`) and what is received and not yet counted. At rest only the first is left.
* `SoloNeverPanics` (`NoReorderPanic`), of a single sender whose methods wait and whose
  futures are not dropped: by `SoloInv` each number taken is queued in its place. Clones
  break it (`channel_reorder`), as do numbers that are never queued.
* `SoloNeverStranded` (`NoStrandedWaiter`), of a single sender without `try_send`, whose
  futures may be dropped and whose sends may time out: a waiting send has a message to take
  or a notification under way. `WaitInv` says that the registered waiters are the parked
  futures; `SoloWait` follows the wait from its poll to its
  parking; `CountInv` turns "the count is at capacity" into "the queue is not empty",
  as the one sender, which waits, has pushed nothing that it has not counted. With a
  second clone that last fact is lost, and so is the wakeup (`channel_lost_wakeup`).

In the same module, `Refinement`: that `Channel` implements `FifoChannel`. A push or an
accepted `try_send` is `Accept`, a `Take` is `Deliver`, `Close`, `DropReceiver` and `Panic` are
`Shut`, and all else stutters. `Accept` needs the number of the call to be above all that
the channel has had from the writer, which is `Settled` again, and at most `MaxOps`, a
second small invariant (`Started`).

`RpcProofs`, for any callers of both kinds, capacity and number of calls: `Inductive`,
with `IdsInv` (ids of calls in progress are different and below the generator),
`MessagesInv` (a message with the id of a call in progress carries its payload, wherever
it is), `PendingInv` (an entry whose id is in use is its user's, who is registered) and
`AnswerInv` (a call that has its response has no entry any more); `TypeCorrect`,
`AnswersMatch` (`RightAnswer`), `NoStrayEntries` (`PendingOwned`).

`MuxProofs`, for any channels, messages and faults: `MuxInvariant`, `MuxTypes`,
`NothingForeign` (`NoForeignMessages`). That frames never mix needs more than what is on
the wire: `PartsInv` ties its last part to the place the send task is at, and says that a
body follows the id written for the same message; `OwnInv` says whose messages the queues hold.

In the same module, `StreamInvariant` and `MuxRefinement`: that `Mux` implements
`LossyStream` (`ImplementsStreams`). A message passes six stages (`Stages`, counted from its
end: delivered, incoming, the bodies on the wire, what the send task writes, outgoing,
outbox), and what the stream has in transit is what the stages up to `Reach(c)` hold, the last one
from which a message of channel c still goes on. The argument has three parts.

* Each step does one of four things to the stages (a section of lemmas of its own): it
  adds a message to the outbox, moves the first message of a stage to the next, drops the
  first message of a stage, or empties stages.
* `OrderInv`, that no message overtakes another of its channel, within a stage or between
  two, survives each of the four. `SentInv` makes the next number new, `KindInv`
  says that what a stage skips is not further on, and `OpenInv` that nothing comes in for a
  channel before its registration or after its incoming task.
* `Send` is `Take` if the message is one that arrives, `Incoming` is `Deliver`, a `Receive` before
  the registration is `Miss`, a `RegisterChannel` is `Listen`, and the end of a task, a bridge,
  a registration or the transport is `Cut`: what it takes from the
  transit of a channel comes after all that it leaves, as a path is lost from its
  beginning. Everything else moves a message between two stages of the transit, and stutters.

`LosesNothing` (`NothingLost`) follows from that refinement: of the steps of the stream
only `Miss` and `Cut` take a message from the transit that is not delivered. `Miss` is not for a
channel that is registered, and a `Cut` shortens a path (`Reach(c)`). A path that is not
whole has an excuse: `EndsInv` says what each task that has ended has met.

`TransportProofs`, for any callers, strategies, thresholds, users and ids:
`TransportInvariant`, `TransportTypes`, `BreakerConsistent` (`CircuitConsistent`), `LoopsGiveUp`
(`GivesUpInTime`), `OneLeftover` (`NoLeftovers`), `NothingListedInVain` (`NoGhosts`). The
invariant says what each loop with a limit has counted at each stage (`CountInv`), and what
each operation has in hand between two locks: a connection that is being entered is known
to its task alone (`QueueInv`, `EnterInv`), and what a task of create_router or disconnect may
rely on, unless the two met (`RouterInv`, `LeaveInv`, `ClosedInv`).

`EndpointProofs`, for any capabilities, connections, serializers and modes:
`NegotiationMirrors`, that negotiation with its arguments exchanged gives the same
protocols, versions and features with call and respond exchanged; `HandshakeInvariant`;
`SidesAgree` (`Agreement`), from it and from what each side has stored (`NegotiationInv`) and
what the messages under way say of the other side (`OrderInv`); `NobodyWaitsInVain` (`NoMutualWait`), by `ForwardInv`: what a side is going
to read is on its way, unless its sender is still to send it or has failed and closed. The
invariant goes through the pairs of places the two sides may be at, as the three
exchanges send the same messages in different orders.

`RequestProofs`, for any requests and system buffer: `RequestsInvariant`, `EndpointTypes`,
`AnswersAreOwn` (`AnswerIsOwn`), `PendingHasOwner` (`PendingOwned`), `ChannelsAreAccounted`
(`ChannelsAccounted`). The invariant follows the users of an id through table, channel,
handler and answers (`UserInv`): with one user there is nobody else to answer. A request may be
dropped at any of its awaits.

`BufferPoolProofs`, for any classes, limits and tasks: `PoolInvariant`, `PoolTypes`,
`GetGivesEnough` (`FitsUnlessReshaped`). A buffer in a pool has the size of its class, and one
that will go there that of some class, until a user has left one between two of them.

`MessageLoopProofs`, for any requests, system buffer and frames: `LoopInvariant`, `LoopTypes`,
`NoGap` (`WrittenWithoutGap`). The invariant ties the line for the lock to where the two tasks
are (`LockInv`), and says of the path that what was accepted is what was written or skipped, then
what the writer has in hand, then what is queued (`PathInv`), until the writer ends.

Every invariant, action property and refinement that the passing runs check is thereby a theorem. Only
model-checked is liveness, which TLAPS cannot prove: `SendReturns`, `EndIsTold`,
`CallReturns`, `RouterEnds`, `Transferred`, `Reconnects`, `HandshakeEnds`, `RequestReturns`,
`WriterNotStarved`, `AcceptedGoesOut`. Three of them have a safety part that
is proved: that a send is never left waiting (`NoStrandedWaiter` for `SendReturns`), that
nothing drops out of the transit (`NothingLost` for `Transferred`), and that no two sides
wait for each other (`NoMutualWait` for `HandshakeEnds`). What is left to the model checker
is that fair tasks then move on.

## 5. What is not modelled, and why

* Serializers, transport providers, observability: wrappers of libraries, input and output,
  and counters that no other component reads. Builders, configuration and re-exports have
  no behaviour of their own.
* Of the channel manager: `cleanup_closed_channels` and queries. Of the system channel: pings
  and close notifications, which nothing in the crate sends. Of the endpoint:
  `connect_transport`, which always fails, and the event handler, which nothing installs. Of the
  transport manager: the table of bare metadata, which no operation fills. Of RPC: the
  parsing and code generation of the macros.
* `start_reconnection_loop` is one step: two concurrent starts on one caller are not taken apart.
* Sequence numbers, message counters and correlation ids are 64-bit counters that
  start near zero; the models let them grow without a bound.
* The two directions of a connection, and the channels in memory at either end of a bridge,
  are composed by what the abstract modules say of them, not in one state space.

The definitions translate a small share of the lines of the crate, of which a large part is
documentation, inline tests, builders, providers, metrics and examples; what is left after the
modules above is the code listed here.
