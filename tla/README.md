# socketioxide in TLA+

TLA+ models of socketioxide, a socket.io server in Rust, with the TLC
configurations that check them and the TLAPS proofs about them. Everything is
translated from the code: the crates under `src/crates/`, and two of the sample
applications under `src/examples/`, whose pages (JavaScript) and servers (Rust)
are concurrent programs built on the crates. `PROJECT.json` gives, for each
definition, the file and the lines it stands for.

## 1. The system

A client opens an *engine.io session* (long polling, or a websocket, or polling
upgraded to a websocket). Over that session it connects to any number of
*namespaces*; in each it has one *socket*. A socket joins *rooms*; a server
broadcasts to rooms through an *adapter*.

| Component | State it keeps | Operations | Talks to |
|---|---|---|---|
| Engine (`engineioxide/src/engine.rs`) | `sockets`: the open sessions by sid | `create_session`, `get_socket`, `close_session` | the handler (`socketioxide::Client`) by `on_connect`, `on_message`, `on_disconnect` |
| Session (`engineioxide/src/socket.rs`) | the internal channel (bounded), its receiver with the peeked packet behind an async mutex, `transport`, `upgrading`, the heartbeat channel, the cancellation token | `emit`, `close`, `heartbeat_job`, `start_upgrade`, `upgrade_to_websocket` | both transports, which drain its channel |
| Polling transport (`transport/polling.rs`) | the requests in flight | open, GET (`polling_req`), POST (`post_req`) | `try_lock` of the receiver, `close_session` |
| Websocket transport (`transport/ws.rs`, `service/mod.rs`) | a reader and a writer task for each websocket | `on_init`, `upgrade_handshake`, `forward_to_handler`, `forward_to_socket` | `lock().await` of the receiver, `close_session` |
| Payload encoder and decoder (`engineioxide-core/src/payload`) | the bytes of one payload | `v4_encoder`, `v3_*_encoder`, `Payload::next` | the polling transport |
| HTTP service (`service/parser.rs`, `futures.rs`, `layer.rs`) | none | dispatch of requests | transports |
| Client (`socketioxide/src/client.rs`) | `nsps`: namespaces; dynamic namespaces; the partial packet and connect timeout of each session | `sock_connect`, `sock_propagate_packet`, `add_ns`, `delete_ns`, `close`, `on_connect`, `on_disconnect` | namespaces, engine |
| Namespace (`ns.rs`) | `sockets` by sid, `connecting`: sids whose connection is in progress | `connect`, `remove_socket`, `recv`, `close` | adapter, sockets, engine |
| Socket (`socketioxide/src/socket.rs`, `handler/disconnect.rs`) | `connected`, the disconnect handler, message handlers, the ack table | `emit`, `join`, `leave`, `on_disconnect`, `disconnect`, `close`, `recv` | namespace, engine session |
| In-memory adapter (`socketioxide-core/src/adapter/mod.rs`) | `rooms`: sids by room, `sockets`: rooms by sid | `add_all`, `del`, `del_all`, `add_sockets`, `del_sockets`, `apply_opts`, `broadcast`, `close` | namespace (as `SocketEmitter`) |
| Acknowledgements (`ack.rs`, `send_with_ack`, `recv_ack` of `socket.rs`) | the table of expected acks by number, with its sweep threshold; the receivers of a caller or a broadcast | `send_with_ack`, `recv_ack`, the streams of answers with their timeout | socket, client packets |
| Remote adapters (`adapter/stream.rs`, `heartbeat.rs`, the redis, postgres and mongodb crates) | known nodes, requests in flight | requests and answers over a pub/sub | local adapter |
| Video call example (`examples/webrtc-node-app`) | in the page: the stream, the role, the peer connection and its descriptions; in the server: nothing but its rooms | `join`, `start_call`, the offer, the answer, the candidates | socket.io events, relayed by the server to the room |
| Chat example (`examples/react-rooms-chat`) | in the page: the room and the messages that are shown; in the server: the last messages of each room | `join`, `message`, the click on a room, the reconnection | socket.io events, a broadcast to the room |
| Parsers (`parser-common`, `parser-msgpack`) | a partial binary packet | encode, decode | client |

**What is hard.** Every CONNECT packet, every close, every polling request and
every websocket runs as a task of its own on a multi-threaded runtime. The
locks are short: between two of them anything may run. So

- a connection (guard, middlewares, insertion, answer, flag, connect handler)
  interleaves with other connections of the same client, with the end of its
  session, with DISCONNECT packets, `disconnect()`, `delete_ns` and `close`;
- a socket is looked up by sid, removed by sid, and a `SocketRef` keeps an
  object that may have been replaced under that sid;
- the outgoing channel of a session has one reader at a time, chosen by an
  async mutex among polls, the upgrade handshake, websocket writers and the
  closing task; futures holding it may be dropped at any await;
- an upgrade may time out, be cancelled, fail or be attempted twice;
- the heartbeat is paused by an upgrade, and its channel can hold an old pong;
- closing the session must reach the handler whatever the readers are doing;
- a dynamic namespace is created by whoever finds none, and its first user waits
  for its adapter while others may create it again;
- the other servers of a cluster may come, die, lose a request or a response,
  and the stream of their answers has to end all the same, and not too early;
- handlers of one socket run at the same time: what a handler read before an
  await, or what a page knew before one, may be old when it goes on.

**What makes each component correct.** Namespace: one connection in progress
or one socket for each sid, no insertion over another socket, no socket or
room left behind by a session that is gone, the disconnect handler at most
once, nothing emitted before the CONNECT answer, no socket kept that a close
disconnected. Session: no message lost,
duplicated or reordered, the lock given back by every way of ending a request
or a handshake, a session closed once and reported once, only after it stopped
taking packets; silent clients are disconnected. Adapter: its two maps agree, a
broadcast reaches the sockets its options mean. Client: no socket left in a
registered namespace by a session that is gone, and no session that stays
without ever connecting. Acks: a caller who waits when the client answers gets that answer;
the table is bounded, and so is the cost of cleaning it. Remote adapters: the
streams of answers end, and if they do before the timeout, with every answer.
The examples: two peers in a room and a call on both sides; a page whose socket
is in the room it names, and which shows its messages, all but those the
program is known to lose.

## 2. Modules

| Module | What it is |
|---|---|
| `Namespace` | one namespace with all tasks that connect and close its sockets (`ns.rs`, the parts of `client.rs` and `socket.rs` that change it) |
| `Membership` | what a namespace promises: each attempt is tried, admitted and out, at most one alive for each session |
| `NamespaceProofs` | inductive invariant of `Namespace`, that it implements `Membership`; handlers, answers, leaks of sockets and rooms |
| `EngineSession` | one engine.io session with all its readers, the upgrade, the heartbeat and the closing task |
| `EngineSessionProofs` | the lock is held by those whose stage says so, the session is watched, messages arrive in order, an upgrade is not starved, `EngineSession` implements `EngineLife` |
| `EngineLife` | what a session promises to the layer above: four stages; the interface on which `Namespace` relies |
| `LocalAdapter` | the two maps of the in-memory adapter, the selection of sockets |
| `RoomRelation` | what an adapter promises: a relation of sockets and rooms |
| `LocalAdapterProofs` | the maps agree, a selection yields what its options mean, `LocalAdapter` implements `RoomRelation` |
| `AckMap` | the table of the acks a socket expects, with all callers, the client's answers, timeouts and the sweep |
| `AckMapProofs` | nobody forgotten, no answer lost, the table and its sweeps bounded |
| `Client` | the map of namespaces with dynamic ones, and several sessions: who creates, deletes, connects, times out and leaves |
| `ClientProofs` | no socket left by a session that is gone, each instance implements `Membership` |
| `RemoteAck` | one request to the other servers of a cluster, its table entry and the stream of answers |
| `RemoteAckProofs` | the entry is removed, answers are accounted for, an early end is complete |
| `RtcCall` | the video call example: pages that set up a call through the server |
| `RtcCallProofs` | at most two sockets in a room, one of them its creator, unless joins overlap; no handler misses what it uses |
| `RoomsChat` | the chat example: pages that show one room, the server that stores its messages |
| `RoomsChatProofs` | a settled page shows its room, and all of its messages but those that raced with an answer or were refused by a full channel |
| `MCNamespace`, `MCEngineSession`, `MCLocalAdapter`, `MCAckMap`, `MCClient`, `MCRemoteAck`, `MCRtcCall`, `MCRoomsChat` | instances for TLC, with their symmetry sets |

How they fit: `EngineSession` implements `EngineLife`, whose stages (`open`,
`closing`, `closed`, `gone`) are the values of the variable `engine` of
`Namespace`. A send into the channel succeeds only in the first two stages, and
`on_disconnect` comes only after `closed`. `Namespace` has one stage more,
`blocked`: the closing task waits for the lock of the receiver and never gets it
(`Stall`), which `EngineSession` shows to be possible (`FindStalledWriter`); to
`EngineLife` it is a session that stays in `closing`. `Namespace` reduces the adapter to
whether a sid has rooms; `LocalAdapter` reduces the namespace to the set of its
sids (`present`). Composing the two is in the plan. `Client` has several
instances of a namespace and keeps of each only the steps that other instances,
sessions or the connect timeout can come between; each instance is proved to
implement `Membership`, as `Namespace` is. `RemoteAck` is above the adapter: the
local part of a request is a number of answers to come. The two examples use
the crates from outside: tasks that run at once, rooms, broadcasts.

Operators marked `Mutant` next to a definition are the wrong version of it
that a plausible bug would give; `PROJECT.json` says which property notices.
They are used by no specification.

### Namespace

A *connect attempt* `c` is one CONNECT packet; past the guard it stands for the
`Socket` object it creates. `conn[c]` is the program counter of
`Namespace::connect`, one value for each point where the task has released its
locks: `EnterGuard`/`Ignore` (`ConnectingGuard::new`), `MiddlewareOk` (the
insertion) or `MiddlewareErr`, `SendConnect`/`SendConnectErr`, `Accept`
(`set_connected(true)`), `DropGuard`, and the clean-up of the two failures
(`ConnectDelAll`, `Refuse`, `Abort`). `task[t]` is one call of `Socket::close`:
`ClearConnected`, then `TakeHandler` with `HandlerDone` later, `ExtractErr`, or
`NoHandler`, then `RemoveSocket` and `LeaveRooms` (the two halves of
`remove_socket`, which release the socket map in between). Closes start by
`RecvDisconnect`, `Disconnect`, `OnDisconnect` (the engine's report) and
`NsCloseSocket` (`delete_ns`). User code is `Disconnect`, `Join` and
`OnDisconnectHandler`, at any time a reference exists (`HasRef`): in a
middleware, and from the insertion on, as `disconnect_many` finds a socket in the
map whether or not it has been answered and flagged. A close by a middleware
removes nothing, for its socket is not in the map yet; the socket is inserted and
flagged connected afterwards. Packets that do not fit in the channel are a choice
in `Refuse` and `SendConnectErr`.

The history variables (`announced`, `called`, `reg`, `stuck`, `late`) are read
by properties only.

Not in the model: events and acks (they reach a socket's handlers and change
nothing of the namespace), and a user who keeps the reference of a socket that
was refused. `Workers` bounds how many closes run at the same time for packets
and user code; the engine's report and `delete_ns` have their own tasks.

### EngineSession

`lockq` is the tokio mutex of `internal_rx`: a fair queue whose head holds the
lock. Releases (end of a request, cancellation, dropped future) take the task
out of the queue wherever it is. `chan` and `peeked` are the channel and the
packet that did not fit in the last payload; a payload takes any non-empty
prefix. `poll[p]` is a GET request: found, `is_upgrading` read, `try_lock`,
answered; `posting` a POST request whose body is still arriving; `ws[u]` the
task of a websocket (`on_init` with the handshake, then `forward_to_handler`);
`writer[u]` its `forward_to_socket`; `heartbeat` the v4 job; `closer` the task
`close_session` spawns. Timers fire at any time after they are armed.

Not in the model: volatile packets, `emit_many`, the v3 protocol, incoming
messages (they only reach the handler).

### LocalAdapter

Every operation holds the locks of its maps to its end, so it is one action.
`rooms` and `roomKeys` are the map of rooms (an entry may be empty), `sockets`
the map by sid. `Yields(o, i)` is what the iterator `BroadcastRooms` returns in
the i-th room of the options, with its deduplication; `Selected` is
`apply_opts`. `Arrive` and `Depart` are the namespace's part.

### AckMap

A call `k` is one caller with its oneshot channel. `send_with_ack_permit` is
three steps, `Number` (`fetch_add`), `Insert` (sweep and insertion under the
lock) and `Send` (after the lock is released), and other callers, answers and
ends of calls come between them. `table` holds the calls whose sender is in
`ack_message`; a receiver that is dropped leaves its sender there until a sweep.
`RecvAck` takes any number so far: the client may repeat an answer or give it
before it got the packet. `TimeOut` is `AckResultWithId::poll` when the time
has elapsed and the channel is empty. `peak` and `since` are history.

### Client

`nsps[p]` is the instance that serves a path, or none; `SockConnect` has the
four branches of `sock_connect`: the namespace is there (`spawned`), it is
created (`init`, until its adapter has started: `DynamicReady`, `DynamicErr`),
there is none. `add_ns` inserts its instance in the same way, when its adapter
calls back (`AddNs`, `NsAdded`). From `Guard` on, an attempt goes through
`Namespace::connect` in its instance; `CancelTimeout` is the sender of
`connect_recv_tx`. `delete_ns` keeps the write lock of `nsps` while it closes
the sockets (`Locked`), and `on_disconnect` first collects the sockets of the
session, then closes them (`toLeave`). Closing one socket is one step here:
`Namespace` has all its interleavings.

### RemoteAck

One request, from `Begin` (count the live servers, insert the entry in
`responses`) to `DropStream`. The other servers are `up` or not, `beating` or
not, and `seen` by the heartbeat tracker or not, in any combination; requests
and responses may be lost (`LoseReq`, `LoseRes`, a full channel in `Route`), a
server may stop in the middle (`Crash`, `SendResErr`). The stream is the code of
`AckStream`, one action for each exit of `poll_next`; `poll` says whether its
task is due, inside the loop of `poll_remote`, or parked until something wakes
it, so that a wakeup that is missed shows. A request that wants one response of
each server (`rooms`, `fetch_sockets`) is the kind `collect`, whose stream is
`take(n)` with a timeout. The responses of one server arrive in order. The code
followed is that of the mongodb adapter; the others use the same modules of
`socketioxide-core`.

### RtcCall

A page handles one event at a time, up to the first await of its callback; the
continuation is an action of its own (`SetLocalStream`, `CreateOffer`,
`CreateAnswer`). The server runs a task for each event: `JoinCount`, `JoinAdd`
and `JoinTell` are the three steps of `join`, and `Relay` sends an event to the
others of the room, in any order, so that events of one page may overtake each
other on the server. `thrown` records what a callback missed when it threw or its
promise was rejected, `stale` that a join acted on a count that was old.
All pages name the same room: rooms do not meet. Assumed: a page joins after the
server has registered the handlers of its socket (its user clicks, at least a
round trip after the connection), and no channel is full. Without them an event
may be lost for ever, as `RoomsChat` shows, and no call completes.

### RoomsChat

`Emit` puts an event on its way (`out`), or in `buffer` while the page has no
connection. `Connect` sends what was kept, then runs the `connect` callback. On
the server `on_connect` is a task spawned after the CONNECT answer, which goes
through its two `socket.on` (`Register`); an event that arrives finds its handler
and spawns it (`Arrive`, into the bag `tasks`), or is dropped (`Ignore`). A handler
of `join` is `LeaveAll`, `Join`, `GetMessages`, `EmitMessages`; one of `message` is
`Insert`, `Broadcast`; each is a point where tasks on other threads may come
between. The answer and the broadcast may be refused by the channel of a
socket, which the code ignores; how long a channel is does not matter to the
properties, so it may refuse at any time. `Disconnect` loses what is on its way in
either direction; the server may have taken any part of it before. A socket is a
pair of a page and a connection number, so handlers of a lost connection go on with
a socket that is gone.

The history variables say what the properties set aside: `mixed` the pages that
had joins of two rooms under way at once, `reached` how far the joins of a page got
(no handler, a handler, an answer), `raced` the messages stored between the reading
and the emission of an answer, `refused` those a full channel refused; `log` is all
that was ever stored.

## 3. What TLC checks

Each run is a `.cfg`; all constants are small sets of model values.

| Run | Instance | What it shows |
|---|---|---|
| `NsSafety` | 1 sid, 2 attempts, 2 workers, the namespace stays (1.8 M states) | `GuardExclusive`, `HandlerOnce`, `ConnectedAfterAnswer`, `ClosedLeaves`, `NoSocketLeak`, `NoRoomLeak`, implements `Membership` |
| `NsLive` | 1 sid, 1 attempt, 1 worker, `delete_ns` and `close` (132 k states) | `Drained`: a session that ends leaves nothing behind, unless its closing task never gets its lock; `AdminReturns`: deletion returns, and closing unless it waits for such a session |
| `EngPolling` | 2 polls, 1 websocket, 2 messages, channel of 2 (5.4 M states) | `LockOK`, `Fifo`, `Watched`, implements `EngineLife` |
| `EngWebsockets` | session opened by websocket, or upgraded by 2 websockets at once, by either entry; peers that may stop reading (1.2 M states) | implements `EngineLife` |
| `EngLive` | 1 poll, 1 websocket, no message (324 k states) | `UpgradeNotStarved`; `ClosedIsNotified`, `UpgradeEnds`, `SilentIsClosed` |
| `AdapterRooms` | 3 sids, 2 rooms, lists of up to 2 rooms, all options | `MapsAgree`, `SelectionMeant`, implements `RoomRelation` |
| `AckTable` | 4 callers, sweep from 1 entry on (505 k states) | `NoneForgotten`, `AnswerNotLost`, `TableBounded`, `SweepsPaidFor` |
| `ClientMap` | 1 session of either protocol, 3 CONNECT packets, a static and a dynamic path, 2 instances, `delete_ns` and `close` (1.3 M states) | `NoSocketLeak`; `ServedOrClosed`; every instance implements `Membership` |
| `RemoteAcks` | 2 other servers, 1 selected socket on each server, channel for 1 more response than servers, both kinds of requests (1.5 M states) | `HandlerOwned`, `EarlyEndComplete`, `Accounted`; `StreamEnds` |
| `RtcCalls` | 3 pages, one of which may leave, 1 candidate (637 k states) | `RoomOfTwo`, `NothingMissing`; `CallCompletes` |
| `RoomsChats` | 1 page, 2 rooms, a store of 1 message; at most 4 of: 2 connections, 2 messages, 1 change of room (1.5 M states) | `RightRoom`, `LostOnlyIfMissed`, `SeenIsKept` |

Properties that section 5 proves are checked in a run where the run costs little;
the type invariants, `MapOK`, `NeverReplaced` and `RefusedRemovesNobody` are not, for
they are proved.

**Why the bounds are enough.** *Namespace*: sids never interact (every map is
indexed by sid), except through `nsps`, which is one flag; so one sid. The
conflicts are between two attempts of one sid, an old socket and its
replacement, and between closes; a third attempt is to the second what the
second is to the first. Two workers and the session's own task make three closes
at once, of one socket or of both. Nothing that `delete_ns` or `close` does is in
`NsSafety`: the invariants that could notice hold for all values of `AdminOps` by
the theorems of section 5, and `NsLive` has both operations with one attempt. *Session*:
two requests or two upgrades are enough for each conflict over the lock, whose
state is a queue of distinct tasks; with two messages and a channel of two a
payload can stop between them, a packet can be put back, and the channel can be
full of pings, noops and messages. `MaxMsg` is 0 in `EngLive`: messages neither
hold nor release the lock, and pings and noops already fill the channel.
*Adapter*: two rooms make every overlap of a broadcast's rooms, a room listed
twice and an excluded room; three sockets allow a sender, one inside and one
outside. *Acks*: with a sweep from one entry on, four callers make two sweeps
with a threshold that grows or stays in between (the code has 64; the theorems
hold for any). *Client*: attempts of different sessions meet only in the map of
namespaces; three packets make two that find no namespace and a third that
finds one of the two, or two attempts for one instance, and two instances are
what a path can be served by at one time and after. *Remote acks*: each server
is counted once, so two make every order of counts and answers, one of them
lost or late; one answer for each is enough for a server that announces none.
The theorems hold for any. *Call*: two peers, and a third who finds the room
full or comes after one left; the candidates are counted in total, for one can be
anywhere between the other events. *Chat*: with a store of one message the second
one replaces the first, two connections make a handler that outlives its
connection, one change of room two joins of different rooms (each connection
joins twice anyway, once by the effect and once by the callback). The constraint
`FourEvents` leaves out one of these five events at a time; without it (12.3 M
states) the properties hold too, and the theorems are for all values.

Runs set `CHECK_DEADLOCK FALSE` because the systems do stop: attempts,
websockets and messages are used once, a closed session has nothing to do, a
call that is set up neither.

**Fairness.** `Namespace!FairSpec` has weak fairness of each connection task,
each close task, the engine's two closing steps and the administrator's task:
Tokio polls a task that can run until it is complete, and the middlewares and
disconnect handlers are assumed to return. It assumes nothing of the client, of
connect handlers, or that sessions end. Nor does it say that the task which
closes a session gets the lock it waits for (`engine.rs:102`): `Stall` may come
before `CloseChannel`, and then nothing more is promised of that session. `EngineSession!FairSpec` has weak
fairness of each request, websocket and writer task and of the server's jobs
and timers. It assumes nothing of the client: a probe, a pong, an HTTP request
or the reading of a websocket may never come. `HbCancelled` has its own weak
fairness because the job is dropped at its first wait once the token is
cancelled. `EngLive` has `MayStall = FALSE`: with a peer that keeps its
connection but reads nothing, the report of a disconnection does wait for ever;
that is finding `FindStalledWriter`. `UpgradeNotStarved` is for a client with one polling request at a
time: it speaks of a request that holds the lock already, and a second request
could drain what the handshake put in the channel. `Client!FairSpec`: the connect
timeout fires, and nothing else; packets, middlewares, adapters and the engine's
closing task may never come or return. `RemoteAck!FairSpec`: the caller polls its
stream when it is woken and the timer fires; nothing is assumed of the other
servers, and local answers are waited for as long as they take (they have their
own timeout, `AckMap`). `RtcCall!FairSpec`: the tasks of the server run to their
end and a page handles the events it gets, `getUserMedia` included; users need
not join or leave. `RoomsChat` has no liveness property.

## 4. Where the code and its documentation disagree

Each configuration below checks one sentence of a doc or comment, or a promise a
user of the code would expect, and TLC finds the execution that contradicts it.
The first is a run of `PROJECT.json`, which quotes the sentence.

| Configuration | What happens |
|---|---|
| `FindAckStreamLate` | The last server to be counted has no socket to answer: nothing is left to come, but `poll_remote` asks whether the stream is over only when it is entered, and the stream waits for its timeout. |

The others are run by hand, as in `tlc -config FindPollRace.cfg MCEngineSession`.

| Configuration | Module | Property and sentence | What happens |
|---|---|---|---|
| `FindClosingServer` | `MCNamespace` | `ClosingCallsHandlers`, `io.rs:508` | `io.close()` takes the namespaces out of the client before the sessions end: the disconnect handlers are not called. |
| `FindRemovedUnclosed` | `MCNamespace` | `RemovedOnlyIfClosed`, `ns.rs:129` | Two closes of one socket can remove it twice, by sid, and a close of a socket that was refused removes by sid too; such a removal, after the client reconnected, removes the new socket, whose disconnect handler is not called. |
| `FindClosedInMiddleware` | `MCNamespace` | `ClosedIsOut`, `socket.rs:663` | A middleware disconnects its socket and accepts it: the close finds nothing to remove, and the socket is inserted and flagged connected although its disconnect handler was called and the client was sent a DISCONNECT. |
| `FindHandlerNotCalled` | `MCNamespace` | `HandlerPromise`, `socket.rs:463` | The session ends just before `set_connected(true)`: the connect handler then registers a disconnect handler nobody calls. |
| `FindPeekedSkipped` | `MCEngineSession` | `NoGap`, `polling.rs:126` | A packet that did not fit in the last payload before an upgrade is never sent. |
| `FindStreamUpgrade` | `MCEngineSession` | `UpgradingIsTrue`, `engineioxide/src/socket.rs:200` | A failed upgrade of a websocket given to the service as a stream leaves `upgrading` set: polls get Noops and the heartbeat is paused for ever. |
| `FindRoomsDuringHandler` | `MCNamespace` | `RoomsDuringHandler`, `socket.rs:454` | A session that ends while a disconnect handler runs closes the socket again; that close finds no handler and removes the rooms the handler was promised. |
| `FindDeletedNotEmpty` | `MCNamespace` | `DeletedIsEmpty`, `client.rs:174` | A connection in progress when a namespace is deleted ends up connected to it. |
| `FindReconnectIgnored` | `MCNamespace` | `IgnoredOnlyIfConnected`, `ns.rs:129` | The CONNECT packet of a client whose previous socket is still in its disconnect handler is dropped without an answer. |
| `FindPollRace` | `MCEngineSession` | `MultiplePollingReason`, `engineioxide/src/socket.rs:87` | A single poll that races the start of an upgrade closes the session with "multiple polling". |
| `FindNotOpened` | `MCEngineSession` | `EndedIsDisconnected`, `handler.rs:59` | A websocket that breaks before its open packet leaves an open session that nobody watches or reports. |
| `FindStalledWriter` | `MCEngineSession` | `CancelledReleases`, `engine.rs:91` | A writer blocked on a peer that does not read keeps the lock of the channel. |
| `FindEmptyRoom` | `MCLocalAdapter` | `EmptyHasNoEntry`, `adapter/mod.rs:661` | A join with a selection of no socket creates empty rooms. |
| `FindDynamicTwice` | `MCClient` | `NoOrphan`, `socket.rs:463` | Two first packets create a dynamic namespace twice; the sockets of the instance that lost its place in the map are not found when their session ends. |
| `FindStartCallIgnored` | `MCRtcCall` | `CallStarts`, `client.js:64` | The creator of a room ignores `start_call` while its own `getUserMedia` is pending, and nobody sends it again. |
| `FindMessageLost` | `MCRoomsChat` | `NothingLost`, `main.rs:34` | A message broadcast between the reading of a room and the emission of the answer disappears from the page. |
| `FindShownTwice` | `MCRoomsChat` | `ShownOnce`, `main.rs:48` | A message stored before that reading and broadcast after the answer is shown twice. |
| `FindOtherRoom` | `MCRoomsChat` | `RoomIsShown`, `App.jsx:36` | After a reconnection the page joins the room of its first render, whatever room it shows. |
| `FindGoneMember` | `MCRoomsChat` | `GoneIsNowhere`, `main.rs:33` | A handler that joins a room after its socket left makes an entry of the adapter that nothing removes. |

## 5. What is proved

TLAPS checks these for every value of the constants, under the named
assumptions only (`ConstantsOK` in `Namespace`: `None` is no sid and no
attempt, a session's task is no worker; `ArgumentsOK` in `LocalAdapter`;
`SweepMinOK` in `AckMap`: the minimum of the sweep is positive; `ConstantsOK` in
`RemoteAck`: the servers are finitely many, the bounds are numbers; in `Client`:
no dynamic path is the root, and `None` is none of the values it stands beside;
in `RoomsChat`: the first room is a room, a store has a place at least, the bounds
are numbers; `ParametersOK` in `EngineSession`: the channel has a place at least,
and the packets of the protocol and `None` are no messages). What a theorem
assumes beyond them stands in its statement.

`NamespaceProofs`

- `Invariance`: `IInv == TypeOK /\ TasksOK /\ GuardExclusive /\ MapOK` is
  inductive. No part is inductive alone. That an insertion overwrites nothing
  needs that a guarded attempt finds no other socket under its sid (`MapOK`);
  that in turn needs that the guard excludes other attempts of the sid between
  its check and its insertion, however long the middleware takes
  (`GuardExclusive`), and that the socket found under a sid is of that session
  and past its middlewares. The proof has one lemma for each action.
- `TypeCorrect`, `GuardExcludes`, `MapAgrees` are its parts;
  `InsertionNeverReplaces` and `RefusalRemovesNobody` are the action properties
  that follow from it.
- `Refinement`: `Namespace` implements `Membership`. Every step is a step of
  one attempt or a stutter: a removal by sid turns the one member of that sid out.

The second half of the module strengthens `IInv` by `SInv`, whose conjuncts name
the task that is still going to do what is missing:

- `HandlerAtMostOnce`: a registered handler was registered once and has not run
  (`HandlerInv`); the `take` makes this true of any number of closes.
- `AnswerFirst`: between the answer and the flag the attempt stays announced.
- `NoLeak`: the socket of a session that is gone is stuck, or still in its
  `sending` stage (then the send fails, for the channel was closed before the
  report), or some task is going to remove it (`LeakInv`).
- `CloseRemoves`: a socket in the namespace is connected or stuck, or it has not
  been flagged yet, or the task that disconnected it is still going to remove it.
  A close by a middleware, or before the flag, is no exception: either the flag comes
  after it, and the socket is connected again, or the removal is still to come.
- `NoRoomLeft`: the same for rooms.

`LocalAdapterProofs`

- `Agreement` and `TypeCorrect`: `Inv == TypeOK /\ MapsAgree` is inductive.
- `Meant`: `Selected(o) = Matching(o)`. A socket that is in some listed room is
  in a first one (well-foundedness of the index), and that room yields it.
- `Refinement`: `LocalAdapter` implements `RoomRelation`; `del_all` needs
  `MapsAgree`, since it looks the rooms up in the other map.

`AckMapProofs`

- `Invariance`: `Inv == TypeOK /\ NumbersInv /\ NoneForgotten /\ AnswersInv /\
  SizeInv` is inductive. `WaitersKept` needs that numbers are unique, or an
  insertion would replace the sender of another caller.
- `AnswerWins`: an answer finds its sender in the table (`NoneForgotten`), so a
  caller the client answered has a value in its channel (`AnswersInv`).
- `Bounded` and `SweepCost`: `SizeInv` keeps `2 * Cardinality(table) <= 2 *
  since + sweepAt`, so when the table reaches its threshold half of it was
  inserted since the last sweep; and the threshold is at most twice the callers
  that waited at some time.

`EngineSessionProofs`

- `Invariance`: `IInv == Types /\ Ordered /\ Queue` is inductive. `Queue` is
  `LockOK` for a queue of tasks: two lemmas say what appending a task to such a
  queue and removing one from it do to its members and to its head, and each
  action that takes, awaits or gives back the lock uses one of them. A release
  hands the lock to whoever comes next; that this is no polling request is the
  part of `LockOK` which says that polls never wait. `Ordered` is needed because
  a second closer, or a second writer of one websocket, would enter the queue
  twice. `Types` has the variables these arguments need: the contents of the
  channel are not among them.
- `LockHeld` is the last part. `TypeCorrect` adds the types of the rest: the
  channel never has more packets than its capacity.
- `DeliveredInOrder`: `FifoInv == DataTypes /\ WriterAside /\ Fifo` is inductive
  with `IInv`. Few steps touch the packets (`RxStep`), and each of these is an
  equation between sequences: a payload takes a prefix and keeps the rest, a writer
  takes the channel past the peeked packet. The peeked packet is the only one that
  is overtaken, and it is in `aside`, because the writer has held the lock since it
  was put there (`WriterAside`, by `LockOK`). `Only` distributes over `\o`: this is
  induction over sequences, and it is proved without the library's induction
  theorem, which takes an operator: `NatSetInduction` gets induction over *sets* of
  numbers from the pigeonhole principle, and `SeqSetInduction` that over sets of
  sequences.
- `NotStarved`, for a client with one polling request at a time and one websocket:
  a request gets past the check of `upgrading` before the upgrade sets it
  or not at all, and if it did before, the `Noop` of the handshake waits for it
  in the channel until it answers (`NoopInv`). With two requests the first one
  may take that `Noop` while the second, checked before, takes the lock, and it
  waits until some packet comes, or the upgrade times out; with two websockets,
  the second one's `Noop` may be taken by a request of before the first one was
  done, and the next request gets past the check that the first one opened. TLC
  finds both in `EngLive` with a second request, or a second websocket: each
  assumption is needed.
- `AlwaysWatched`: for a session opened by polling, whose websockets come through
  `ws::new_req` (the entry for a stream drops the error of its handshake,
  and the heartbeat stays paused: `FindStreamUpgrade`).
- `Refinement`: `EngineSession` implements `EngineLife`. Only the first
  `close_session` and the closer move its stage, and the channel is closed in
  the step that leaves `closing`.

`ClientProofs`

- `Invariance`: `IInv == TypeOK /\ Placed /\ Numbered /\ Fresh /\ OneAlive /\
  NoSocketLeak` is inductive. An instance enters the map (`NsAdded`,
  `DynamicReady`) in place of any other, at any time after it was created; that
  it brings no socket of a session that is gone needs `Fresh`: until then nobody
  but the attempt that created it can connect to it, and that attempt waits. That
  in turn needs that a new instance gets a number nothing has (`Numbered`,
  `Placed`).
- `NoLeak` is the last conjunct. An answer makes a socket one that may not be
  left behind; it needs a session that takes packets, which is not gone.
- `Refinement`: each instance implements `Membership`, the owner of an attempt
  being its instance and its session. An attempt that finds no rival finds no
  owner tried or admitted; closing the socket of a session in an instance takes
  one member out at most, by `OneAlive`, whoever asked for it.

`RemoteAckProofs`

- `Invariance`: `IInv` joins `TypeOK` and `HandlerOwned` to what links the
  servers to the stream. `Asked`: a server sends responses only of a request it
  got, and a count only once; `ChannelFresh` and `ReadOnce`: no response is in the
  channel twice, or both in the channel and read (a server numbers its answers
  down, so what it has still to send was never sent); `Counters`: `ackCnt` and
  `servCnt` are the cardinalities of what they stand for; `Ending`: what the
  end of a stream without its timeout means. `Finite` is carried along because
  `AnswersOf(counted)` is a union over the servers: every sum of the counters is
  an equation of cardinalities, and these need that the sets are finite.
- `AnswersAccounted` is the part `Counters` for both kinds of requests.
- `EndIsComplete`: a stream that ends with `ackCnt = servCnt = 0` has counted
  `expected` servers, all of them servers that got the request; if no more than
  `expected` got it, it has counted all of them, and `Accounted` makes `got` as
  large as the set of their answers, of which it is a subset.
- `HandlerRemoved`, `TypeCorrect`: parts of `IInv`.

`RtcCallProofs`

- `Invariance`: `IInv` is `RoomInv /\ Waiting`. `RoomOfTwo` speaks of what a page
  was told; for the step that joins, `OneCreator` extends it to pages that are
  going to be told (`Created`: the notice is on its way, or the task has yet to
  emit it), and `Untold` says that a task that has not joined is neither in the
  room nor told anything, so that its join adds one socket. Unless `stale`, the
  count it acts on is the room's: a creator joins an empty room, the other one a
  room of one. `Waiting` (a page joins once) keeps a second join out.
- `AtMostTwo` follows from `OneCreator`.
- `CallInvariance`: in a calm room `CallInv` holds. `NoticeInv` and `Roles` give a
  page at most one of the two roles, and each role one page at most. The call of
  two such pages has nine steps, and at any time one thing carries it on: a
  task of the server, an event on its way, or a callback (`Moves(k)`, with a `k`
  for all pages); `Done(k)` says what each role has behind it. The server
  may reorder the events of a page, but never has two of these nine at
  once. Candidates are outside of this order; `Candidates` says what they need: the first page has its
  connection before the second page has a description to make candidates from.
- `NothingMissed` follows: what a handler uses was made in an earlier step. `Calm`
  is never true again once it is false, so the proof is an induction on the steps
  under the assumption that the last state is calm.
- `TypeCorrect`: every variable keeps its type.

`RoomsChatProofs`

- `KeptInvariance`: `Types /\ Homes /\ Stores /\ AllKept` is inductive. A message is
  in its own room wherever it is (`Homes`); the store of a room is the end of its
  log read backwards, cut off at `History` (`Stores`); and everything a page shows or
  will be sent, and what a handler has read or stored, is in the log
  (`AllKept`). `ShownIsKept` follows: a message with fewer than `History` after it
  in the log is within the part the store keeps.
- `ChatInvariance` adds `Deaf` and `Views`. `Deaf`: a connection that has registered
  no handler yet has no handler running and is in no room. `Views` is what is true
  of each connected page that is not mixed *before* it has settled. `WillShow(c, m)`
  says what the page will show when the events on its way to it have arrived: an answer
  replaces the view, a message adds to it. `OneRoom`: its joins, on their way
  or running, are of the room it names; its socket is in no other room once one of
  them has left those, in that room once all have joined, and in none if they all
  were dropped (`reached`). `CleanView`: once a
  join was answered only messages of this room will be shown. `Found`: a
  stored message of this room will be shown, or is or will be read by a join
  under way, or is still to be broadcast, or is in `raced` or `refused`. The hard
  steps are the answer of one of several joins (the last one to be emitted
  decides, and what it misses is in `raced`; if it is refused, all it read is in
  `refused`), and the broadcast to a page whose joins are done: its socket is in that
  room (`OneRoom`), so it is a receiver, or `refused` has the message.
- `ShowsItsRoom`, `NothingElseLost`: for a settled page nothing is on its way, so
  that `WillShow` is what it shows.
- `TypeCorrect`: every variable keeps its type. The handlers are a bag, as two of
  them may be alike; what the proofs need of bags are the lemmas on `(+)` and `(-)`
  at the beginning.

**Checked by TLC only**: all liveness properties (`Drained`, `AdminReturns`,
`ClosedIsNotified`, `UpgradeEnds`, `SilentIsClosed`, `ServedOrClosed`, `StreamEnds`,
`CallCompletes`), because fairness is out of the provers' reach; and all findings,
which are counterexamples. Every invariant and every refinement that a run
checks has a theorem: `UpgradeNotStarved` under the assumption its run also makes
(one request at a time), `Watched` under that of its run (no websocket given as a
stream).

## 6. Not modelled

Byte-level encoding (engine.io packets, payload, socket.io parsers), HTTP
dispatch, configuration and layers, extractors, test servers and the examples
without state: no property of this project depends on what they compute, or they
have no state. Of the remote adapters, requests that expect no response, a
request to one target server (`wait_responses` with a count of one), the redis
and postgres adapters' own subscriptions, and the drivers, which are I/O. The
databases and brokers behind them are outside of the repository: their losses are
actions of `RemoteAck`. Of the examples' pages, the layout. For the parts with
state that are still missing see the plan.

## 7. Plan

Done: `Namespace`, `Membership` and their proofs; `EngineSession`, `EngineLife`
and their proofs;
`LocalAdapter`, `RoomRelation` and their proofs; `AckMap` and its proofs;
`Client`, `RemoteAck`, `RtcCall` and `RoomsChat` with their proofs.

Left, in the order of importance:

1. `Broadcast`: composition of `LocalAdapter` and `Namespace`, for broadcasts
   and joins of selections while sockets connect and leave (a broadcast between
   the insertion and the CONNECT answer, a join after the departure).
2. A proof that the steps `Namespace` and `Client` take on the session's stage are
   those of `EngineLife`, so that the three modules compose.
3. `Payload`: what the encoders take, peek and leave for given limits, so that
   `EngineSession`'s nondeterministic prefix is shown to be what the encoder
   does; `PartialPacket`: binary packets with their attachments.
4. Volatile packets and `emit_many` in `EngineSession`; the v3 heartbeat; a
   heartbeat with time in `RemoteAck`.
