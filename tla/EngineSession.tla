--------------------------- MODULE EngineSession ---------------------------
(***************************************************************************)
(* One engine.io session: the tasks that read its outgoing packets (long   *)
(* polling requests, websocket writers), the upgrade from polling to       *)
(* websocket, the heartbeat and the closing of the session.                *)
(* (engineioxide: engine.rs, socket.rs, transport/polling.rs,              *)
(* transport/ws.rs)                                                        *)
(*                                                                         *)
(* Abstracted: the content and size of packets (how many fit in a payload  *)
(* is a nondeterministic choice), time (a timer fires at any moment after  *)
(* it was armed), incoming messages, volatile packets and the v3 protocol. *)
(* What the client does is nondeterministic.                               *)
(***************************************************************************)
EXTENDS Naturals, Sequences, SequencesExt

CONSTANTS
  Polls,       \* polling requests in flight at once
  Conns,       \* websocket connections made for this session, each used once
  MaxMsg,      \* messages the application emits (bounds the histories)
  Capacity,    \* max_buffer_size
  Transports,  \* how the session may be opened: "polling", "websocket"
  Entries,     \* how websockets arrive: "upgrade" (ws::new_req), "stream"
               \* (a stream given to the service, service/mod.rs)
  MayStall,    \* whether a peer may stop reading its websocket
  Ping, Noop, Close, None

ASSUME ParametersOK ==
  /\ MaxMsg \in Nat /\ Capacity \in Nat \ {0}
  /\ Transports \subseteq {"polling", "websocket"}
  /\ Entries \subseteq {"upgrade", "stream"}
  /\ MayStall \in BOOLEAN
  /\ {Ping, Noop, Close} \cap (1..MaxMsg) = {}
  /\ None \notin (1..MaxMsg) \cup {Ping, Noop, Close}

VARIABLES
  open,       \* the session is in EngineIo::sockets; its token is not cancelled
  transport,  \* Socket::transport
  upgrading,  \* Socket::upgrading
  chan,       \* the packets of the internal channel
  rxClosed,   \* buffered_rx.close() was called
  peeked,     \* InternalRx::peeked_packet
  lockq,      \* Socket::internal_rx: its holder, then those waiting in lock()
  poll,       \* poll[p]: where the polling request p stands
  ws,         \* ws[u]: where the task of websocket u stands (on_init)
  writer,     \* writer[u]: its forward_to_socket task
  stalled,    \* the websockets whose peer stopped reading
  heartbeat,  \* the heartbeat job
  pong,       \* the heartbeat channel, of capacity 1
  posting,    \* a POST request is being read
  closer,     \* the task close_session spawns
  reason,     \* the reason of the disconnection
  \* History, read by the properties only:
  sent,       \* the messages accepted by Socket::emit are 1..sent
  got,        \* the messages given to the client, in this order
  aside       \* the packets that were peeked when a writer started

vars == <<open, transport, upgrading, chan, rxClosed, peeked, lockq, poll, ws,
          writer, stalled, heartbeat, pong, posting, closer, reason, sent, got,
          aside>>

rxVars == <<chan, rxClosed, peeked, sent, got, aside>>
closeVars == <<open, closer, reason>>
hbVars == <<heartbeat, pong>>

Message == 1..MaxMsg
Packet == Message \cup {Ping, Noop, Close}

PollOf(p) == <<"poll", p>>
WsOf(u) == <<"ws", u>>
WriterOf(u) == <<"writer", u>>
Closer == <<"closer">>
Owner == {PollOf(p) : p \in Polls} \cup {WsOf(u) : u \in Conns}
           \cup {WriterOf(u) : u \in Conns} \cup {Closer}

PollStage == {"idle", "http", "checked", "parked"}
WsStage == {"none", "opening", "got", "noop", "sent", "waiting", "ready",
            "cleared", "upgraded", "failing", "reading", "done"}
WriterStage == {"none", "spawned", "waiting", "writing", "feeding", "done"}
HbStage == {"none", "start", "check", "send", "wait", "over"}
CloserStage == {"none", "spawned", "waiting", "closed", "gone"}
Reason == {None, "transport_close", "transport_error", "multiple_polling",
           "parsing", "heartbeat", "server"}

TypeOK ==
  /\ open \in BOOLEAN /\ upgrading \in BOOLEAN /\ rxClosed \in BOOLEAN
  /\ transport \in {"polling", "websocket"}
  /\ chan \in Seq(Packet) /\ Len(chan) <= Capacity
  /\ peeked \in Packet \cup {None}
  /\ lockq \in Seq(Owner)
  /\ poll \in [Polls -> PollStage]
  /\ ws \in [Conns -> WsStage]
  /\ writer \in [Conns -> WriterStage]
  /\ stalled \subseteq Conns
  /\ heartbeat \in HbStage /\ pong \in 0..1
  /\ posting \in BOOLEAN
  /\ closer \in CloserStage /\ reason \in Reason
  /\ sent \in 0..MaxMsg
  /\ got \in Seq(Message) /\ aside \subseteq Packet

\* open_req, or the first half of on_init for a websocket without a sid.
Init ==
  /\ open = TRUE
  /\ \/ /\ transport = "polling" /\ transport \in Transports
        /\ ws = [u \in Conns |-> "none"]
        /\ heartbeat = "start"
     \/ /\ transport = "websocket" /\ transport \in Transports
        /\ \E u \in Conns :
             ws = [v \in Conns |-> IF v = u THEN "opening" ELSE "none"]
        /\ heartbeat = "none"
  /\ upgrading = FALSE
  /\ chan = <<>> /\ rxClosed = FALSE /\ peeked = None
  /\ lockq = <<>>
  /\ poll = [p \in Polls |-> "idle"]
  /\ writer = [u \in Conns |-> "none"]
  /\ stalled = {}
  /\ pong = 0
  /\ posting = FALSE
  /\ closer = "none" /\ reason = None
  /\ sent = 0 /\ got = <<>> /\ aside = {}

-----------------------------------------------------------------------------
(* Helpers: the lock of internal_rx is fair, a release hands it over.       *)

Holds(o) == lockq # <<>> /\ Head(lockq) = o
TryLock(o) == lockq = <<>> /\ lockq' = <<o>>
Enqueue(o) == lockq' = Append(lockq, o)
\* The guard, or the future waiting for it, is dropped.
Unlock(o) ==
  \/ o \notin Range(lockq) /\ UNCHANGED lockq
  \/ \E i \in 1..Len(lockq) : lockq[i] = o /\ lockq' = RemoveAt(lockq, i)

Room == ~rxClosed /\ Len(chan) < Capacity

\* The elements of s that are in T, in their order (SelectSeq, in a form that
\* the proofs can unfold).
Only(s, T) ==
  LET taken[n \in 0..Len(s)] ==
        IF n = 0 THEN << >>
        ELSE IF s[n] \in T THEN Append(taken[n - 1], s[n]) ELSE taken[n - 1]
  IN  taken[Len(s)]

Messages(s) == Only(s, Message)
\* What a reader that looks at the peeked packet finds, in order.
Pending == (IF peeked = None THEN <<>> ELSE <<peeked>>) \o chan

\* Mutant: the session is not looked for in the map.
CloseSessionAgain(r) == open' = FALSE /\ closer' = "spawned" /\ reason' = r

\* EngineIo::close_session: removes the session, cancels its token and spawns
\* the closer.  (Whoever finds the session missing before the token is
\* cancelled does nothing the session can notice: one step.)
CloseSession(r) ==
  /\ open' = FALSE
  /\ closer' = IF open THEN "spawned" ELSE closer
  /\ reason' = IF open THEN r ELSE reason

\* Socket::close: a close packet if there is room, then close_session.
SocketClose(r) ==
  /\ chan' = IF Room THEN Append(chan, Close) ELSE chan
  /\ CloseSession(r)
  /\ UNCHANGED <<rxClosed, peeked, sent, got, aside>>

-----------------------------------------------------------------------------
(* The application                                                         *)

Emit ==
  /\ Room /\ sent < MaxMsg
  /\ chan' = Append(chan, sent + 1)
  /\ sent' = sent + 1
  /\ UNCHANGED <<closeVars, hbVars, transport, upgrading, rxClosed, peeked,
                 lockq, poll, ws, writer, stalled, posting, got, aside>>

ServerClose ==
  /\ open
  /\ SocketClose("server")
  /\ UNCHANGED <<hbVars, transport, upgrading, lockq, poll, ws, writer,
                 stalled, posting>>

-----------------------------------------------------------------------------
(* polling_req                                                             *)

PollTo(p, stage) == poll' = [poll EXCEPT ![p] = stage]

\* A GET request: the session is found and its transport is polling.
PollGet(p) ==
  /\ poll[p] = "idle"
  /\ open /\ transport = "polling"
  /\ PollTo(p, "http")
  /\ UNCHANGED <<rxVars, closeVars, hbVars, transport, upgrading, lockq, ws,
                 writer, stalled, posting>>

\* While upgrading the answer is a Noop.
PollCheck(p) ==
  /\ poll[p] = "http"
  /\ PollTo(p, IF upgrading THEN "idle" ELSE "checked")
  /\ UNCHANGED <<rxVars, closeVars, hbVars, transport, upgrading, lockq, ws,
                 writer, stalled, posting>>

PollLock(p) ==
  /\ poll[p] = "checked"
  /\ TryLock(PollOf(p))
  /\ PollTo(p, "parked")
  /\ UNCHANGED <<rxVars, closeVars, hbVars, transport, upgrading, ws, writer,
                 stalled, posting>>

\* try_lock fails: another task reads the channel.
PollMultiple(p) ==
  /\ poll[p] = "checked"
  /\ lockq # <<>>
  /\ SocketClose("multiple_polling")
  /\ PollTo(p, "idle")
  /\ UNCHANGED <<hbVars, transport, upgrading, lockq, ws, writer, stalled,
                 posting>>

\* Mutant: the packet that did not fit in the payload is dropped.
DropPeeked(p) ==
  /\ poll[p] = "parked" /\ Pending # <<>>
  /\ \E n \in 1..Len(Pending) :
       /\ got' = got \o Messages(SubSeq(Pending, 1, n))
       /\ peeked' = None
       /\ chan' = SubSeq(Pending, n + 2, Len(Pending))
  /\ Unlock(PollOf(p))
  /\ PollTo(p, "idle")
  /\ UNCHANGED <<closeVars, hbVars, transport, upgrading, rxClosed, ws, writer,
                 stalled, posting, sent, aside>>

\* The encoder takes the peeked packet, then packets of the channel as long as
\* they fit; the first that does not fit has left the channel: it is put back
\* as the peeked packet.
PollRespond(p) ==
  /\ poll[p] = "parked" /\ Pending # <<>>
  /\ \E n \in 1..Len(Pending) :
       /\ got' = got \o Messages(SubSeq(Pending, 1, n))
       /\ peeked' = IF n = Len(Pending) THEN None ELSE Pending[n + 1]
       /\ chan' = SubSeq(Pending, n + 2, Len(Pending))
  /\ Unlock(PollOf(p))
  /\ PollTo(p, "idle")
  /\ UNCHANGED <<closeVars, hbVars, transport, upgrading, rxClosed, ws, writer,
                 stalled, posting, sent, aside>>

\* Mutant: a waiting request does not see that the session is closed.
PollNotCancelled(p) ==
  /\ poll[p] = "parked" /\ Pending = <<>> /\ rxClosed
  /\ Unlock(PollOf(p))
  /\ PollTo(p, "idle")
  /\ UNCHANGED <<rxVars, closeVars, hbVars, transport, upgrading, ws, writer,
                 stalled, posting>>

\* The session is closed, no packet is left: an empty payload.
PollCancelled(p) ==
  /\ poll[p] = "parked" /\ Pending = <<>> /\ ~open
  /\ Unlock(PollOf(p))
  /\ PollTo(p, "idle")
  /\ UNCHANGED <<rxVars, closeVars, hbVars, transport, upgrading, ws, writer,
                 stalled, posting>>

\* The client drops its connection: the future of the request is dropped.
PollDropped(p) ==
  /\ poll[p] = "parked" /\ Pending = <<>>
  /\ Unlock(PollOf(p))
  /\ PollTo(p, "idle")
  /\ UNCHANGED <<rxVars, closeVars, hbVars, transport, upgrading, ws, writer,
                 stalled, posting>>

-----------------------------------------------------------------------------
(* post_req: a POST request, whose body may arrive long after its headers   *)

PostStart ==
  /\ ~posting /\ open /\ transport = "polling"
  /\ posting' = TRUE
  /\ UNCHANGED <<rxVars, closeVars, hbVars, transport, upgrading, lockq, poll,
                 ws, writer, stalled>>

\* try_send on a channel of capacity 1.
PongReceived == pong' = 1

PostPong ==
  /\ posting
  /\ PongReceived
  /\ UNCHANGED <<rxVars, closeVars, heartbeat, transport, upgrading, lockq,
                 poll, ws, writer, stalled, posting>>

\* A close packet: a waiting poll is answered with a Noop.
PostClose ==
  /\ posting
  /\ chan' = IF Room THEN Append(chan, Noop) ELSE chan
  /\ CloseSession("transport_close")
  /\ posting' = FALSE
  /\ UNCHANGED <<hbVars, transport, upgrading, rxClosed, peeked, lockq, poll,
                 ws, writer, stalled, sent, got, aside>>

PostMalformed ==
  /\ posting
  /\ CloseSession("parsing")
  /\ posting' = FALSE
  /\ UNCHANGED <<rxVars, hbVars, transport, upgrading, lockq, poll, ws, writer,
                 stalled>>

\* The end of the body, or a packet that is not allowed here.
PostEnd ==
  /\ posting
  /\ posting' = FALSE
  /\ UNCHANGED <<rxVars, closeVars, hbVars, transport, upgrading, lockq, poll,
                 ws, writer, stalled>>

-----------------------------------------------------------------------------
(* on_init: a websocket, and the upgrade_handshake                          *)

WsTo(u, stage) == ws' = [ws EXCEPT ![u] = stage]

\* A websocket with the sid of a session that is not a websocket yet.
WsGet(u) ==
  /\ ws[u] = "none"
  /\ open /\ transport = "polling"
  /\ WsTo(u, "got")
  /\ UNCHANGED <<rxVars, closeVars, hbVars, transport, upgrading, lockq, poll,
                 writer, stalled, posting>>

WsStart(u) ==
  /\ ws[u] = "got"
  /\ upgrading' = TRUE
  /\ WsTo(u, "noop")
  /\ UNCHANGED <<rxVars, closeVars, hbVars, transport, lockq, poll, writer,
                 stalled, posting>>

\* Mutant: the upgrade does not wake the polling request up.
WsNoNoop(u) ==
  /\ ws[u] = "noop"
  /\ WsTo(u, "sent")
  /\ UNCHANGED <<rxVars, closeVars, hbVars, transport, upgrading, lockq, poll,
                 writer, stalled, posting>>

\* send(Noop).await: waits for room in the channel.
WsNoop(u) ==
  /\ ws[u] = "noop"
  /\ Room
  /\ chan' = Append(chan, Noop)
  /\ WsTo(u, "sent")
  /\ UNCHANGED <<closeVars, hbVars, transport, upgrading, rxClosed, peeked,
                 lockq, poll, writer, stalled, posting, sent, got, aside>>

\* lock().await
WsLock(u) ==
  /\ ws[u] = "sent"
  /\ Enqueue(WsOf(u))
  /\ WsTo(u, "waiting")
  /\ UNCHANGED <<rxVars, closeVars, hbVars, transport, upgrading, poll, writer,
                 stalled, posting>>

\* With the lock held, the client's probe and its upgrade packet arrive.
WsHandshake(u) ==
  /\ ws[u] = "waiting" /\ Holds(WsOf(u))
  /\ WsTo(u, "ready")
  /\ UNCHANGED <<rxVars, closeVars, hbVars, transport, upgrading, lockq, poll,
                 writer, stalled, posting>>

\* upgrade_to_websocket: two stores.
WsClearUpgrading(u) ==
  /\ ws[u] = "ready"
  /\ upgrading' = FALSE
  /\ WsTo(u, "cleared")
  /\ UNCHANGED <<rxVars, closeVars, hbVars, transport, lockq, poll, writer,
                 stalled, posting>>

WsSetTransport(u) ==
  /\ ws[u] = "cleared"
  /\ transport' = "websocket"
  /\ WsTo(u, "upgraded")
  /\ UNCHANGED <<rxVars, closeVars, hbVars, upgrading, lockq, poll, writer,
                 stalled, posting>>

\* The handshake releases the lock; forward_to_socket is spawned.
WsSpawn(u) ==
  /\ ws[u] = "upgraded"
  /\ Unlock(WsOf(u))
  /\ WsTo(u, "reading")
  /\ writer' = [writer EXCEPT ![u] = "spawned"]
  /\ UNCHANGED <<rxVars, closeVars, hbVars, transport, upgrading, poll,
                 stalled, posting>>

\* Where the upgrade future can be dropped: at the send, the lock, the reads.
Interruptible(u) == ws[u] \in {"noop", "waiting"}

WsCancelled(u) ==
  /\ Interruptible(u) /\ ~open
  /\ Unlock(WsOf(u))
  /\ WsTo(u, "done")
  /\ UNCHANGED <<rxVars, closeVars, hbVars, transport, upgrading, poll, writer,
                 stalled, posting>>

\* Mutant: an upgrade that timed out leaves the session alone.
WsTimeoutKeeps(u) ==
  /\ Interruptible(u)
  /\ Unlock(WsOf(u))
  /\ WsTo(u, "done")
  /\ UNCHANGED <<rxVars, closeVars, hbVars, transport, upgrading, poll, writer,
                 stalled, posting>>

\* upgrade_timeout has elapsed.
WsTimeout(u) ==
  /\ Interruptible(u)
  /\ Unlock(WsOf(u))
  /\ CloseSession("transport_error")
  /\ WsTo(u, "done")
  /\ UNCHANGED <<rxVars, hbVars, transport, upgrading, poll, writer, stalled,
                 posting>>

\* Mutant: the guard of a failed handshake is not released.
WsFailLocked(u) ==
  /\ \/ ws[u] = "noop" /\ rxClosed
     \/ ws[u] = "waiting" /\ Holds(WsOf(u))
  /\ \/ "upgrade" \in Entries /\ WsTo(u, "failing")
     \/ "stream" \in Entries /\ WsTo(u, "done")
  /\ UNCHANGED <<rxVars, closeVars, hbVars, transport, upgrading, lockq, poll,
                 writer, stalled, posting>>

\* The channel is closed, or the client does not send what is expected.  Only
\* ws::new_req looks at the error.
WsFail(u) ==
  /\ \/ ws[u] = "noop" /\ rxClosed
     \/ ws[u] = "waiting" /\ Holds(WsOf(u))
  /\ Unlock(WsOf(u))
  /\ \/ "upgrade" \in Entries /\ WsTo(u, "failing")
     \/ "stream" \in Entries /\ WsTo(u, "done")
  /\ UNCHANGED <<rxVars, closeVars, hbVars, transport, upgrading, poll, writer,
                 stalled, posting>>

WsFailed(u) ==
  /\ ws[u] = "failing"
  /\ CloseSession("transport_error")
  /\ WsTo(u, "done")
  /\ UNCHANGED <<rxVars, hbVars, transport, upgrading, lockq, poll, writer,
                 stalled, posting>>

\* init_handshake of a session opened by websocket: the open packet is sent,
\* or the connection is already broken (close_session is not called).
WsOpened(u) ==
  /\ ws[u] = "opening"
  /\ WsTo(u, "reading")
  /\ heartbeat' = "start"
  /\ writer' = [writer EXCEPT ![u] = "spawned"]
  /\ UNCHANGED <<rxVars, closeVars, transport, upgrading, lockq, poll, stalled,
                 pong, posting>>

WsNotOpened(u) ==
  /\ ws[u] = "opening"
  /\ WsTo(u, "done")
  /\ UNCHANGED <<rxVars, closeVars, hbVars, transport, upgrading, lockq, poll,
                 writer, stalled, posting>>

-----------------------------------------------------------------------------
(* forward_to_handler and forward_to_socket                                 *)

ReadPong(u) ==
  /\ ws[u] = "reading"
  /\ PongReceived
  /\ UNCHANGED <<rxVars, closeVars, heartbeat, transport, upgrading, lockq,
                 poll, ws, writer, stalled, posting>>

\* The websocket is closed or broken, or a packet cannot be accepted.
ReadEnd(u) ==
  /\ ws[u] = "reading"
  /\ \E r \in {"transport_close", "transport_error", "parsing"} : CloseSession(r)
  /\ WsTo(u, "done")
  /\ UNCHANGED <<rxVars, hbVars, transport, upgrading, lockq, poll, writer,
                 stalled, posting>>

ReadCancelled(u) ==
  /\ ws[u] = "reading" /\ ~open
  /\ WsTo(u, "done")
  /\ UNCHANGED <<rxVars, closeVars, hbVars, transport, upgrading, lockq, poll,
                 writer, stalled, posting>>

WriterTo(u, stage) == writer' = [writer EXCEPT ![u] = stage]

WriterLock(u) ==
  /\ writer[u] = "spawned"
  /\ Enqueue(WriterOf(u))
  /\ WriterTo(u, "waiting")
  /\ UNCHANGED <<rxVars, closeVars, hbVars, transport, upgrading, poll, ws,
                 stalled, posting>>

WriterLocked(u) ==
  /\ writer[u] = "waiting" /\ Holds(WriterOf(u))
  /\ WriterTo(u, "writing")
  /\ aside' = aside \cup ({peeked} \ {None})
  /\ UNCHANGED <<closeVars, hbVars, transport, upgrading, chan, rxClosed, peeked,
                 lockq, poll, ws, stalled, posting, sent, got>>

\* The session was closed before the writer got the lock.
WriterCancelled(u) ==
  /\ writer[u] = "waiting" /\ ~Holds(WriterOf(u)) /\ ~open
  /\ Unlock(WriterOf(u))
  /\ WriterTo(u, "done")
  /\ UNCHANGED <<rxVars, closeVars, hbVars, transport, upgrading, poll, ws,
                 stalled, posting>>

WriterRecv(u) ==
  /\ writer[u] = "writing" /\ chan # <<>>
  /\ WriterTo(u, "feeding")
  /\ UNCHANGED <<rxVars, closeVars, hbVars, transport, upgrading, lockq, poll,
                 ws, stalled, posting>>

\* Everything in the channel is fed to the websocket and flushed; this does
\* not look at the token.  (The model keeps the packets in the channel until
\* then.)  The peeked packet is not looked at.
WriterFeed(u) ==
  /\ writer[u] = "feeding" /\ u \notin stalled
  /\ got' = got \o Messages(chan)
  /\ chan' = <<>>
  /\ WriterTo(u, "writing")
  /\ UNCHANGED <<closeVars, hbVars, transport, upgrading, rxClosed, peeked,
                 lockq, poll, ws, stalled, posting, sent, aside>>

\* The channel is drained and the session is closed.
WriterEnd(u) ==
  /\ writer[u] = "writing" /\ u \notin stalled
  /\ chan = <<>> /\ ~open
  /\ Unlock(WriterOf(u))
  /\ WriterTo(u, "done")
  /\ UNCHANGED <<rxVars, closeVars, hbVars, transport, upgrading, poll, ws,
                 stalled, posting>>

\* The peer keeps its connection but reads nothing more from it.
PeerStalls(u) ==
  /\ MayStall /\ u \notin stalled
  /\ writer[u] \in {"writing", "feeding"}
  /\ stalled' = stalled \cup {u}
  /\ UNCHANGED <<rxVars, closeVars, hbVars, transport, upgrading, lockq, poll,
                 ws, writer, posting>>

-----------------------------------------------------------------------------
(* heartbeat_job_v4                                                        *)

HbTo(stage) == heartbeat' = stage

\* The first tick; a pong that came first is consumed.
HbStart ==
  /\ heartbeat = "start"
  /\ HbTo("check")
  /\ pong' = 0
  /\ UNCHANGED <<rxVars, closeVars, transport, upgrading, lockq, poll, ws,
                 writer, stalled, posting>>

\* The job is paused while upgrading.
HbCheck ==
  /\ heartbeat = "check" /\ ~upgrading
  /\ HbTo("send")
  /\ UNCHANGED <<rxVars, closeVars, pong, transport, upgrading, lockq, poll,
                 ws, writer, stalled, posting>>

HbPing ==
  /\ heartbeat = "send" /\ Room
  /\ chan' = Append(chan, Ping)
  /\ HbTo("wait")
  /\ UNCHANGED <<closeVars, pong, transport, upgrading, rxClosed, peeked,
                 lockq, poll, ws, writer, stalled, posting, sent, got, aside>>

\* The ping cannot be sent.
HbFull ==
  /\ heartbeat = "send" /\ ~Room
  /\ SocketClose("heartbeat")
  /\ HbTo("over")
  /\ UNCHANGED <<pong, transport, upgrading, lockq, poll, ws, writer, stalled,
                 posting>>

\* A pong, then the next tick.
HbPong ==
  /\ heartbeat = "wait" /\ pong = 1
  /\ HbTo("check")
  /\ pong' = 0
  /\ UNCHANGED <<rxVars, closeVars, transport, upgrading, lockq, poll, ws,
                 writer, stalled, posting>>

\* Mutant: a missed pong is not reported.
HbTimeoutIgnored ==
  /\ heartbeat = "wait" /\ pong = 0
  /\ HbTo("over")
  /\ UNCHANGED <<rxVars, closeVars, pong, transport, upgrading, lockq, poll,
                 ws, writer, stalled, posting>>

\* ping_timeout has elapsed without a pong.
HbTimeout ==
  /\ heartbeat = "wait" /\ pong = 0
  /\ SocketClose("heartbeat")
  /\ HbTo("over")
  /\ UNCHANGED <<pong, transport, upgrading, lockq, poll, ws, writer, stalled,
                 posting>>

HbCancelled ==
  /\ heartbeat \notin {"none", "over"} /\ ~open
  /\ HbTo("over")
  /\ UNCHANGED <<rxVars, closeVars, pong, transport, upgrading, lockq, poll,
                 ws, writer, stalled, posting>>

-----------------------------------------------------------------------------
(* The task spawned by close_session                                        *)

CloserLock ==
  /\ closer = "spawned"
  /\ closer' = "waiting"
  /\ Enqueue(Closer)
  /\ UNCHANGED <<rxVars, hbVars, open, reason, transport, upgrading, poll, ws,
                 writer, stalled, posting>>

\* Mutant: the handler is notified while the channel still takes packets.
CloserNoClose ==
  /\ closer = "waiting" /\ Holds(Closer)
  /\ closer' = "closed"
  /\ Unlock(Closer)
  /\ UNCHANGED <<rxVars, hbVars, open, reason, transport, upgrading, poll, ws,
                 writer, stalled, posting>>

\* buffered_rx.close(); the guard is a temporary.
CloserClose ==
  /\ closer = "waiting" /\ Holds(Closer)
  /\ rxClosed' = TRUE
  /\ closer' = "closed"
  /\ Unlock(Closer)
  /\ UNCHANGED <<hbVars, open, reason, transport, upgrading, chan, peeked, poll,
                 ws, writer, stalled, posting, sent, got, aside>>

\* handler.on_disconnect(socket, reason)
Notify ==
  /\ closer = "closed"
  /\ closer' = "gone"
  /\ UNCHANGED <<rxVars, hbVars, open, reason, transport, upgrading, lockq,
                 poll, ws, writer, stalled, posting>>

-----------------------------------------------------------------------------
PollStep(p) ==
  PollCheck(p) \/ PollLock(p) \/ PollMultiple(p) \/ PollRespond(p)
    \/ PollCancelled(p)

WsStep(u) ==
  \/ WsStart(u) \/ WsNoop(u) \/ WsLock(u) \/ WsClearUpgrading(u)
  \/ WsSetTransport(u) \/ WsSpawn(u) \/ WsCancelled(u) \/ WsTimeout(u)
  \/ WsFailed(u) \/ ReadCancelled(u)

WriterStep(u) ==
  \/ WriterLock(u) \/ WriterLocked(u) \/ WriterCancelled(u)
  \/ WriterRecv(u) \/ WriterFeed(u) \/ WriterEnd(u)

HeartbeatStep ==
  \/ HbStart \/ HbCheck \/ HbPing \/ HbFull \/ HbPong \/ HbTimeout
  \/ HbCancelled

CloserStep == CloserLock \/ CloserClose \/ Notify

ClientStep ==
  \/ \E p \in Polls : PollGet(p) \/ PollDropped(p)
  \/ PostStart \/ PostPong \/ PostClose \/ PostMalformed \/ PostEnd
  \/ \E u \in Conns :
       \/ WsGet(u) \/ WsHandshake(u) \/ WsFail(u)
       \/ WsOpened(u) \/ WsNotOpened(u)
       \/ ReadPong(u) \/ ReadEnd(u) \/ PeerStalls(u)

Next ==
  \/ Emit \/ ServerClose \/ ClientStep \/ HeartbeatStep \/ CloserStep
  \/ \E p \in Polls : PollStep(p)
  \/ \E u \in Conns : WsStep(u) \/ WriterStep(u)

Spec == Init /\ [][Next]_vars

\* Tokio polls the tasks of the server until they complete and its timers
\* fire; nothing is assumed of the client.  The heartbeat job is dropped at its
\* first wait after the token was cancelled, it cannot go round once more.
FairSpec ==
  /\ Spec
  /\ \A p \in Polls : WF_vars(PollStep(p))
  /\ \A u \in Conns : WF_vars(WsStep(u)) /\ WF_vars(WriterStep(u))
  /\ WF_vars(HeartbeatStep) /\ WF_vars(HbCancelled)
  /\ WF_vars(CloserStep)

-----------------------------------------------------------------------------
(* Properties                                                              *)

\* Exactly the tasks whose stage says so hold or await the lock of
\* internal_rx, each once, and a task that reads the channel holds it: a guard
\* dropped in any way of ending a request or a handshake is released.
LockOK ==
  /\ \A i, j \in 1..Len(lockq) : lockq[i] = lockq[j] => i = j
  /\ \A p \in Polls :
       /\ poll[p] = "parked" <=> Holds(PollOf(p))
       /\ PollOf(p) \in Range(lockq) => Holds(PollOf(p))
  /\ \A u \in Conns :
       /\ WsOf(u) \in Range(lockq)
            <=> ws[u] \in {"waiting", "ready", "cleared", "upgraded"}
       /\ ws[u] \in {"ready", "cleared", "upgraded"} => Holds(WsOf(u))
       /\ WriterOf(u) \in Range(lockq)
            <=> writer[u] \in {"waiting", "writing", "feeding"}
       /\ writer[u] \in {"writing", "feeding"} => Holds(WriterOf(u))
  /\ Closer \in Range(lockq) <=> closer = "waiting"

\* The messages given to the client followed by the pending ones are the
\* emitted messages: none is lost or duplicated by payload limits, dropped
\* requests, upgrades and closing, and none is overtaken, but those that were
\* peeked when a websocket writer started.
Fifo ==
  LET messages == Messages(got \o Pending) IN
    /\ Len(messages) = sent
    /\ Only(messages, Message \ aside)
         = Only([m \in 1..sent |-> m], Message \ aside)

\* An upgrade that waits for the lock behind a polling request never waits for
\* a packet that may not come: that request has something to answer, so the
\* Noop of the handshake is not consumed by anyone else (ws.rs,
\* upgrade_handshake).  For a client with one polling request at a time and one
\* websocket.
UpgradeNotStarved ==
  \A u \in Conns, p \in Polls :
    ws[u] = "waiting" /\ Holds(PollOf(p)) => Pending # <<>>

\* An open session that was opened by polling is always watched: its heartbeat
\* job runs, and when the job is paused by an upgrade somebody is upgrading.
Watched ==
  open => /\ heartbeat \notin {"none", "over"}
          /\ upgrading => \E u \in Conns :
               ws[u] \in {"noop", "sent", "waiting", "ready", "failing"}

\* Refinement of EngineLife: closed once, and no packet is taken once the
\* disconnection is reported.
Stage ==
  CASE closer = "none" -> "open"
    [] closer \in {"spawned", "waiting"} -> "closing"
    [] OTHER -> closer

Life == INSTANCE EngineLife WITH engine <- Stage
RefinesLife == Life!Spec

\* Every session that is closed is reported to the handler: polling requests,
\* handshakes and writers give the lock back (engine.rs, close_session).
ClosedIsNotified == ~open ~> closer = "gone"

\* An upgrade succeeds or the session is closed.
UpgradeEnds == upgrading ~> ~upgrading \/ ~open

\* A client that stops answering pings is disconnected, whatever it does
\* otherwise, upgrades included.
SilentIsClosed == (<>[](pong = 0)) => <>~open

-----------------------------------------------------------------------------
(* What the documentation says and the code does not do                     *)

\* "Prepend the packet peeked during the previous polling request so it is
\* encoded first, ahead of the newly received packets" (polling.rs): no message
\* is skipped.
NoGap == \A i \in 1..Len(got) : got[i] = i

\* "The client sent multiple polling requests at the same time" (socket.rs,
\* MultipleHttpPollingError).
MultiplePollingReason ==
  [][reason' # reason /\ reason' = "multiple_polling"
       => \E p, q \in Polls : p # q /\ poll[p] # "idle" /\ poll[q] # "idle"]_vars

\* "Whether the socket is currently upgrading to a new transport" (socket.rs).
UpgradingIsTrue ==
  upgrading /\ open =>
    \E u \in Conns : ws[u] \in {"noop", "sent", "waiting", "ready", "failing"}

\* "Called when a socket is disconnected" (handler.rs, on_disconnect): a
\* session does not stay open when its websocket has ended.
EndedIsDisconnected ==
  open /\ transport = "websocket" => \E u \in Conns : ws[u] \notin {"none", "done"}

\* "Cancellation-aware transports [...] will release the `internal_rx` lock as
\* soon as they observe the cancellation" (engine.rs, close_session).
CancelledReleases ==
  \A u \in Conns :
    ~open /\ writer[u] \in {"writing", "feeding"} ~> writer[u] = "done"
=============================================================================
