------------------------------ MODULE Namespace ------------------------------
(***************************************************************************)
(* One socketioxide namespace: how its sockets connect, are disconnected   *)
(* and are removed, by tasks that interleave at every lock they release    *)
(* (ns.rs, client.rs, socket.rs, handler/disconnect.rs).                   *)
(*                                                                         *)
(* A "connect attempt" c is one CONNECT packet that reached the namespace; *)
(* when the attempt gets past the connecting guard it creates one Socket   *)
(* object, which is also called c.  Two sockets of the same client have    *)
(* the same sid (the id of the engine.io session) but are different        *)
(* objects: ns.sockets finds them by sid, a SocketRef holds the object.    *)
(*                                                                         *)
(* Abstracted: packet contents; the adapter is reduced to whether a sid    *)
(* has rooms (what Socket::rooms reads and del_all cleans; the close of    *)
(* the in-memory adapter does nothing); the engine.io session to the       *)
(* stages of close_session.  A packet that does not fit in the internal    *)
(* channel (InternalChannelFull) is a nondeterministic choice.             *)
(***************************************************************************)
EXTENDS Naturals, FiniteSets

CONSTANTS
  Sids,       \* engine.io session ids
  Conns,      \* connect attempts, each used once (bounds the reconnections)
  Workers,    \* tasks closing sockets on behalf of packets and user code
  None,       \* no sid, no socket
  AdminOps    \* subset of {"delete_ns", "close"}: what the server may do

ASSUME ConstantsOK ==
  /\ None \notin Sids
  /\ None \notin Conns
  /\ Sids \cap Workers = {}
  /\ AdminOps \subseteq {"delete_ns", "close"}

VARIABLES
  sid,        \* sid[c]: the session attempt c belongs to
  conn,       \* conn[c]: where the task running Namespace::connect stands
  connecting, \* Namespace::connecting
  sockets,    \* Namespace::sockets, None when the sid has no entry
  rooms,      \* the sids with rooms in the socket map of the local adapter
  connected,  \* the sockets whose `connected` flag is set
  handler,    \* the sockets whose `disconnect_handler` is Some
  task,       \* task[t]: the Socket::close call t is running, if any
  engine,     \* engine[s]: the engine.io session s
  registered, \* the namespace is in Client::nsps
  admin,      \* progress of Client::delete_ns or Client::close
  toClose,    \* the sockets that operation has taken from the namespace
  \* History, read by the properties only:
  announced,  \* sockets whose CONNECT answer was sent
  called,     \* called[c]: invocations of the disconnect handler of c
  reg,        \* how c registered its handler: not at all, while connected...
  stuck,      \* sockets whose disconnect handler failed to extract
  late        \* rooms joined by a socket that is not in the namespace

socketVars == <<connected, handler>>
adminVars == <<registered, admin, toClose>>
history == <<announced, called, reg, stuck, late>>
vars == <<sid, conn, connecting, sockets, rooms, connected, handler, task,
          engine, registered, admin, toClose, announced, called, reg,
          stuck, late>>

\* Besides the workers, the task close_session spawns for each session, and
\* the part of delete_ns that closes the socket of each session.
NsTask(s) == <<"delete_ns", s>>
Tasks == Workers \cup Sids \cup {NsTask(s) : s \in Sids}

ConnStage == {"none", "spawned", "ignored", "middleware", "rejected",
              "refusing", "sending", "unsent", "aborting", "flagging",
              "accepted", "joined", "dropping", "failed"}
TaskStage == {"idle", "flag", "take", "handler", "remove", "leave"}
\* "blocked": the closing task waits for a lock that it never gets.
EngineStage == {"open", "closing", "blocked", "closed", "gone"}
AdminStage == {"idle", "removed", "closing", "emptied",
               "taken", "draining", "drained"}

Idle == [pc |-> "idle", sock |-> None]

TypeOK ==
  /\ sid \in [Conns -> Sids \cup {None}]
  /\ conn \in [Conns -> ConnStage]
  /\ connecting \subseteq Sids
  /\ sockets \in [Sids -> Conns \cup {None}]
  /\ rooms \subseteq Sids
  /\ connected \subseteq Conns
  /\ handler \subseteq Conns
  /\ task \in [Tasks -> [pc : TaskStage, sock : Conns \cup {None}]]
  /\ engine \in [Sids -> EngineStage]
  /\ registered \in BOOLEAN
  /\ admin \in AdminStage
  /\ toClose \subseteq Conns
  /\ announced \subseteq Conns
  /\ called \in [Conns -> 0..2]
  /\ reg \in [Conns -> {"no", "early", "promised"}]
  /\ stuck \subseteq Conns
  /\ late \subseteq Sids

Init ==
  /\ sid = [c \in Conns |-> None]
  /\ conn = [c \in Conns |-> "none"]
  /\ connecting = {}
  /\ sockets = [s \in Sids |-> None]
  /\ rooms = {}
  /\ connected = {}
  /\ handler = {}
  /\ task = [t \in Tasks |-> Idle]
  /\ engine = [s \in Sids |-> "open"]
  /\ registered = TRUE
  /\ admin = "idle"
  /\ toClose = {}
  /\ announced = {}
  /\ called = [c \in Conns |-> 0]
  /\ reg = [c \in Conns |-> "no"]
  /\ stuck = {}
  /\ late = {}

-----------------------------------------------------------------------------
(* Helpers                                                                 *)

Goto(c, stage) == conn' = [conn EXCEPT ![c] = stage]

\* EngineIo::close_session: only the first call finds the session.
EsocketClose(s) ==
  engine' = [engine EXCEPT ![s] = IF @ = "open" THEN "closing" ELSE @]

\* The channel of the session no longer takes packets.
Unreachable(s) == engine[s] \in {"closed", "gone"}

\* delete_ns keeps the write lock of Client::nsps while it closes the sockets.
NspsLocked == admin \in {"removed", "closing"}

\* The connect and event handlers of the socket may run.
Handled(c) == conn[c] \in {"accepted", "joined"}

\* User code that holds a reference to the socket: the middlewares, then its
\* handlers, and whoever finds it in the namespace from its insertion on.  It is
\* assumed not to keep the reference of a socket that was refused.
HasRef(c) == conn[c] \in {"middleware", "sending", "flagging", "accepted", "joined"}

\* Task t enters Socket::close on socket c.
BeginClose(t, c) ==
  /\ task[t] = Idle
  /\ task' = [task EXCEPT ![t] = [pc |-> "flag", sock |-> c]]

-----------------------------------------------------------------------------
(* Namespace::connect                                                      *)

\* A CONNECT packet: sock_connect finds the namespace and spawns the task.
\* (When it is not in nsps the client is told so and nothing changes here.)
\* A POST request being read outlives its session: no guard on engine[s].
RecvConnect(c, s) ==
  /\ conn[c] = "none"
  /\ registered /\ ~NspsLocked
  /\ sid' = [sid EXCEPT ![c] = s]
  /\ Goto(c, "spawned")
  /\ UNCHANGED <<connecting, sockets, rooms, socketVars, task, engine,
                 adminVars, history>>

\* Mutants: the guard forgets one of the two sets it looks at.
GuardIgnoresConnecting(s) == sockets[s] # None
GuardIgnoresSockets(s) == s \in connecting

\* ConnectingGuard::new under the lock of `connecting`.
AlreadyPresent(s) == sockets[s] # None \/ s \in connecting

EnterGuard(c) ==
  /\ conn[c] = "spawned"
  /\ ~AlreadyPresent(sid[c])
  /\ connecting' = connecting \cup {sid[c]}
  /\ Goto(c, "middleware")
  /\ UNCHANGED <<sid, sockets, rooms, socketVars, task, engine, adminVars,
                 history>>

Ignore(c) ==
  /\ conn[c] = "spawned"
  /\ AlreadyPresent(sid[c])
  /\ Goto(c, "ignored")
  /\ UNCHANGED <<sid, connecting, sockets, rooms, socketVars, task, engine,
                 adminVars, history>>

\* The middlewares refuse the socket: first half of remove_socket.
MiddlewareErr(c) ==
  /\ conn[c] = "middleware"
  /\ sockets' = [sockets EXCEPT ![sid[c]] = None]
  /\ Goto(c, "rejected")
  /\ UNCHANGED <<sid, connecting, rooms, socketVars, task, engine, adminVars,
                 history>>

\* Mutant: the socket is flagged connected before the answer is sent.
ConnectedTooEarly(c) ==
  /\ conn[c] = "middleware"
  /\ sockets' = [sockets EXCEPT ![sid[c]] = c]
  /\ connected' = connected \cup {c}
  /\ Goto(c, "sending")
  /\ UNCHANGED <<sid, connecting, rooms, handler, task, engine, adminVars,
                 history>>

\* The middlewares accept the socket: it enters the namespace.
MiddlewareOk(c) ==
  /\ conn[c] = "middleware"
  /\ sockets' = [sockets EXCEPT ![sid[c]] = c]
  /\ Goto(c, "sending")
  /\ UNCHANGED <<sid, connecting, rooms, socketVars, task, engine, adminVars,
                 history>>

\* Second half of remove_socket: the adapter forgets the sid.
DelAll(s) ==
  /\ rooms' = rooms \ {s}
  /\ late' = late \ {s}

\* Mutant: the rooms joined in the middlewares are left in the adapter.
KeepRoomsOfRefused(c) ==
  /\ \/ conn[c] = "rejected" /\ Goto(c, "refusing")
     \/ conn[c] = "unsent" /\ Goto(c, "aborting")
  /\ UNCHANGED <<sid, connecting, sockets, rooms, socketVars, task, engine,
                 adminVars, history>>

ConnectDelAll(c) ==
  /\ \/ conn[c] = "rejected" /\ Goto(c, "refusing")
     \/ conn[c] = "unsent" /\ Goto(c, "aborting")
  /\ DelAll(sid[c])
  /\ UNCHANGED <<sid, connecting, sockets, socketVars, task, engine, adminVars,
                 announced, called, reg, stuck>>

\* connect_error is sent; when that fails the session is closed.
Refuse(c) ==
  /\ conn[c] = "refusing"
  /\ \/ ~Unreachable(sid[c]) /\ UNCHANGED engine
     \/ EsocketClose(sid[c])
  /\ Goto(c, "dropping")
  /\ UNCHANGED <<sid, connecting, sockets, rooms, socketVars, task, adminVars,
                 history>>

SendConnect(c) ==
  /\ conn[c] = "sending"
  /\ ~Unreachable(sid[c])
  /\ announced' = announced \cup {c}
  /\ Goto(c, "flagging")
  /\ UNCHANGED <<sid, connecting, sockets, rooms, socketVars, task, engine,
                 adminVars, called, reg, stuck, late>>

\* Mutant: the socket stays in the namespace when its answer is not sent.
KeepUnsent(c) ==
  /\ conn[c] = "sending"
  /\ Goto(c, "unsent")
  /\ UNCHANGED <<sid, connecting, sockets, rooms, socketVars, task, engine,
                 adminVars, history>>

\* The CONNECT packet cannot be sent (channel closed, or full): the socket
\* leaves the namespace by sid and the session is closed.
SendConnectErr(c) ==
  /\ conn[c] = "sending"
  /\ sockets' = [sockets EXCEPT ![sid[c]] = None]
  /\ Goto(c, "unsent")
  /\ UNCHANGED <<sid, connecting, rooms, socketVars, task, engine, adminVars,
                 history>>

Abort(c) ==
  /\ conn[c] = "aborting"
  /\ EsocketClose(sid[c])
  /\ Goto(c, "dropping")
  /\ UNCHANGED <<sid, connecting, sockets, rooms, socketVars, task, adminVars,
                 history>>

\* set_connected(true), and the connect handler is spawned: its code runs in
\* the actions of "user code" below, at any later time (or never, when the
\* extraction of its arguments fails).
Accept(c) ==
  /\ conn[c] = "flagging"
  /\ connected' = connected \cup {c}
  /\ Goto(c, "accepted")
  /\ UNCHANGED <<sid, connecting, sockets, rooms, handler, task, engine,
                 adminVars, history>>

\* The guard is dropped when connect returns.
DropGuard(c) ==
  /\ \/ conn[c] = "accepted" /\ Goto(c, "joined")
     \/ conn[c] = "dropping" /\ Goto(c, "failed")
  /\ connecting' = connecting \ {sid[c]}
  /\ UNCHANGED <<sid, sockets, rooms, socketVars, task, engine, adminVars,
                 history>>

-----------------------------------------------------------------------------
(* Socket::close, one call per task                                        *)

ClearConnected(t) ==
  /\ task[t].pc = "flag"
  /\ connected' = connected \ {task[t].sock}
  /\ task' = [task EXCEPT ![t].pc = "take"]
  /\ UNCHANGED <<sid, conn, connecting, sockets, rooms, handler, engine,
                 adminVars, history>>

\* Mutant: the handler is cloned instead of taken.
CloneHandler(t) ==
  /\ task[t].pc = "take"
  /\ task[t].sock \in handler
  /\ called' = [called EXCEPT ![task[t].sock] = IF @ < 2 THEN @ + 1 ELSE @]
  /\ task' = [task EXCEPT ![t].pc = "handler"]
  /\ UNCHANGED <<sid, conn, connecting, sockets, rooms, connected, handler,
                 engine, adminVars, announced, reg, stuck, late>>

\* disconnect_handler.take(): only one close call gets the handler, which is
\* spawned; the socket stays in the namespace until it has finished.
TakeHandler(t) ==
  /\ task[t].pc = "take"
  /\ task[t].sock \in handler
  /\ handler' = handler \ {task[t].sock}
  /\ called' = [called EXCEPT ![task[t].sock] = IF @ < 2 THEN @ + 1 ELSE @]
  /\ task' = [task EXCEPT ![t].pc = "handler"]
  /\ UNCHANGED <<sid, conn, connecting, sockets, rooms, connected, engine,
                 adminVars, announced, reg, stuck, late>>

\* An argument of the handler cannot be extracted: call_with_defer returns
\* without running the handler and without the deferred removal.
ExtractErr(t) ==
  /\ task[t].pc = "take"
  /\ task[t].sock \in handler
  /\ handler' = handler \ {task[t].sock}
  /\ stuck' = stuck \cup {task[t].sock}
  /\ task' = [task EXCEPT ![t] = Idle]
  /\ UNCHANGED <<sid, conn, connecting, sockets, rooms, connected, engine,
                 adminVars, announced, called, reg, late>>

\* Mutant: without a handler nobody removes the socket.
NoHandlerNoRemoval(t) ==
  /\ task[t].pc = "take"
  /\ task[t].sock \notin handler
  /\ task' = [task EXCEPT ![t] = Idle]
  /\ UNCHANGED <<sid, conn, connecting, sockets, rooms, socketVars, engine,
                 adminVars, history>>

NoHandler(t) ==
  /\ task[t].pc = "take"
  /\ task[t].sock \notin handler
  /\ task' = [task EXCEPT ![t].pc = "remove"]
  /\ UNCHANGED <<sid, conn, connecting, sockets, rooms, socketVars, engine,
                 adminVars, history>>

\* Mutant: the deferred removal is not run.
HandlerWithoutDefer(t) ==
  /\ task[t].pc = "handler"
  /\ task' = [task EXCEPT ![t] = Idle]
  /\ UNCHANGED <<sid, conn, connecting, sockets, rooms, socketVars, engine,
                 adminVars, history>>

\* The future of the disconnect handler completes: defer(s).
HandlerDone(t) ==
  /\ task[t].pc = "handler"
  /\ task' = [task EXCEPT ![t].pc = "remove"]
  /\ UNCHANGED <<sid, conn, connecting, sockets, rooms, socketVars, engine,
                 adminVars, history>>

\* remove_socket removes whatever socket the sid has now.
RemoveSocket(t) ==
  /\ task[t].pc = "remove"
  /\ sockets' = [sockets EXCEPT ![sid[task[t].sock]] = None]
  /\ task' = [task EXCEPT ![t].pc = "leave"]
  /\ UNCHANGED <<sid, conn, connecting, rooms, socketVars, engine, adminVars,
                 history>>

LeaveRooms(t) ==
  /\ task[t].pc = "leave"
  /\ DelAll(sid[task[t].sock])
  /\ task' = [task EXCEPT ![t] = Idle]
  /\ UNCHANGED <<sid, conn, connecting, sockets, socketVars, engine, adminVars,
                 announced, called, reg, stuck>>

-----------------------------------------------------------------------------
(* What starts Socket::close, and the engine.io session                    *)

\* A DISCONNECT packet (sock_propagate_packet, Namespace::recv, Socket::recv):
\* with no socket for the sid (SocketGone) the whole session is closed.
RecvDisconnect(s, t) ==
  /\ registered /\ ~NspsLocked
  /\ \/ /\ sockets[s] # None
        /\ BeginClose(t, sockets[s])
        /\ UNCHANGED engine
     \/ /\ sockets[s] = None
        /\ EsocketClose(s)
        /\ UNCHANGED task
  /\ UNCHANGED <<sid, conn, connecting, sockets, rooms, socketVars, adminVars,
                 history>>

\* Socket::disconnect by a middleware, by a connect or event handler, or of a
\* socket that disconnect_many found in the namespace.  A middleware closes a
\* socket that is not there yet.  (When the DISCONNECT packet finds the channel
\* full the call has no effect.)
Disconnect(c, t) ==
  /\ HasRef(c)
  /\ BeginClose(t, c)
  /\ UNCHANGED <<sid, conn, connecting, sockets, rooms, socketVars, engine,
                 adminVars, history>>

\* The client leaves, a heartbeat is missed, a packet cannot be parsed...
CloseSession(s) ==
  /\ engine[s] = "open"
  /\ EsocketClose(s)
  /\ UNCHANGED <<sid, conn, connecting, sockets, rooms, socketVars, task,
                 adminVars, history>>

\* The task close_session spawned closes the internal channel...
CloseChannel(s) ==
  /\ engine[s] = "closing"
  /\ engine' = [engine EXCEPT ![s] = "closed"]
  /\ UNCHANGED <<sid, conn, connecting, sockets, rooms, socketVars, task,
                 adminVars, history>>

\* ...for which it needs the lock of the receiver: a task that writes to a peer
\* that does not read may hold it for ever.
Stall(s) ==
  /\ engine[s] = "closing"
  /\ engine' = [engine EXCEPT ![s] = "blocked"]
  /\ UNCHANGED <<sid, conn, connecting, sockets, rooms, socketVars, task,
                 adminVars, history>>

\* ...and only then calls on_disconnect, which closes the socket it finds in
\* the namespaces of Client::nsps.
OnDisconnect(s) ==
  /\ engine[s] = "closed"
  /\ ~NspsLocked
  /\ engine' = [engine EXCEPT ![s] = "gone"]
  /\ IF registered /\ sockets[s] # None
       THEN BeginClose(s, sockets[s])
       ELSE UNCHANGED task
  /\ UNCHANGED <<sid, conn, connecting, sockets, rooms, socketVars, adminVars,
                 history>>

-----------------------------------------------------------------------------
(* User code of the middlewares and of the connect handler                 *)

Join(c) ==
  /\ HasRef(c)
  /\ rooms' = rooms \cup {sid[c]}
  /\ late' = IF sockets[sid[c]] = c \/ conn[c] = "middleware"
               THEN late ELSE late \cup {sid[c]}
  /\ UNCHANGED <<sid, conn, connecting, sockets, socketVars, task, engine,
                 adminVars, announced, called, reg, stuck>>

\* Socket::on_disconnect, once per socket.
OnDisconnectHandler(c) ==
  /\ HasRef(c)
  /\ reg[c] = "no"
  /\ handler' = handler \cup {c}
  /\ reg' = [reg EXCEPT ![c] = IF c \in connected THEN "promised" ELSE "early"]
  /\ UNCHANGED <<sid, conn, connecting, sockets, rooms, connected, task,
                 engine, adminVars, announced, called, stuck, late>>

-----------------------------------------------------------------------------
(* Client::delete_ns and Client::close                                     *)

Present == {sockets[s] : s \in Sids} \ {None}

DeleteNs ==
  /\ "delete_ns" \in AdminOps
  /\ registered
  /\ registered' = FALSE
  /\ admin' = "removed"
  /\ UNCHANGED <<sid, conn, connecting, sockets, rooms, socketVars, task,
                 engine, toClose, history>>

\* Client::close takes the whole map: nsps is empty from then on.
CloseServer ==
  /\ "close" \in AdminOps
  /\ registered
  /\ registered' = FALSE
  /\ admin' = "taken"
  /\ UNCHANGED <<sid, conn, connecting, sockets, rooms, socketVars, task,
                 engine, toClose, history>>

\* Namespace::close works on a clone of the socket map.
Snapshot ==
  /\ \/ admin = "removed" /\ admin' = "closing"
     \/ admin = "taken" /\ admin' = "draining"
  /\ toClose' = Present
  /\ UNCHANGED <<sid, conn, connecting, sockets, rooms, socketVars, task,
                 engine, registered, history>>

NsCloseSocket(c) ==
  /\ admin = "closing"
  /\ c \in toClose
  /\ BeginClose(NsTask(sid[c]), c)
  /\ toClose' = toClose \ {c}
  /\ UNCHANGED <<sid, conn, connecting, sockets, rooms, socketVars, engine,
                 registered, admin, history>>

\* Mutant: the server waits for sessions that it does not close.
NsWaitTransport(c) ==
  /\ admin = "draining"
  /\ c \in toClose
  /\ UNCHANGED vars

\* Socket::close_underlying_transport
NsCloseTransport(c) ==
  /\ admin = "draining"
  /\ c \in toClose
  /\ engine[sid[c]] = "open"
  /\ EsocketClose(sid[c])
  /\ UNCHANGED <<sid, conn, connecting, sockets, rooms, socketVars, task,
                 adminVars, history>>

NsCloseEnd ==
  /\ \/ admin = "closing" /\ toClose = {} /\ admin' = "emptied"
     \/ /\ admin = "draining"
        /\ \A c \in toClose : Unreachable(sid[c])
        /\ admin' = "drained"
  /\ UNCHANGED <<sid, conn, connecting, sockets, rooms, socketVars, task,
                 engine, registered, toClose, history>>

-----------------------------------------------------------------------------
ConnectStep(c) ==
  \/ EnterGuard(c) \/ Ignore(c)
  \/ MiddlewareErr(c) \/ MiddlewareOk(c)
  \/ ConnectDelAll(c) \/ Refuse(c)
  \/ SendConnect(c) \/ SendConnectErr(c) \/ Abort(c)
  \/ Accept(c) \/ DropGuard(c)

CloseStep(t) ==
  \/ ClearConnected(t) \/ TakeHandler(t) \/ ExtractErr(t) \/ NoHandler(t)
  \/ HandlerDone(t) \/ RemoveSocket(t) \/ LeaveRooms(t)

EngineStep(s) == CloseChannel(s) \/ OnDisconnect(s)

AdminStep ==
  \/ Snapshot \/ NsCloseEnd
  \/ \E c \in Conns : NsCloseSocket(c) \/ NsCloseTransport(c)

Next ==
  \/ \E c \in Conns, s \in Sids : RecvConnect(c, s)
  \/ \E c \in Conns : ConnectStep(c)
  \/ \E t \in Tasks : CloseStep(t)
  \/ \E s \in Sids : CloseSession(s) \/ Stall(s) \/ EngineStep(s)
  \/ \E s \in Sids, t \in Workers : RecvDisconnect(s, t)
  \/ \E c \in Conns, t \in Workers : Disconnect(c, t)
  \/ \E c \in Conns : Join(c) \/ OnDisconnectHandler(c)
  \/ DeleteNs \/ CloseServer \/ AdminStep

Spec == Init /\ [][Next]_vars

\* Tokio polls every spawned task until it completes, and the code of the
\* middlewares and of the disconnect handlers is documented to terminate.  That
\* the closing task gets its lock is not assumed: Stall may come first.
FairSpec ==
  /\ Spec
  /\ \A c \in Conns : WF_vars(ConnectStep(c))
  /\ \A t \in Tasks : WF_vars(CloseStep(t))
  /\ \A s \in Sids : WF_vars(EngineStep(s))
  /\ WF_vars(AdminStep)

-----------------------------------------------------------------------------
(* Properties                                                              *)

\* The stages in which the guard of an attempt is alive.
Guarded == {"middleware", "rejected", "refusing", "sending", "unsent",
            "aborting", "flagging", "accepted", "dropping"}

\* No task is working for session s in this namespace.
Quiet(s) ==
  /\ \A c \in Conns : sid[c] = s => conn[c] \notin Guarded \cup {"spawned"}
  /\ \A t \in Tasks : task[t] # Idle => sid[task[t].sock] # s

\* The connecting set is exactly the sids of the attempts between the guard
\* and its drop, and no two of these attempts are for the same sid: the
\* middlewares of one client never run twice at once (ns.rs, connect).
GuardExclusive ==
  /\ connecting = {sid[c] : c \in {d \in Conns : conn[d] \in Guarded}}
  /\ \A c, d \in Conns :
       conn[c] \in Guarded /\ conn[d] \in Guarded /\ sid[c] = sid[d] => c = d

\* "[a duplicate] would ... replace (or remove ...) the socket with the same
\* id" (ns.rs): inserting a socket never overwrites another one.
NeverReplaced ==
  [][\A s \in Sids :
       sockets[s] # None => sockets'[s] \in {sockets[s], None}]_vars

\* A refused attempt does not remove the socket that another attempt of the
\* same sid put in the namespace (ns.rs, the remove_socket calls of connect).
RefusedRemovesNobody ==
  [][\A c \in Conns :
       conn[c] = "middleware" /\ conn'[c] = "rejected" => UNCHANGED sockets]_vars

\* When the session is gone and every task has finished, the namespace has no
\* socket for it, whatever the order of insert, send, channel close and
\* on_disconnect was.  Except when the handler's extraction failed.
NoSocketLeak ==
  \A s \in Sids :
    engine[s] = "gone" /\ Quiet(s) /\ registered
      => sockets[s] \in stuck \cup {None}

\* A sid with no socket in the namespace and no task at work has no room left,
\* unless a socket that was already out of the namespace joined it: the rooms
\* joined in a middleware disappear with a refused or failed connection.
NoRoomLeak ==
  \A s \in Sids :
    s \in rooms /\ sockets[s] = None /\ Quiet(s) => s \in late

\* However many causes close a socket at once, its disconnect handler runs at
\* most once (socket.rs, take() in close).
HandlerOnce == \A c \in Conns : called[c] <= 1

\* A socket says it is connected only after the client was sent its CONNECT
\* answer: nothing emitted on it can precede that answer (socket.rs, emit).
ConnectedAfterAnswer == connected \subseteq announced

\* Whoever closes a socket, and whenever, a socket that Socket::close has made
\* disconnected does not stay in the namespace: all that stays is connected,
\* also when the namespace itself was deleted from the client meanwhile.  Except
\* when the handler's extraction failed.
ClosedLeaves ==
  \A s \in Sids :
    Quiet(s) /\ sockets[s] # None => sockets[s] \in connected \cup stuck

\* A session that is no longer open ends up with no socket and no connection
\* in progress in a namespace the client still has, unless its closing task
\* never gets the lock of the receiver.
Drained ==
  \A s \in Sids :
    engine[s] # "open" ~>
      \/ s \notin connecting /\ sockets[s] \in stuck \cup {None}
      \/ ~registered
      \/ engine[s] = "blocked"

\* delete_ns releases the map of namespaces, and io.close().await returns unless
\* it waits for a session whose closing task never gets the lock.
AdminReturns ==
  /\ admin = "removed" ~> admin = "emptied"
  /\ admin = "taken" ~>
       \/ admin = "drained"
       \/ \E c \in toClose : engine[sid[c]] = "blocked"

-----------------------------------------------------------------------------
(* The inductive invariant: besides the types and the guard, what ties the  *)
(* socket map to the stage of the attempts.                                 *)

\* A running task closes a socket.
TasksOK ==
  \A t \in Tasks : task[t].pc # "idle" => task[t].sock \in Conns

\* An attempt has a session from its CONNECT packet on; the socket found under
\* a sid belongs to that session and its attempt passed the middlewares; while
\* an attempt holds the guard its sid finds no other socket, and none at all
\* as long as the attempt has not inserted its own.
MapOK ==
  /\ \A c \in Conns : conn[c] # "none" => sid[c] \in Sids
  /\ \A s \in Sids : sockets[s] # None =>
       /\ sid[sockets[s]] = s
       /\ conn[sockets[s]] \in {"sending", "flagging", "accepted", "joined"}
  /\ \A c \in Conns : conn[c] \in Guarded => sockets[sid[c]] \in {c, None}

IInv == TypeOK /\ TasksOK /\ GuardExclusive /\ MapOK

-----------------------------------------------------------------------------
(* The abstract view: each attempt is admitted at most once, and one at a   *)
(* time for each sid.                                                       *)

Life(c) ==
  CASE conn[c] = "none" -> "new"
    [] conn[c] = "spawned" -> "arrived"
    [] conn[c] = "middleware" -> "trying"
    [] OTHER -> IF sockets[sid[c]] = c THEN "member" ELSE "out"

Abstract == INSTANCE Membership
              WITH life <- [c \in Conns |-> Life(c)], owner <- sid

\* Namespace implements Membership.
RefinesMembership == Abstract!Spec

-----------------------------------------------------------------------------
(* What the documentation says and the code does not do                    *)

\* "Any `on_disconnect` handler will called with ClosingServer" (io.rs): the
\* handler of a socket whose session the server closes is called.
ClosingCallsHandlers ==
  \A c \in Conns :
    /\ admin = "draining" /\ c \in toClose /\ c \in handler
    /\ engine[sid[c]] = "open"
    ~> called[c] > 0 \/ c \in stuck \/ \E s \in Sids : engine[s] = "blocked"

\* "[rooms] are still available in this handler and only cleaned up AFTER the
\* execution of this handler" (socket.rs, on_disconnect).
RoomsDuringHandler ==
  [][\A t \in Tasks :
       LET c == task[t].sock IN
         /\ task[t].pc = "handler"
         /\ conn[c] = "joined" /\ reg[c] = "promised"
         /\ sid[c] \in rooms \ late
         => sid[c] \in rooms']_vars

\* "Otherwise it would ... replace (or remove ...) the socket with the same id,
\* without calling its disconnect handler" (ns.rs): a connected socket leaves
\* the namespace only by a close of that socket.
RemovedOnlyIfClosed ==
  [][\A s \in Sids :
       LET c == sockets[s] IN
         c \in connected /\ sockets'[s] # c => \E t \in Tasks : task[t].sock = c]_vars

\* "Disconnect the socket from the current namespace, It will also call the
\* disconnect handler" (socket.rs, disconnect): a socket whose handler was
\* called is not in the namespace.
ClosedIsOut ==
  \A s \in Sids :
    Quiet(s) /\ sockets[s] # None => called[sockets[s]] = 0

\* "Deletes a namespace handler and closes all the connections to it"
\* (client.rs, delete_ns).
DeletedIsEmpty ==
  admin = "emptied" /\ (\A s \in Sids : Quiet(s)) => Present \subseteq stuck

\* "A connect packet for a socket already connected or connecting to this
\* namespace is ignored" (ns.rs): and no other one.
IgnoredOnlyIfConnected ==
  [][\A c \in Conns :
       conn[c] = "spawned" /\ conn'[c] = "ignored"
         => sockets[sid[c]] \in connected \/ sid[c] \in connecting]_vars

\* "The callback will be called when the socket is disconnected from the
\* server or the client or when the underlying connection crashes"
\* (socket.rs, on_disconnect).
HandlerPromise ==
  \A c \in Conns :
    /\ reg[c] = "promised" /\ c \notin stuck
    /\ engine[sid[c]] = "gone" /\ Quiet(sid[c]) /\ registered
    => called[c] > 0
=============================================================================
