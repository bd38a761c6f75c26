------------------------------- MODULE Client -------------------------------
(***************************************************************************)
(* The client of socketioxide (client.rs): the map of namespaces with its  *)
(* dynamic namespaces, the connect timeout of a session, and what the      *)
(* engine reports, over the sessions of several clients.                   *)
(*                                                                         *)
(* A namespace path is served by an instance of Namespace.  A dynamic path *)
(* gets its instance when the first CONNECT packet finds none, add_ns and  *)
(* dynamic paths put a new instance in the map once its adapter has        *)
(* started.  An attempt c is one CONNECT packet, and past the guard of its *)
(* instance the socket it creates.                                         *)
(*                                                                         *)
(* Abstracted: inside an instance, the steps of module Namespace between   *)
(* the guard, the insertion, the answer and the return of connect; the     *)
(* closing of a socket is one step; the engine.io session is the four      *)
(* stages of EngineLife.                                                   *)
(***************************************************************************)
EXTENDS Naturals, FiniteSets

CONSTANTS
  Sids,       \* engine.io sessions
  Conns,      \* CONNECT packets (bound)
  Static,     \* paths given to add_ns
  Dynamic,    \* paths a pattern of add_dyn_ns matches
  Root,       \* "/"
  MaxInst,    \* bound: instances created
  AdminOps,   \* subset of {"delete_ns", "close"}
  None

Paths == Static \cup Dynamic \cup {Root}
Insts == 1..MaxInst

ASSUME ConstantsOK ==
  /\ MaxInst \in Nat
  /\ Root \notin Dynamic
  /\ None \notin Sids /\ None \notin Insts /\ None \notin Paths
  /\ AdminOps \subseteq {"delete_ns", "close"}

VARIABLES
  nsps,       \* nsps[p]: the instance that serves p, or None
  created,    \* instances created so far: 1..created
  path,       \* path[i]: what instance i was created for
  adding,     \* instances of add_ns whose adapter has not started yet
  engine,     \* engine[s]: stage of the session, "new" before on_connect
  proto,      \* proto[s]: protocol version
  timer,      \* timer[s]: the connect timeout and its sender connect_recv_tx
  conn,       \* conn[c]: where the attempt stands
  sid,        \* sid[c]: its session
  inst,       \* inst[c]: the instance it connects to
  sockets,    \* the attempts whose socket is in the map of their instance
  toClose,    \* the sockets delete_ns has still to close, under the lock of nsps
  toLeave     \* the sockets on_disconnect has still to close

nsVars == <<nsps, created, path, adding, toClose>>
sessVars == <<engine, proto, timer, toLeave>>
attemptVars == <<conn, sid, inst>>
vars == <<nsps, created, path, adding, engine, proto, timer, conn, sid, inst,
          sockets, toClose, toLeave>>

Stage == {"none", "init", "spawned", "trying", "sending", "ok", "done", "over"}

TypeOK ==
  /\ nsps \in [Paths -> Insts \cup {None}]
  /\ created \in 0..MaxInst
  /\ path \in [Insts -> Paths \cup {None}]
  /\ adding \subseteq Insts
  /\ engine \in [Sids -> {"new", "open", "closing", "closed", "gone"}]
  /\ proto \in [Sids -> {"v4", "v5"}]
  /\ timer \in [Sids -> {"none", "armed", "cancelled", "fired"}]
  /\ conn \in [Conns -> Stage]
  /\ sid \in [Conns -> Sids \cup {None}]
  /\ inst \in [Conns -> Insts \cup {None}]
  /\ sockets \subseteq Conns
  /\ toClose \subseteq Conns
  /\ toLeave \subseteq Conns

Init ==
  /\ nsps = [p \in Paths |-> None]
  /\ created = 0
  /\ path = [i \in Insts |-> None]
  /\ adding = {}
  /\ engine = [s \in Sids |-> "new"]
  /\ proto \in [Sids -> {"v4", "v5"}]
  /\ timer = [s \in Sids |-> "none"]
  /\ conn = [c \in Conns |-> "none"]
  /\ sid = [c \in Conns |-> None]
  /\ inst = [c \in Conns |-> None]
  /\ sockets = {}
  /\ toClose = {}
  /\ toLeave = {}
-----------------------------------------------------------------------------
(* Helpers                                                                 *)

\* EngineIo::close_session: only the first call finds the session.
Closed(s) == [engine EXCEPT ![s] = IF @ = "open" THEN "closing" ELSE @]

TakesPackets(s) == engine[s] \in {"open", "closing"}

\* The sockets of session s in the instances I: at most one in each.
SocketsOf(s, I) == {c \in sockets : sid[c] = s /\ inst[c] \in I}

\* delete_ns holds the write lock of nsps.
Locked == toClose # {}

Registered == {nsps[p] : p \in Paths} \ {None}

\* A new instance for the path p, with the number created + 1.
Create(p) ==
  /\ created < MaxInst
  /\ created' = created + 1
  /\ path' = [path EXCEPT ![created + 1] = p]

Goto(c, stage) == conn' = [conn EXCEPT ![c] = stage]
-----------------------------------------------------------------------------
(* Namespaces come and go                                                  *)

AddNs(p) ==
  /\ p \in Static
  /\ Create(p)
  /\ adding' = adding \cup {created + 1}
  /\ UNCHANGED <<nsps, toClose, sessVars, attemptVars, sockets>>

\* on_success of add_ns, called by the adapter.
NsAdded(i) ==
  /\ i \in adding /\ ~Locked
  /\ adding' = adding \ {i}
  /\ nsps' = [nsps EXCEPT ![path[i]] = i]
  /\ UNCHANGED <<created, path, toClose, sessVars, attemptVars, sockets>>

\* The instance leaves the map; the sockets it has by then are closed one by
\* one, attempts that are in their middlewares go on.  The root stays.
DeleteNs(p) ==
  /\ "delete_ns" \in AdminOps
  /\ p # Root /\ nsps[p] # None /\ ~Locked
  /\ nsps' = [nsps EXCEPT ![p] = None]
  /\ toClose' = {c \in sockets : inst[c] = nsps[p]}
  /\ UNCHANGED <<created, path, adding, sessVars, attemptVars, sockets>>

DeleteNsClose(c) ==
  /\ c \in toClose
  /\ toClose' = toClose \ {c}
  /\ sockets' = sockets \ SocketsOf(sid[c], {inst[c]})
  /\ UNCHANGED <<nsps, created, path, adding, sessVars, attemptVars>>

\* The map is taken, then the sessions of the sockets are closed.
CloseServer ==
  /\ "close" \in AdminOps /\ ~Locked
  /\ nsps' = [p \in Paths |-> None]
  /\ engine' = [s \in Sids |-> IF SocketsOf(s, Registered) # {}
                               THEN Closed(s)[s] ELSE engine[s]]
  /\ UNCHANGED <<created, path, adding, toClose, proto, timer, toLeave,
                 attemptVars, sockets>>
-----------------------------------------------------------------------------
(* sock_connect                                                            *)

\* A CONNECT packet for p, or the implicit one of protocol v4.
SockConnect(c, s, p) ==
  /\ conn[c] = "none" /\ ~Locked
  /\ sid' = [sid EXCEPT ![c] = s]
  /\ \/ /\ nsps[p] # None
        /\ inst' = [inst EXCEPT ![c] = nsps[p]]
        /\ Goto(c, "spawned")
        /\ UNCHANGED <<created, path, engine>>
     \/ /\ nsps[p] = None /\ p \in Dynamic
        /\ Create(p)
        /\ inst' = [inst EXCEPT ![c] = created + 1]
        /\ Goto(c, "init")
        /\ UNCHANGED engine
     \/ /\ nsps[p] = None /\ p \notin Dynamic
        /\ engine' = IF proto[s] = "v4" /\ p = Root THEN Closed(s) ELSE engine
        /\ Goto(c, "over")
        /\ UNCHANGED <<created, path, inst>>

RecvConnect(c, s, p) ==
  /\ engine[s] # "new"
  /\ SockConnect(c, s, p)
  /\ UNCHANGED <<nsps, adding, toClose, proto, timer, toLeave, sockets>>

\* on_success of a dynamic namespace: in the map, whatever is there by now,
\* and the task is spawned.
DynamicReady(c) ==
  /\ conn[c] = "init" /\ ~Locked
  /\ nsps' = [nsps EXCEPT ![path[inst[c]]] = inst[c]]
  /\ Goto(c, "spawned")
  /\ UNCHANGED <<created, path, adding, toClose, sessVars, sid, inst, sockets>>

\* The adapter cannot start: the instance is dropped, the attempt never answered.
DynamicErr(c) ==
  /\ conn[c] = "init"
  /\ inst' = [inst EXCEPT ![c] = None]
  /\ Goto(c, "over")
  /\ UNCHANGED <<nsVars, sessVars, sid, sockets>>
-----------------------------------------------------------------------------
(* The task of an attempt: Namespace::connect, then the connect timeout    *)

\* The attempts that ConnectingGuard finds in the instance of c.
Rivals(c) == {d \in Conns \ {c} :
  /\ sid[d] = sid[c] /\ inst[d] = inst[c]
  /\ d \in sockets \/ conn[d] \in {"trying", "sending"}}

\* Mutant: the guard forgets the attempts that are in their middlewares.
GuardLooksAtSockets(c) ==
  /\ conn[c] = "spawned"
  /\ Goto(c, IF \A d \in sockets : sid[d] # sid[c] \/ inst[d] # inst[c]
             THEN "trying" ELSE "over")
  /\ UNCHANGED <<nsVars, sessVars, sid, inst, sockets>>

Guard(c) ==
  /\ conn[c] = "spawned"
  /\ Goto(c, IF Rivals(c) = {} THEN "trying" ELSE "over")
  /\ UNCHANGED <<nsVars, sessVars, sid, inst, sockets>>

Refuse(c) ==
  /\ conn[c] = "trying"
  /\ Goto(c, "over")
  /\ UNCHANGED <<nsVars, sessVars, sid, inst, sockets>>

Insert(c) ==
  /\ conn[c] = "trying"
  /\ sockets' = sockets \cup {c}
  /\ Goto(c, "sending")
  /\ UNCHANGED <<nsVars, sessVars, sid, inst>>

\* connect returns Ok, even if the socket was closed since its insertion.
Answer(c) ==
  /\ conn[c] = "sending" /\ TakesPackets(sid[c])
  /\ Goto(c, "ok")
  /\ UNCHANGED <<nsVars, sessVars, sid, inst, sockets>>

\* Mutant: the socket is not removed when the answer cannot be sent.
AnswerErrKeeps(c) ==
  /\ conn[c] = "sending"
  /\ engine' = Closed(sid[c])
  /\ Goto(c, "over")
  /\ UNCHANGED <<nsVars, proto, timer, toLeave, sid, inst, sockets>>

\* The channel is closed or full: the socket is removed, the session closed.
AnswerErr(c) ==
  /\ conn[c] = "sending"
  /\ sockets' = sockets \ SocketsOf(sid[c], {inst[c]})
  /\ engine' = Closed(sid[c])
  /\ Goto(c, "over")
  /\ UNCHANGED <<nsVars, proto, timer, toLeave, sid, inst>>

\* Mutant: the timeout is cancelled whatever connect returned.
CancelTimeoutAlways(c) ==
  /\ conn[c] \in {"ok", "over"} /\ sid[c] # None
  /\ Goto(c, IF conn[c] = "ok" THEN "done" ELSE "over")
  /\ timer' = [timer EXCEPT ![sid[c]] = IF @ = "armed" THEN "cancelled" ELSE @]
  /\ UNCHANGED <<nsVars, engine, proto, toLeave, sid, inst, sockets>>

\* connect_recv_tx is taken: the first connection cancels the timeout.
CancelTimeout(c) ==
  /\ conn[c] = "ok"
  /\ Goto(c, "done")
  /\ timer' = [timer EXCEPT ![sid[c]] = IF @ = "armed" THEN "cancelled" ELSE @]
  /\ UNCHANGED <<nsVars, engine, proto, toLeave, sid, inst, sockets>>
-----------------------------------------------------------------------------
(* Sessions                                                                *)

\* on_connect: v4 connects to the root by itself, v5 has a time to do so.
OnConnectV4(s, c) ==
  /\ engine[s] = "new" /\ proto[s] = "v4"
  /\ conn[c] = "none" /\ ~Locked
  /\ sid' = [sid EXCEPT ![c] = s]
  /\ IF nsps[Root] # None
     THEN /\ inst' = [inst EXCEPT ![c] = nsps[Root]]
          /\ Goto(c, "spawned")
          /\ engine' = [engine EXCEPT ![s] = "open"]
     ELSE /\ Goto(c, "over")
          /\ engine' = [engine EXCEPT ![s] = "closing"]
          /\ UNCHANGED inst
  /\ UNCHANGED <<nsVars, proto, timer, toLeave, sockets>>

OnConnectV5(s) ==
  /\ engine[s] = "new" /\ proto[s] = "v5"
  /\ engine' = [engine EXCEPT ![s] = "open"]
  /\ timer' = [timer EXCEPT ![s] = "armed"]
  /\ UNCHANGED <<nsVars, proto, toLeave, attemptVars, sockets>>

ConnectTimeout(s) ==
  /\ timer[s] = "armed"
  /\ timer' = [timer EXCEPT ![s] = "fired"]
  /\ engine' = Closed(s)
  /\ UNCHANGED <<nsVars, proto, toLeave, attemptVars, sockets>>

\* sock_propagate_packet: a packet of s for p.  An unknown namespace ignores
\* it; a namespace without the socket closes the session (SocketGone).
RecvDisconnect(s, p) ==
  /\ nsps[p] # None /\ ~Locked /\ SocketsOf(s, {nsps[p]}) # {}
  /\ sockets' = sockets \ SocketsOf(s, {nsps[p]})
  /\ UNCHANGED <<nsVars, sessVars, attemptVars>>

RecvForGone(s, p) ==
  /\ engine[s] = "open"
  /\ nsps[p] # None /\ ~Locked /\ SocketsOf(s, {nsps[p]}) = {}
  /\ engine' = Closed(s)
  /\ UNCHANGED <<nsVars, proto, timer, toLeave, attemptVars, sockets>>

\* The client leaves or is lost, or its socket calls disconnect().
SessionEnds(s) ==
  /\ engine[s] = "open"
  /\ engine' = Closed(s)
  /\ UNCHANGED <<nsVars, proto, timer, toLeave, attemptVars, sockets>>

CloseChannel(s) ==
  /\ engine[s] = "closing"
  /\ engine' = [engine EXCEPT ![s] = "closed"]
  /\ UNCHANGED <<nsVars, proto, timer, toLeave, attemptVars, sockets>>

\* on_disconnect takes the sockets of the session from the namespaces that are
\* in the map, then closes them.
OnDisconnect(s) ==
  /\ engine[s] = "closed" /\ ~Locked
  /\ engine' = [engine EXCEPT ![s] = "gone"]
  /\ toLeave' = toLeave \cup SocketsOf(s, Registered)
  /\ UNCHANGED <<nsVars, proto, timer, attemptVars, sockets>>

OnDisconnectClose(c) ==
  /\ c \in toLeave
  /\ toLeave' = toLeave \ {c}
  /\ sockets' = sockets \ SocketsOf(sid[c], {inst[c]})
  /\ UNCHANGED <<nsVars, engine, proto, timer, attemptVars>>
-----------------------------------------------------------------------------
Connect(c) == Guard(c) \/ Refuse(c) \/ Insert(c) \/ Answer(c) \/ AnswerErr(c)
              \/ CancelTimeout(c)

Next ==
  \/ \E p \in Paths : AddNs(p) \/ DeleteNs(p)
  \/ \E i \in Insts : NsAdded(i)
  \/ CloseServer
  \/ \E c \in Conns : \/ Connect(c) \/ DynamicReady(c) \/ DynamicErr(c)
                      \/ DeleteNsClose(c) \/ OnDisconnectClose(c)
  \/ \E s \in Sids :
       \/ \E c \in Conns : OnConnectV4(s, c)
                           \/ \E p \in Paths : RecvConnect(c, s, p)
       \/ \E p \in Paths : RecvDisconnect(s, p) \/ RecvForGone(s, p)
       \/ OnConnectV5(s) \/ ConnectTimeout(s) \/ SessionEnds(s)
       \/ CloseChannel(s) \/ OnDisconnect(s)

Spec == Init /\ [][Next]_vars

\* Timers fire; nothing is assumed of the clients, of their packets, of
\* middlewares and adapters, or of the lock the closing task waits for.
FairSpec == Spec /\ \A s \in Sids : WF_vars(ConnectTimeout(s))
-----------------------------------------------------------------------------
(* Properties                                                              *)

\* A session that is gone has no socket left in a namespace that is still in
\* the map, however its connections and the namespaces came and went: an
\* instance enters the map before anybody connects to it, and on_disconnect
\* comes when no answer can be sent any more.
NoSocketLeak == \A c \in sockets :
  engine[sid[c]] = "gone" /\ conn[c] # "sending" /\ c \notin toLeave
    => inst[c] \notin Registered

\* A session of protocol v5 that never connects to a namespace is closed: the
\* connect timeout is cancelled by a connection and by nothing else.
Connected(s) == \E c \in Conns : sid[c] = s /\ conn[c] \in {"ok", "done"}
ServedOrClosed == \A s \in Sids :
  engine[s] = "open" /\ proto[s] = "v5" ~> Connected(s) \/ engine[s] # "open"

\* In each instance, a session is a member by one attempt at most, and an
\* attempt that is out never comes back.
Life(c) ==
  CASE conn[c] \in {"none", "init"} -> "new"
    [] conn[c] = "spawned" -> "arrived"
    [] conn[c] = "trying" -> "trying"
    [] OTHER -> IF c \in sockets THEN "member"
                ELSE IF inst[c] = None THEN "new" ELSE "out"

M == INSTANCE Membership WITH
  Sids <- Insts \X Sids,
  life <- [c \in Conns |-> Life(c)],
  owner <- [c \in Conns |-> IF Life(c) = "new" THEN None
                            ELSE <<inst[c], sid[c]>>]

RefinesMembership == M!Spec

\* socket.rs:463, the disconnect handler "will be called when the socket is
\* disconnected": a session that is gone is in no instance at all.
NoOrphan == \A c \in sockets :
  engine[sid[c]] = "gone" => conn[c] = "sending" \/ c \in toLeave
=============================================================================
