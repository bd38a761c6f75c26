------------------------------ MODULE RoomsChat ------------------------------
(***************************************************************************)
(* The chat example (examples/react-rooms-chat): a page that shows one     *)
(* room at a time (client/src/App.jsx, MsgSubmitBox.jsx), and a server     *)
(* that keeps the last messages of each room (src/main.rs, src/state.rs).  *)
(*                                                                         *)
(* A page without connection keeps what it emits, and what it emits with   *)
(* one arrives in order.  The server listens to a socket once on_connect,  *)
(* a task spawned after the connection was answered, has registered its    *)
(* two handlers: an event that comes before is dropped.  Each event has a  *)
(* task, and the tasks run at once, a step of one between two steps of     *)
(* another; a socket is a client and the number of its connection.  What   *)
(* is emitted to a page arrives in order, but the channel of a socket may  *)
(* be full, and what it refuses is lost: the code drops the error.         *)
(*                                                                         *)
(* Abstracted: a message to a number and its room; the length of a         *)
(* channel, which may refuse at any time; the pages see a broken           *)
(* connection at the moment the server does; "hello", which no page        *)
(* listens to.                                                             *)
(***************************************************************************)
EXTENDS Naturals, Sequences, SequencesExt, FiniteSets, Bags

CONSTANTS
  Clients, Rooms,
  FirstRoom,   \* rooms[0]
  History,     \* messages kept for a room (20 in the code)
  MaxMsgs,     \* bound: messages sent
  MaxConns,    \* bound: connections of a client
  MaxChanges   \* bound: changes of room

ASSUME ConstantsOK ==
  /\ FirstRoom \in Rooms /\ History \in Nat \ {0}
  /\ {MaxMsgs, MaxConns, MaxChanges} \subseteq Nat

VARIABLES
  \* The pages
  currentRoom, \* currentRoom[c]: the room that is shown
  messages,    \* messages[c]: the messages that are shown
  conns,       \* conns[c]: connections made so far
  up,          \* the clients that are connected
  buffer,      \* buffer[c]: emitted without connection
  out,         \* out[c]: events on their way to the server
  wire,        \* wire[c]: events on their way to the page
  \* The server
  listening,   \* listening[c]: handlers registered, "join" and then "message"
  member,      \* pairs of a socket and a room it is in
  store,       \* store[r]: the messages of a room, newest first
  tasks,       \* the handlers that run, a bag: two of them may be alike
  \* Bounds and history
  sent,        \* messages sent so far
  changes,     \* changes of room so far
  mixed,       \* clients that changed room with a join under way, or whose
               \* connection joins another room than the one shown
  reached,     \* reached[c]: what the joins since the last change of room or
               \* connection came to: nothing, a handler, or an answer
  log,         \* log[r]: all that was stored, oldest first
  raced,       \* <<c, m>>: an answer was sent to c that misses the stored m
  refused      \* <<c, m>>: the channel of c was full for m, or for an answer
               \* with m

pageVars == <<currentRoom, messages, conns, up, buffer, out>>
logs == <<log, raced, refused>>
vars == <<currentRoom, messages, conns, up, buffer, out, wire, listening, member,
          store, tasks, sent, changes, mixed, reached, log, raced, refused>>

\* A message carries its room in the model only: no page can read it.
Msgs == Rooms \X (1..MaxMsgs)
Sids == Clients \X (1..MaxConns)
Emits == [kind : {"join"}, room : Rooms]
           \cup [kind : {"message"}, room : Rooms, msg : Msgs]
IsJoin(e) == e.kind = "join"

\* The handlers that run, each kind once.
Running == BagToSet(tasks)

TypeOK ==
  /\ currentRoom \in [Clients -> Rooms]
  /\ messages \in [Clients -> Seq(Msgs)]
  /\ conns \in [Clients -> 0..MaxConns]
  /\ up \subseteq Clients
  /\ {buffer, out} \subseteq [Clients -> Seq(Emits)]
  /\ \A c \in Clients : \A k \in 1..Len(wire[c]) :
       wire[c][k] \in {"message"} \X Msgs \/ wire[c][k] \in {"messages"} \X Seq(Msgs)
  /\ listening \in [Clients -> 0..2]
  /\ member \subseteq Sids \X Rooms
  /\ \A r \in Rooms : store[r] \in Seq(Msgs) /\ Len(store[r]) <= History
  /\ IsABag(tasks) /\ \A t \in Running : t.sid \in Sids /\ t.emit \in Emits
  /\ sent \in 0..MaxMsgs /\ changes \in 0..MaxChanges
  /\ mixed \subseteq Clients
  /\ reached \in [Clients -> {"nothing", "handler", "answer"}]
  /\ log \in [Rooms -> Seq(Msgs)]
  /\ raced \subseteq Clients \X Msgs /\ refused \subseteq Clients \X Msgs

\* The page is mounted: its socket is made, and its first join is waiting.
Init ==
  /\ currentRoom = [c \in Clients |-> FirstRoom]
  /\ messages = [c \in Clients |-> << >>]
  /\ conns = [c \in Clients |-> 0]
  /\ up = {}
  /\ buffer = [c \in Clients |-> <<[kind |-> "join", room |-> FirstRoom]>>]
  /\ out = [c \in Clients |-> << >>]
  /\ wire = [c \in Clients |-> << >>]
  /\ listening = [c \in Clients |-> 0]
  /\ member = {}
  /\ store = [r \in Rooms |-> << >>]
  /\ tasks = EmptyBag
  /\ sent = 0 /\ changes = 0
  /\ mixed = {}
  /\ reached = [c \in Clients |-> "nothing"]
  /\ log = [r \in Rooms |-> << >>]
  /\ raced = {} /\ refused = {}
-----------------------------------------------------------------------------
(* Helpers                                                                 *)

Sid(c) == <<c, conns[c]>>
Live(sid) == sid[1] \in up /\ sid = Sid(sid[1])

Handler(sid, e) == [sid |-> sid, emit |-> e, at |-> "start", got |-> << >>]

\* socket.on(event, ..) of on_connect was reached for the event e.
Listens(c, e) == listening[c] >= (IF IsJoin(e) THEN 1 ELSE 2)

PendingJoins(c) == {t \in Running : t.sid = Sid(c) /\ IsJoin(t.emit)}
JoinsIn(q) == {q[k] : k \in {j \in 1..Len(q) : IsJoin(q[j])}}

\* socket.emit of a page
Emit(c, e) ==
  IF c \in up
  THEN out' = [out EXCEPT ![c] = Append(@, e)] /\ UNCHANGED buffer
  ELSE buffer' = [buffer EXCEPT ![c] = Append(@, e)] /\ UNCHANGED out
-----------------------------------------------------------------------------
(* The page                                                                *)

\* The effect of a change of currentRoom clears the view and joins.
RoomEffect(c, r) ==
  /\ messages' = [messages EXCEPT ![c] = << >>]
  /\ Emit(c, [kind |-> "join", room |-> r])

\* A room of the side bar is clicked.
ChangeRoom(c, r) ==
  /\ r # currentRoom[c] /\ changes < MaxChanges
  /\ currentRoom' = [currentRoom EXCEPT ![c] = r]
  /\ RoomEffect(c, r)
  /\ changes' = changes + 1
  /\ mixed' = IF PendingJoins(c) = {} /\ JoinsIn(out[c]) = {}
              THEN mixed \ {c} ELSE mixed \cup {c}
  /\ reached' = [reached EXCEPT ![c] = "nothing"]
  /\ UNCHANGED <<conns, up, wire, listening, member, store, tasks, sent, logs>>

\* "connect": what was kept is sent, then the handler joins the room that was
\* shown when the page was mounted.
Connect(c) ==
  /\ c \notin up /\ conns[c] < MaxConns
  /\ conns' = [conns EXCEPT ![c] = @ + 1]
  /\ up' = up \cup {c}
  /\ buffer' = [buffer EXCEPT ![c] = << >>]
  /\ LET events == Append(buffer[c], [kind |-> "join", room |-> FirstRoom])
     IN  /\ out' = [out EXCEPT ![c] = events]
         /\ mixed' = IF \A e \in JoinsIn(events) : e.room = currentRoom[c]
                     THEN mixed \ {c} ELSE mixed \cup {c}
  /\ listening' = [listening EXCEPT ![c] = 0]
  /\ reached' = [reached EXCEPT ![c] = "nothing"]
  /\ UNCHANGED <<currentRoom, messages, wire, member, store, tasks, sent, changes,
                 logs>>

SendMessage(c) ==
  /\ sent < MaxMsgs
  /\ sent' = sent + 1
  /\ Emit(c, [kind |-> "message", room |-> currentRoom[c],
                msg |-> <<currentRoom[c], sent + 1>>])
  /\ UNCHANGED <<currentRoom, messages, conns, up, wire, listening, member, store,
                 tasks, changes, mixed, reached, logs>>

\* "message" is added to the view, whatever room it is of.
OnMessage(c) ==
  /\ wire[c] # << >> /\ Head(wire[c])[1] = "message"
  /\ messages' = [messages EXCEPT ![c] = Append(@, Head(wire[c])[2])]
  /\ wire' = [wire EXCEPT ![c] = Tail(@)]
  /\ UNCHANGED <<currentRoom, conns, up, buffer, out, listening, member, store,
                 tasks, sent, changes, mixed, reached, logs>>

\* "messages" replaces the view.
OnMessages(c) ==
  /\ wire[c] # << >> /\ Head(wire[c])[1] = "messages"
  /\ messages' = [messages EXCEPT ![c] = Head(wire[c])[2]]
  /\ wire' = [wire EXCEPT ![c] = Tail(@)]
  /\ UNCHANGED <<currentRoom, conns, up, buffer, out, listening, member, store,
                 tasks, sent, changes, mixed, reached, logs>>

\* The connection breaks: the socket leaves its rooms, and what was on its way
\* in either direction is lost.
Disconnect(c) ==
  /\ c \in up
  /\ up' = up \ {c}
  /\ out' = [out EXCEPT ![c] = << >>]
  /\ wire' = [wire EXCEPT ![c] = << >>]
  /\ member' = {p \in member : p[1] # Sid(c)}
  /\ UNCHANGED <<currentRoom, messages, conns, buffer, listening, store, tasks,
                 sent, changes, mixed, reached, logs>>
-----------------------------------------------------------------------------
(* The server: a socket                                                    *)

\* on_connect goes on to its next socket.on(..).
Register(c) ==
  /\ c \in up /\ listening[c] < 2
  /\ listening' = [listening EXCEPT ![c] = @ + 1]
  /\ UNCHANGED <<pageVars, wire, member, store, tasks, sent, changes, mixed,
                 reached, logs>>

\* recv_event: the handler of the event is spawned...
Arrive(c) ==
  /\ c \in up /\ out[c] # << >> /\ Listens(c, Head(out[c]))
  /\ out' = [out EXCEPT ![c] = Tail(@)]
  /\ tasks' = tasks (+) SetToBag({Handler(Sid(c), Head(out[c]))})
  /\ reached' = [reached EXCEPT ![c] =
        IF IsJoin(Head(out[c])) /\ @ = "nothing" THEN "handler" ELSE @]
  /\ UNCHANGED <<currentRoom, messages, conns, up, buffer, wire, listening, member,
                 store, sent, changes, mixed, logs>>

\* ... and an event without handler is dropped.
Ignore(c) ==
  /\ c \in up /\ out[c] # << >> /\ ~Listens(c, Head(out[c]))
  /\ out' = [out EXCEPT ![c] = Tail(@)]
  /\ UNCHANGED <<currentRoom, messages, conns, up, buffer, wire, listening, member,
                 store, tasks, sent, changes, mixed, reached, logs>>
-----------------------------------------------------------------------------
(* The server: the handler of "join"                                       *)

\* t ends, and goes on as u.
End(t) == tasks' = tasks (-) SetToBag({t})
Become(t, u) == tasks' = (tasks (-) SetToBag({t})) (+) SetToBag({u})
Move(t, step) == Become(t, [t EXCEPT !.at = step])

\* Mutant: the socket stays in the rooms it was in.
LeaveNothing(t) ==
  /\ IsJoin(t.emit) /\ t.at = "start"
  /\ Move(t, "left")
  /\ UNCHANGED <<pageVars, wire, listening, member, store, sent, changes, mixed,
                 reached, logs>>

LeaveAll(t) ==
  /\ IsJoin(t.emit) /\ t.at = "start"
  /\ member' = {p \in member : p[1] # t.sid}
  /\ Move(t, "left")
  /\ UNCHANGED <<pageVars, wire, listening, store, sent, changes, mixed, reached,
                 logs>>

\* The adapter does not ask whether the socket is still connected.
Join(t) ==
  /\ t.at = "left"
  /\ member' = member \cup {<<t.sid, t.emit.room>>}
  /\ Move(t, "joined")
  /\ UNCHANGED <<pageVars, wire, listening, store, sent, changes, mixed, reached,
                 logs>>

\* store.get(&room).await: oldest first
GetMessages(t) ==
  /\ t.at = "joined"
  /\ Become(t, [t EXCEPT !.at = "read", !.got = Reverse(store[t.emit.room])])
  /\ UNCHANGED <<pageVars, wire, listening, member, store, sent, changes, mixed,
                 reached, logs>>

\* socket.emit, the answer: a socket that is gone, or whose channel is full,
\* refuses it, and that is ignored.
EmitMessages(t) ==
  /\ t.at = "read"
  /\ End(t)
  /\ LET c == t.sid[1]
         read == {c} \X ToSet(t.got)
     IN  \/ /\ Live(t.sid)
            /\ wire' = [wire EXCEPT ![c] = Append(@, <<"messages", t.got>>)]
            /\ reached' = [reached EXCEPT ![c] = "answer"]
            /\ raced' = (raced \cup ({c} \X ToSet(store[t.emit.room]))) \ read
            /\ refused' = refused \ read
         \/ /\ Live(t.sid)
            /\ refused' = refused \cup read
            /\ UNCHANGED <<wire, reached, raced>>
         \/ ~Live(t.sid) /\ UNCHANGED <<wire, reached, raced, refused>>
  /\ UNCHANGED <<pageVars, listening, member, store, sent, changes, mixed, log>>
-----------------------------------------------------------------------------
(* The server: the handler of "message"                                    *)

Truncate(s) == SubSeq(s, 1, IF Len(s) <= History THEN Len(s) ELSE History)

\* Mutant: the newest message is put last, and cut off.
InsertLast(t) ==
  /\ ~IsJoin(t.emit) /\ t.at = "start"
  /\ store' = [store EXCEPT ![t.emit.room] = Truncate(Append(@, t.emit.msg))]
  /\ log' = [log EXCEPT ![t.emit.room] = Append(@, t.emit.msg)]
  /\ Move(t, "stored")
  /\ UNCHANGED <<pageVars, wire, listening, member, sent, changes, mixed, reached,
                 raced, refused>>

\* store.insert(..).await
Insert(t) ==
  /\ ~IsJoin(t.emit) /\ t.at = "start"
  /\ store' = [store EXCEPT ![t.emit.room] = Truncate(<<t.emit.msg>> \o @)]
  /\ log' = [log EXCEPT ![t.emit.room] = Append(@, t.emit.msg)]
  /\ Move(t, "stored")
  /\ UNCHANGED <<pageVars, wire, listening, member, sent, changes, mixed, reached,
                 raced, refused>>

\* Mutant: socket.to(room), that leaves the sender out.
ReceiversOthers(t) == {c \in up : <<Sid(c), t.emit.room>> \in member /\ Sid(c) # t.sid}

\* socket.within(room).emit(..): the sender is not left out.
Receivers(t) == {c \in up : <<Sid(c), t.emit.room>> \in member}

\* send_many goes on after a channel that is full, and the errors are ignored.
Broadcast(t) ==
  /\ t.at = "stored"
  /\ \E got \in SUBSET Receivers(t) :
       /\ wire' = [c \in Clients |-> IF c \in got
                                     THEN Append(wire[c], <<"message", t.emit.msg>>)
                                     ELSE wire[c]]
       /\ refused' = refused \cup ((Receivers(t) \ got) \X {t.emit.msg})
  /\ End(t)
  /\ UNCHANGED <<pageVars, listening, member, store, sent, changes, mixed, reached,
                 log, raced>>
-----------------------------------------------------------------------------
Page(c) == \/ \E r \in Rooms : ChangeRoom(c, r)
           \/ Connect(c) \/ SendMessage(c) \/ OnMessage(c) \/ OnMessages(c)

Socket(c) == Register(c) \/ Arrive(c) \/ Ignore(c)

Server(t) == \/ LeaveAll(t) \/ Join(t) \/ GetMessages(t) \/ EmitMessages(t)
             \/ Insert(t) \/ Broadcast(t)

Next == \/ \E c \in Clients : Page(c) \/ Socket(c) \/ Disconnect(c)
        \/ \E t \in Running : Server(t)

Spec == Init /\ [][Next]_vars
-----------------------------------------------------------------------------
(* Properties                                                              *)

\* No event of c and no join of it is under way, and its joins were of one room
\* at a time.
Settled(c) ==
  /\ c \in up \ mixed
  /\ out[c] = << >> /\ wire[c] = << >> /\ PendingJoins(c) = {}

RoomsOf(c) == {p[2] : p \in {q \in member : q[1] = Sid(c)}}

\* The socket of a settled page is in the room whose name the page shows and in
\* no other, or in none when no join since the last click or connection found a
\* handler (on_connect had not registered it); and once a join was answered the
\* page shows messages of that room only: the joins of one room may overlap,
\* and events of the room before may still arrive after the click.
RightRoom == \A c \in Clients : Settled(c) =>
  /\ RoomsOf(c) = IF reached[c] = "nothing" THEN {} ELSE {currentRoom[c]}
  /\ reached[c] = "answer" => \A m \in ToSet(messages[c]) : m[1] = currentRoom[c]

\* m is to be broadcast.
ToCome(m) == \E t \in Running : t.at = "stored" /\ t.emit.msg = m

\* A settled page that a handler let into its room shows all the messages kept
\* for it, but those still to be broadcast, those whose broadcast or answer the
\* full channel refused, and those that came between the reading of the messages
\* and the emission of an answer: that answer replaces the view.
LostOnlyIfMissed == \A c \in Clients : Settled(c) /\ reached[c] # "nothing" =>
  \A m \in ToSet(store[currentRoom[c]]) :
    m \in ToSet(messages[c]) \/ ToCome(m) \/ <<c, m>> \in raced \cup refused

\* What a page shows, or was broadcast to it, was stored before, and is kept for
\* those who join later until History newer messages of its room took its place.
SeenIsKept == \A c \in Clients :
  LET arriving == {wire[c][k][2] : k \in {j \in 1..Len(wire[c]) :
                                           wire[c][j][1] = "message"}}
  IN  \A m \in ToSet(messages[c]) \cup arriving :
        \E i \in 1..Len(log[m[1]]) :
          /\ log[m[1]][i] = m
          /\ Len(log[m[1]]) - i < History => m \in ToSet(store[m[1]])

\* Not true, even where no channel is full: see LostOnlyIfMissed.
NothingLost == \A c \in Clients : Settled(c) /\ reached[c] # "nothing" =>
  \A m \in ToSet(store[currentRoom[c]]) :
    m \in ToSet(messages[c]) \/ ToCome(m) \/ <<c, m>> \in refused

\* Not true: a message may be in an answer and be broadcast after it.
ShownOnce == \A c \in Clients : IsInjective(messages[c])

\* Not true: "connect" joins the first room whatever is shown (App.jsx:36).
RoomIsShown == \A c \in up :
  out[c] = << >> /\ wire[c] = << >> /\ PendingJoins(c) = {}
    => RoomsOf(c) \subseteq {currentRoom[c]}

\* Not true: a handler that runs on joins with a socket that is gone, and
\* nothing takes it out of the room again (main.rs:33).
GoneIsNowhere == \A p \in member : Live(p[1]) \/ \E t \in Running : t.sid = p[1]
=============================================================================
