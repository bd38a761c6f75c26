------------------------------- MODULE RtcCall -------------------------------
(***************************************************************************)
(* The video call example (examples/webrtc-node-app): pages that join a    *)
(* room through a socketioxide server and set up a WebRTC call by its      *)
(* events (public/client.js, src/main.rs).                                 *)
(*                                                                         *)
(* A page is one thread: a handler of an event runs to its first await,    *)
(* and goes on later.  The server spawns one task for each event it gets,  *)
(* and these run in any order, those of one client too; what is emitted to *)
(* a client arrives in order.                                              *)
(*                                                                         *)
(* Abstracted: descriptions and candidates to their kind; there is one     *)
(* room, all pages name it; the connection of the peers themselves.        *)
(* Assumed: a page is joined by its user after the server has registered   *)
(* the handlers of its socket, and no channel is full: what is emitted to  *)
(* a socket that is there arrives (RoomsChat has both losses).             *)
(***************************************************************************)
EXTENDS Naturals, FiniteSets, Sequences

CONSTANTS
  Clients,    \* the pages that are opened
  MaxIce,     \* bound: candidates the pages emit
  MayLeave    \* the pages that may be closed

ASSUME ConstantsOK == MaxIce \in Nat /\ MayLeave \subseteq Clients

VARIABLES
  \* The pages (the variables at the top of client.js)
  page,       \* page[c]: selecting a room, in the call, or closed
  media,      \* media[c]: localStream, with the await of getUserMedia
  creator,    \* the pages with isRoomCreator
  told,       \* told[c]: what the server said to its join
  gen,        \* gen[c]: how many times rtcPeerConnection was assigned
  localDesc,  \* localDesc[c]: local description of rtcPeerConnection
  remoteDesc, \* remoteDesc[c]: its remote description
  offering,   \* offering[c]: connections whose createOffer is awaited
  answering,  \* answering[c]: connections whose createAnswer is awaited
  ice,        \* candidates emitted so far
  inbox,      \* inbox[c]: events on their way to c
  \* The server
  room,       \* the sockets that are connected and in the room
  joins,      \* joins[c]: the task of its join event
  tasks,      \* tasks[c][e]: tasks of events e of c that have not emitted yet
  \* History, read by the properties only
  stale,      \* some join acted on a count that was no longer true
  thrown      \* exceptions: the page and what it missed

descVars == <<gen, localDesc, remoteDesc>>
contVars == <<offering, answering>>
pageVars == <<page, media, creator, told, ice>>
serverVars == <<room, joins, stale>>
vars == <<page, media, creator, told, gen, localDesc, remoteDesc, offering,
          answering, ice, inbox, room, joins, tasks, stale, thrown>>

Event == {"start_call", "offer", "answer", "ice"}
Notice == {"room_created", "room_joined", "full_room"}

TypeOK ==
  /\ page \in [Clients -> {"selecting", "call", "closed"}]
  /\ media \in [Clients -> {"none", "asking", "ok", "failed"}]
  /\ creator \subseteq Clients
  /\ told \in [Clients -> Notice \cup {"nothing"}]
  /\ gen \in [Clients -> Nat]
  /\ localDesc \in [Clients -> {"none", "offer", "answer"}]
  /\ remoteDesc \in [Clients -> {"none", "offer", "answer"}]
  /\ offering \in [Clients -> SUBSET Nat]
  /\ answering \in [Clients -> SUBSET Nat]
  /\ ice \in 0..MaxIce
  /\ inbox \in [Clients -> Seq(Event \cup Notice)]
  /\ room \subseteq Clients
  /\ joins \in [Clients -> {"none", "spawned", "counted0", "counted1",
                            "counted2", "room_created", "room_joined", "done"}]
  /\ tasks \in [Clients -> [Event -> Nat]]
  /\ stale \in BOOLEAN
  /\ thrown \subseteq Clients \X {"stream", "connection", "offer",
                                 "description"}

Init ==
  /\ page = [c \in Clients |-> "selecting"]
  /\ media = [c \in Clients |-> "none"]
  /\ creator = {}
  /\ told = [c \in Clients |-> "nothing"]
  /\ gen = [c \in Clients |-> 0]
  /\ localDesc = [c \in Clients |-> "none"]
  /\ remoteDesc = [c \in Clients |-> "none"]
  /\ offering = [c \in Clients |-> {}]
  /\ answering = [c \in Clients |-> {}]
  /\ ice = 0
  /\ inbox = [c \in Clients |-> << >>]
  /\ room = {}
  /\ joins = [c \in Clients |-> "none"]
  /\ tasks = [c \in Clients |-> [e \in Event |-> 0]]
  /\ stale = FALSE
  /\ thrown = {}
-----------------------------------------------------------------------------
(* The server                                                              *)

\* The handler of "join" counts the sockets of the room...
JoinCount(c) ==
  /\ joins[c] = "spawned"
  /\ joins' = [joins EXCEPT ![c] = CASE room = {} -> "counted0"
                                     [] Cardinality(room) = 1 -> "counted1"
                                     [] OTHER -> "counted2"]
  /\ UNCHANGED <<pageVars, descVars, contVars, inbox, room, tasks, stale,
                 thrown>>

\* Mutant: a third socket is let in.
AdmitsThree(c) ==
  CASE joins[c] = "counted0" -> "room_created"
    [] joins[c] \in {"counted1", "counted2"} -> "room_joined"

\* ... and decides by that count.
Verdict(c) ==
  CASE joins[c] = "counted0" -> "room_created"
    [] joins[c] = "counted1" -> "room_joined"
    [] joins[c] = "counted2" -> "full_room"

CountWas(c) == CASE joins[c] = "counted0" -> 0
                 [] joins[c] = "counted1" -> 1
                 [] joins[c] = "counted2" -> 2

Counted == {"counted0", "counted1", "counted2"}

\* A socket that is gone is in no room for those who count.
JoinAdd(c) ==
  /\ joins[c] \in Counted /\ Verdict(c) # "full_room"
  /\ joins' = [joins EXCEPT ![c] = Verdict(c)]
  /\ room' = IF page[c] = "closed" THEN room ELSE room \cup {c}
  /\ stale' = (stale \/ CountWas(c) # Cardinality(room))
  /\ UNCHANGED <<pageVars, descVars, contVars, inbox, tasks, thrown>>

\* The socket is told after it joined, or instead of it.
JoinTell(c) ==
  /\ \E notice \in Notice :
       /\ \/ joins[c] = notice
          \/ joins[c] \in Counted /\ Verdict(c) = "full_room" /\ notice = "full_room"
       /\ inbox' = IF page[c] = "closed" THEN inbox
                   ELSE [inbox EXCEPT ![c] = Append(@, notice)]
  /\ joins' = [joins EXCEPT ![c] = "done"]
  /\ UNCHANGED <<pageVars, descVars, contVars, room, tasks, stale, thrown>>

\* The handlers of the other events: to the room, without the sender.
Relay(c, e) ==
  /\ tasks[c][e] > 0
  /\ tasks' = [tasks EXCEPT ![c][e] = @ - 1]
  /\ inbox' = [d \in Clients |-> IF d \in room \ {c} THEN Append(inbox[d], e)
                                 ELSE inbox[d]]
  /\ UNCHANGED <<pageVars, descVars, contVars, serverVars, thrown>>

\* The page is closed: its socket leaves the room.
Leave(c) ==
  /\ c \in MayLeave /\ page[c] = "call"
  /\ page' = [page EXCEPT ![c] = "closed"]
  /\ room' = room \ {c}
  /\ inbox' = [inbox EXCEPT ![c] = << >>]
  /\ offering' = [offering EXCEPT ![c] = {}]
  /\ answering' = [answering EXCEPT ![c] = {}]
  /\ UNCHANGED <<media, creator, told, ice, descVars, joins, tasks, stale,
                 thrown>>
-----------------------------------------------------------------------------
(* The page: helpers                                                       *)

\* socket.emit: the server spawns the task of the event.
Emit(c, e) == tasks' = [tasks EXCEPT ![c][e] = @ + 1]

\* The next event of c is e, and its handler runs.
On(c, e) ==
  /\ page[c] = "call"
  /\ inbox[c] # << >> /\ Head(inbox[c]) = e
  /\ inbox' = [inbox EXCEPT ![c] = Tail(@)]

\* rtcPeerConnection = new RTCPeerConnection(...)
NewConnection(c, remote) ==
  /\ gen' = [gen EXCEPT ![c] = @ + 1]
  /\ localDesc' = [localDesc EXCEPT ![c] = "none"]
  /\ remoteDesc' = [remoteDesc EXCEPT ![c] = remote]

Throw(c, what) == thrown' = thrown \cup {<<c, what>>}

\* addLocalTracks needs localStream.
HasStream(c) == media[c] = "ok"

-----------------------------------------------------------------------------
(* The page: joining                                                       *)

\* The button: joinRoom.
JoinRoom(c) ==
  /\ page[c] = "selecting"
  /\ page' = [page EXCEPT ![c] = "call"]
  /\ joins' = [joins EXCEPT ![c] = "spawned"]
  /\ UNCHANGED <<media, creator, told, ice, descVars, contVars, inbox, room,
                 tasks, stale, thrown>>

OnRoom(c, notice) ==
  /\ On(c, notice)
  /\ told' = [told EXCEPT ![c] = notice]
  /\ media' = [media EXCEPT ![c] = "asking"]
  /\ UNCHANGED <<page, creator, ice, descVars, contVars, serverVars, tasks,
                 thrown>>

OnRoomCreated(c) == OnRoom(c, "room_created")

\* Mutant: the call is started before the stream is there.
OnRoomJoinedNoAwait(c) ==
  /\ On(c, "room_joined")
  /\ told' = [told EXCEPT ![c] = "room_joined"]
  /\ media' = [media EXCEPT ![c] = "asking"]
  /\ Emit(c, "start_call")
  /\ UNCHANGED <<page, creator, ice, descVars, contVars, serverVars, thrown>>

OnRoomJoined(c) == OnRoom(c, "room_joined")

OnFullRoom(c) ==
  /\ On(c, "full_room")
  /\ told' = [told EXCEPT ![c] = "full_room"]
  /\ UNCHANGED <<page, media, creator, ice, descVars, contVars, serverVars,
                 tasks, thrown>>

\* setLocalStream returns, with a stream or without: an error is only logged.
SetLocalStream(c) ==
  /\ page[c] = "call" /\ media[c] = "asking"
  /\ \E result \in {"ok", "failed"} : media' = [media EXCEPT ![c] = result]
  /\ IF told[c] = "room_created"
     THEN creator' = creator \cup {c} /\ UNCHANGED tasks
     ELSE Emit(c, "start_call") /\ UNCHANGED creator
  /\ UNCHANGED <<page, told, ice, descVars, contVars, inbox, serverVars,
                 thrown>>
-----------------------------------------------------------------------------
(* The page: signalling                                                    *)

OnStartCall(c) ==
  /\ On(c, "start_call")
  /\ IF c \notin creator
     THEN UNCHANGED <<descVars, offering, thrown>>
     ELSE /\ NewConnection(c, "none")
          /\ IF HasStream(c)
             THEN /\ offering' = [offering EXCEPT ![c] = @ \cup {gen[c] + 1}]
                  /\ UNCHANGED thrown
             ELSE Throw(c, "stream") /\ UNCHANGED offering
  /\ UNCHANGED <<pageVars, answering, serverVars, tasks>>

\* createOffer: setLocalDescription, unless the connection was replaced, and
\* the offer is emitted.
CreateOffer(c) ==
  /\ \E g \in offering[c] :
       /\ offering' = [offering EXCEPT ![c] = @ \ {g}]
       /\ localDesc' = IF g = gen[c] THEN [localDesc EXCEPT ![c] = "offer"]
                       ELSE localDesc
  /\ Emit(c, "offer")
  /\ UNCHANGED <<pageVars, gen, remoteDesc, answering, inbox, serverVars,
                 thrown>>

OnOffer(c) ==
  /\ On(c, "offer")
  /\ IF c \in creator
     THEN UNCHANGED <<descVars, answering, thrown>>
     ELSE IF HasStream(c)
          THEN /\ NewConnection(c, "offer")
               /\ answering' = [answering EXCEPT ![c] = @ \cup {gen[c] + 1}]
               /\ UNCHANGED thrown
          ELSE /\ NewConnection(c, "none")
               /\ Throw(c, "stream")
               /\ UNCHANGED answering
  /\ UNCHANGED <<pageVars, offering, serverVars, tasks>>

CreateAnswer(c) ==
  /\ \E g \in answering[c] :
       /\ answering' = [answering EXCEPT ![c] = @ \ {g}]
       /\ localDesc' = IF g = gen[c] THEN [localDesc EXCEPT ![c] = "answer"]
                       ELSE localDesc
  /\ Emit(c, "answer")
  /\ UNCHANGED <<pageVars, gen, remoteDesc, offering, inbox, serverVars,
                 thrown>>

\* Mutant: the answer is dropped by a page that already had one connection.
OnAnswerIgnored(c) ==
  /\ On(c, "answer")
  /\ UNCHANGED <<pageVars, descVars, contVars, serverVars, tasks, thrown>>

\* Without a connection, or with one that made no offer, it is refused.
OnAnswer(c) ==
  /\ On(c, "answer")
  /\ IF gen[c] = 0
     THEN Throw(c, "connection") /\ UNCHANGED remoteDesc
     ELSE IF localDesc[c] = "offer" /\ remoteDesc[c] = "none"
     THEN remoteDesc' = [remoteDesc EXCEPT ![c] = "answer"] /\ UNCHANGED thrown
     ELSE Throw(c, "offer") /\ UNCHANGED remoteDesc
  /\ UNCHANGED <<pageVars, gen, localDesc, contVars, serverVars, tasks>>

\* sendIceCandidate: once the connection has its local description.  Late
\* candidates of a connection that was replaced are left out.
SendIceCandidate(c) ==
  /\ page[c] = "call" /\ localDesc[c] # "none" /\ ice < MaxIce
  /\ ice' = ice + 1
  /\ Emit(c, "ice")
  /\ UNCHANGED <<page, media, creator, told, descVars, contVars, inbox,
                 serverVars, thrown>>

\* A candidate is lost by a page that has no connection yet, or one without a
\* remote description.
OnIceCandidate(c) ==
  /\ On(c, "ice")
  /\ IF gen[c] = 0 THEN Throw(c, "connection")
     ELSE IF remoteDesc[c] = "none" THEN Throw(c, "description")
     ELSE UNCHANGED thrown
  /\ UNCHANGED <<pageVars, descVars, contVars, serverVars, tasks>>
-----------------------------------------------------------------------------
Server(c) == \/ JoinCount(c) \/ JoinAdd(c) \/ JoinTell(c)
             \/ \E e \in Event : Relay(c, e)

Page(c) ==
  \/ OnRoomCreated(c) \/ OnRoomJoined(c) \/ OnFullRoom(c) \/ SetLocalStream(c)
  \/ OnStartCall(c) \/ CreateOffer(c) \/ OnOffer(c) \/ CreateAnswer(c)
  \/ OnAnswer(c) \/ OnIceCandidate(c)

Next == \E c \in Clients :
  Server(c) \/ Page(c) \/ JoinRoom(c) \/ SendIceCandidate(c) \/ Leave(c)

Spec == Init /\ [][Next]_vars

\* The tasks of the server and the pages go on; users need not join or leave.
FairSpec == Spec /\ \A c \in Clients : WF_vars(Page(c)) /\ WF_vars(Server(c))
-----------------------------------------------------------------------------
(* Properties                                                              *)

\* Joins did not overlap, and every page that joined is still there.
Calm == ~stale /\ \A c \in Clients : page[c] # "closed"

\* The room has at most two sockets, one of which was told to be its creator,
\* unless two joins overlapped: the count of "join" is not taken again when
\* the socket joins.
RoomOfTwo == ~stale =>
  /\ Cardinality(room) <= 2
  /\ \A c, d \in room : told[c] = "room_created" /\ told[d] = "room_created"
                          => c = d

\* In a calm room no handler misses what it uses, although nothing but the
\* order of the events of two pages provides it: tracks are added after the
\* stream is there, unless there is none to be had, an answer finds the
\* connection that made the offer.  Candidates are the exception: on the server
\* they may overtake the offer, or the answer, that was sent before them.
NothingMissing == Calm =>
  \A t \in thrown :
    \/ t[2] = "stream" /\ media[t[1]] = "failed"
    \/ t[2] = "connection" /\ t[1] \notin creator
    \/ t[2] = "description" /\ (t[1] \in creator \/ media[t[1]] = "failed")

\* Once the creator of a calm room has heard of the other page, and both have
\* their streams, the call is set up on both sides.
Ready(c, d) ==
  /\ c # d /\ {c, d} \subseteq room
  /\ offering[c] # {} /\ HasStream(c) /\ HasStream(d)
SetUp(c, d) ==
  /\ localDesc[c] = "offer" /\ remoteDesc[d] = "offer"
  /\ localDesc[d] = "answer" /\ remoteDesc[c] = "answer"
CallCompletes ==
  (\E c, d \in Clients : Ready(c, d))
    ~> ((\E c, d \in Clients : SetUp(c, d)) \/ ~Calm)

\* Not true: the creator hears of the other page once, and ignores it when its
\* own stream is not there yet (client.js:64).
CallStarts ==
  (\E c, d \in Clients : c # d /\ {c, d} \subseteq room /\ HasStream(c)
                          /\ HasStream(d))
    ~> ((\E c, d \in Clients : SetUp(c, d)) \/ ~Calm)
=============================================================================
