---------------------------- MODULE RtcCallProofs ----------------------------
(***************************************************************************)
(* Proofs about RtcCall, for any number of pages and events: unless joins  *)
(* overlap, the room has at most two sockets, and at most one of them was  *)
(* told to be its creator; and if nobody leaves either, no handler misses  *)
(* what it uses.                                                           *)
(***************************************************************************)
EXTENDS RtcCall, FiniteSetTheorems, TLAPS

-----------------------------------------------------------------------------
(* The inductive invariant                                                 *)

\* The types of what decides about the room, and of who heard of it.
Types ==
  /\ told \in [Clients -> Notice \cup {"nothing"}]
  /\ inbox \in [Clients -> Seq(Event \cup Notice)]
  /\ room \in SUBSET Clients /\ IsFiniteSet(room)
  /\ joins \in [Clients -> {"none", "spawned", "counted0", "counted1",
                            "counted2", "room_created", "room_joined", "done"}]
  /\ stale \in BOOLEAN

\* The page was, or is going to be, told that it created the room.
Created(c) ==
  \/ told[c] = "room_created" \/ joins[c] = "room_created"
  \/ \E i \in 1..Len(inbox[c]) : inbox[c][i] = "room_created"

\* The join of c has not touched the room.
Early(c) == joins[c] \in {"none", "spawned"} \cup Counted

\* A page whose join is early is not in the room, and heard nothing of it.
Untold == \A c \in Clients : Early(c) => c \notin room /\ ~Created(c)

\* What RoomOfTwo says, of all that were or will be told.
OneCreator == ~stale =>
  /\ Cardinality(room) <= 2
  /\ \A c, d \in room : Created(c) /\ Created(d) => c = d

RoomInv == Types /\ Untold /\ OneCreator

\* A page joins once.
Waiting ==
  /\ page \in [Clients -> {"selecting", "call", "closed"}]
  /\ \A c \in Clients : page[c] = "selecting" => joins[c] = "none"

IInv == RoomInv /\ Waiting

USE DEF pageVars, descVars, contVars, serverVars

\* It holds when no page has joined.
LEMMA InitInv == Init => IInv
<1> SUFFICES ASSUME Init PROVE IInv
  OBVIOUS
<1>1. Types
  <2>1. IsFiniteSet({}) /\ <<>> \in Seq(Event \cup Notice)
    BY FS_EmptySet
  <2> QED BY <2>1 DEF Init, Types
<1>2. Untold
  BY DEF Init, Untold, Created
<1>3. OneCreator
  BY FS_EmptySet DEF Init, OneCreator
<1>4. Waiting
  BY DEF Init, Waiting
<1> QED BY <1>1, <1>2, <1>3, <1>4 DEF RoomInv, IInv

\* A step after which nobody is in the room, or told to have created it, who
\* was not before.
LEMMA QuietStep ==
  ASSUME RoomInv, Types', room' \subseteq room, stale' = stale,
         \A c \in Clients : Created(c)' => Created(c),
         \A c \in Clients : Early(c)' => Early(c)
  PROVE  RoomInv'
<1>1. Untold'
  BY DEF RoomInv, Untold
<1>2. Cardinality(room') <= Cardinality(room)
  BY FS_Subset DEF RoomInv, Types
<1>3. Cardinality(room) \in Nat /\ Cardinality(room') \in Nat
  BY FS_CardinalityType DEF RoomInv, Types
<1>4. OneCreator'
  BY <1>2, <1>3 DEF RoomInv, OneCreator, Types
<1> QED BY <1>1, <1>4 DEF RoomInv

\* A handler takes one event, and is told what the event says.
LEMMA HandlerStep ==
  ASSUME RoomInv, NEW c \in Clients, NEW e \in Event \cup Notice, On(c, e),
         UNCHANGED <<room, joins, stale>>,
         told' = told \/ (told' = [told EXCEPT ![c] = e] /\ e \in Notice)
  PROVE  RoomInv'
<1> USE DEF RoomInv, Types
<1>1. inbox[c] # <<>> /\ inbox[c] \in Seq(Event \cup Notice)
  BY DEF On
<1>2. /\ Tail(inbox[c]) \in Seq(Event \cup Notice)
      /\ Len(Tail(inbox[c])) = Len(inbox[c]) - 1
      /\ \A i \in 1..Len(Tail(inbox[c])) : Tail(inbox[c])[i] = inbox[c][i + 1]
      /\ inbox[c][1] = e /\ 1 \in 1..Len(inbox[c])
  BY <1>1 DEF On
<1>3. inbox' = [inbox EXCEPT ![c] = Tail(inbox[c])]
  BY DEF On
<1>4. Types'
  BY <1>2, <1>3
<1>5. ASSUME NEW d \in Clients, Created(d)' PROVE Created(d)
  <2>1. CASE d # c
    BY <1>3, <1>5, <2>1 DEF Created
  <2>2. CASE d = c
    <3>1. CASE told'[c] = "room_created"
      BY <1>2, <2>2, <3>1 DEF Created
    <3>2. CASE joins'[c] = "room_created"
      BY <2>2, <3>2 DEF Created
    <3>3. ASSUME NEW i \in 1..Len(inbox'[c]), inbox'[c][i] = "room_created"
          PROVE  Created(c)
      <4>1. i + 1 \in 1..Len(inbox[c]) /\ inbox[c][i + 1] = "room_created"
        BY <1>1, <1>2, <1>3, <3>3
      <4> QED BY <4>1 DEF Created
    <3> QED BY <1>5, <2>2, <3>1, <3>2, <3>3 DEF Created
  <2> QED BY <2>1, <2>2
<1>6. \A d \in Clients : Early(d)' => Early(d)
  BY DEF Early
<1> QED BY <1>4, <1>5, <1>6, QuietStep

\* A step of a page that handles no event.
LEMMA PageStep ==
  ASSUME RoomInv, UNCHANGED <<told, inbox, room, stale>>,
         joins' = joins \/ \E c \in Clients :
           /\ joins[c] \in {"none", "spawned"}
           /\ \E j \in {"spawned"} \cup Counted :
                joins' = [joins EXCEPT ![c] = j]
  PROVE  RoomInv'
<1> USE DEF RoomInv, Types
<1>1. Types'
  BY DEF Counted
<1>2. \A d \in Clients : Created(d)' => Created(d)
  BY DEF Created, Counted
<1>3. \A d \in Clients : Early(d)' => Early(d)
  BY DEF Early, Counted
<1> QED BY <1>1, <1>2, <1>3, QuietStep

\* The socket joins by a count that is still true, or the history says that it
\* is not.
LEMMA JoinAddStep ==
  ASSUME RoomInv, NEW c \in Clients, JoinAdd(c)
  PROVE  RoomInv'
<1> USE DEF RoomInv, Types, JoinAdd
<1>1. \/ /\ joins[c] = "counted0" /\ CountWas(c) = 0
         /\ joins' = [joins EXCEPT ![c] = "room_created"]
      \/ /\ joins[c] = "counted1" /\ CountWas(c) = 1
         /\ joins' = [joins EXCEPT ![c] = "room_joined"]
  BY DEF Counted, Verdict, CountWas
<1>2. Early(c) /\ c \notin room /\ ~Created(c)
  BY DEF Early, Untold
<1>3. room' \subseteq room \cup {c} /\ IsFiniteSet(room \cup {c})
      /\ Cardinality(room \cup {c}) = Cardinality(room) + 1
      /\ Cardinality(room) \in Nat
  BY <1>2, FS_AddElement, FS_CardinalityType
<1>4. /\ IsFiniteSet(room') /\ Cardinality(room') \in Nat
      /\ Cardinality(room') <= Cardinality(room) + 1
  BY <1>3, FS_Subset, FS_CardinalityType
<1>5. Types'
  BY <1>1, <1>3, <1>4
<1>6. \A d \in Clients \ {c} :
        (Created(d)' <=> Created(d)) /\ (Early(d)' <=> Early(d))
  BY <1>1 DEF Created, Early
<1>7. Untold'
  BY <1>1, <1>3, <1>6 DEF Untold, Early, Counted
<1>8. ASSUME ~stale' PROVE Cardinality(room') <= 2
                    /\ \A a, b \in room' : Created(a)' /\ Created(b)' => a = b
  <2>1. ~stale /\ CountWas(c) = Cardinality(room)
    BY <1>8
  <2>2. CASE joins[c] = "counted0"
    <3>1. room = {}
      BY <1>1, <2>1, <2>2, FS_EmptySet
    <3> QED BY <1>1, <1>3, <1>4, <2>1, <2>2, <3>1
  <2>3. CASE joins[c] = "counted1"
    <3>1. ~Created(c)'
      BY <1>1, <1>2, <2>3 DEF Created
    <3> QED BY <1>1, <1>3, <1>4, <1>6, <2>1, <2>3, <3>1 DEF OneCreator
  <2> QED BY <1>1, <2>2, <2>3
<1> QED BY <1>5, <1>7, <1>8 DEF OneCreator

\* What the socket is told is what its join decided.
LEMMA JoinTellStep ==
  ASSUME RoomInv, NEW c \in Clients, JoinTell(c)
  PROVE  RoomInv'
<1> USE DEF RoomInv, Types, JoinTell
<1>1. PICK n \in Notice :
        /\ joins[c] = n \/ n = "full_room"
        /\ inbox' = IF page[c] = "closed" THEN inbox
                    ELSE [inbox EXCEPT ![c] = Append(@, n)]
  OBVIOUS
<1>2. Types'
  BY <1>1
<1>3. ASSUME NEW d \in Clients, Created(d)' PROVE Created(d)
  <2>1. CASE d # c \/ inbox' = inbox
    BY <1>1, <1>3, <2>1 DEF Created
  <2>2. CASE d = c /\ inbox' # inbox
    <3>1. CASE told'[c] = "room_created" \/ joins'[c] = "room_created"
      BY <2>2, <3>1 DEF Created
    <3>2. ASSUME NEW i \in 1..Len(inbox'[c]), inbox'[c][i] = "room_created"
          PROVE  Created(c)
      <4>1. /\ inbox'[c] = Append(inbox[c], n)
            /\ inbox[c] \in Seq(Event \cup Notice)
        BY <1>1, <2>2
      <4>2. CASE i = Len(inbox[c]) + 1
        BY <1>1, <3>2, <4>1, <4>2 DEF Created
      <4>3. CASE i \in 1..Len(inbox[c])
        BY <3>2, <4>1, <4>3 DEF Created
      <4> QED BY <3>2, <4>1, <4>2, <4>3
    <3> QED BY <1>3, <2>2, <3>1, <3>2 DEF Created
  <2> QED BY <2>1, <2>2
<1>4. \A d \in Clients : Early(d)' => Early(d)
  BY DEF Early, Counted
<1> QED BY <1>2, <1>3, <1>4, QuietStep

\* The other events say nothing about the room.
LEMMA RelayStep ==
  ASSUME RoomInv, NEW c \in Clients, NEW e \in Event, Relay(c, e)
  PROVE  RoomInv'
<1> USE DEF RoomInv, Types, Relay
<1>1. Types'
  OBVIOUS
<1>2. ASSUME NEW d \in Clients, Created(d)' PROVE Created(d)
  <2>1. CASE inbox'[d] = inbox[d]
    BY <1>2, <2>1 DEF Created
  <2>2. CASE inbox'[d] = Append(inbox[d], e)
    <3>1. e # "room_created" /\ inbox[d] \in Seq(Event \cup Notice)
      BY DEF Event
    <3>2. \A i \in 1..Len(inbox'[d]) : inbox'[d][i] = "room_created"
             => i \in 1..Len(inbox[d]) /\ inbox[d][i] = "room_created"
      BY <2>2, <3>1
    <3> QED BY <1>2, <3>2 DEF Created
  <2> QED BY <2>1, <2>2
<1>3. \A d \in Clients : Early(d)' => Early(d)
  BY DEF Early
<1> QED BY <1>1, <1>2, <1>3, QuietStep

\* A page that leaves tells nobody anything.
LEMMA LeaveStep ==
  ASSUME RoomInv, NEW c \in Clients, Leave(c)
  PROVE  RoomInv'
<1> USE DEF RoomInv, Types, Leave
<1>1. Types'
  <2>1. IsFiniteSet(room') /\ room' \in SUBSET Clients
    BY FS_RemoveElement
  <2>2. inbox' \in [Clients -> Seq(Event \cup Notice)]
    <3>1. <<>> \in Seq(Event \cup Notice)
      OBVIOUS
    <3> QED BY <3>1
  <2> QED BY <2>1, <2>2
<1>2. ASSUME NEW d \in Clients, Created(d)' PROVE Created(d)
  <2>1. CASE d = c
    BY <1>2, <2>1 DEF Created
  <2>2. CASE d # c
    BY <1>2, <2>2 DEF Created
  <2> QED BY <2>1, <2>2
<1>3. \A d \in Clients : Early(d)' => Early(d)
  BY DEF Early
<1> QED BY <1>1, <1>2, <1>3, QuietStep

\* Every step keeps the room.
LEMMA RoomNext ==
  ASSUME RoomInv, Waiting, [Next]_vars
  PROVE  RoomInv'
<1>1. ASSUME NEW c \in Clients, Server(c) PROVE RoomInv'
  <2>1. CASE JoinCount(c)
    BY <2>1, PageStep DEF JoinCount, Counted
  <2> QED BY <1>1, <2>1, JoinAddStep, JoinTellStep, RelayStep DEF Server
<1>2. ASSUME NEW c \in Clients, Page(c) PROVE RoomInv'
  <2>1. CASE OnRoomCreated(c) \/ OnRoomJoined(c) \/ OnFullRoom(c)
    BY <2>1, HandlerStep
       DEF OnRoomCreated, OnRoomJoined, OnRoom, OnFullRoom, Notice
  <2>2. CASE OnStartCall(c) \/ OnOffer(c) \/ OnAnswer(c) \/ OnIceCandidate(c)
    <3>1. /\ \E e \in Event : On(c, e)
          /\ UNCHANGED <<room, joins, stale, told>>
      <4>1. CASE OnStartCall(c)
        BY <4>1 DEF OnStartCall, Event
      <4>2. CASE OnOffer(c)
        BY <4>2 DEF OnOffer, Event
      <4>3. CASE OnAnswer(c)
        BY <4>3 DEF OnAnswer, Event
      <4>4. CASE OnIceCandidate(c)
        BY <4>4 DEF OnIceCandidate, Event
      <4> QED BY <2>2, <4>1, <4>2, <4>3, <4>4
    <3>2. PICK e \in Event : On(c, e)
      BY <3>1
    <3>3. e \in Event \cup Notice
      OBVIOUS
    <3>4. told' = told
      BY <3>1
    <3> HIDE DEF serverVars
    <3> QED BY <3>1, <3>2, <3>3, <3>4, HandlerStep
  <2>3. CASE SetLocalStream(c) \/ CreateOffer(c) \/ CreateAnswer(c)
    BY <2>3, PageStep DEF SetLocalStream, CreateOffer, CreateAnswer
  <2> QED BY <1>2, <2>1, <2>2, <2>3 DEF Page
<1>3. ASSUME NEW c \in Clients, JoinRoom(c) PROVE RoomInv'
  <2>1. joins[c] = "none" /\ joins' = [joins EXCEPT ![c] = "spawned"]
    BY <1>3 DEF JoinRoom, Waiting
  <2> QED BY <1>3, <2>1, PageStep DEF JoinRoom
<1>4. ASSUME NEW c \in Clients, SendIceCandidate(c) PROVE RoomInv'
  BY <1>4, PageStep DEF SendIceCandidate
<1>5. CASE UNCHANGED vars
  BY <1>5, PageStep DEF vars
<1> QED BY <1>1, <1>2, <1>3, <1>4, <1>5, LeaveStep DEF Next

\* Only the button ends the selecting of a room.
LEMMA WaitingNext ==
  ASSUME Types, Waiting, [Next]_vars
  PROVE  Waiting'
<1> USE DEF Types, Waiting
<1>1. ASSUME NEW c \in Clients, Server(c) PROVE Waiting'
  <2>1. CASE JoinCount(c)
    BY <2>1 DEF JoinCount
  <2>2. CASE JoinAdd(c)
    BY <2>2 DEF JoinAdd, Counted
  <2>3. CASE JoinTell(c)
    BY <2>3 DEF JoinTell, Counted, Notice
  <2>4. ASSUME NEW e \in Event, Relay(c, e) PROVE Waiting'
    BY <2>4 DEF Relay
  <2> QED BY <1>1, <2>1, <2>2, <2>3, <2>4 DEF Server
<1>2. ASSUME NEW c \in Clients, Page(c) PROVE Waiting'
  <2>1. UNCHANGED <<page, joins>>
    BY <1>2 DEF Page, OnRoomCreated, OnRoomJoined, OnRoom, OnFullRoom,
       SetLocalStream, OnStartCall, CreateOffer, OnOffer, CreateAnswer,
       OnAnswer, OnIceCandidate
  <2> QED BY <2>1
<1>3. ASSUME NEW c \in Clients, JoinRoom(c) PROVE Waiting'
  BY <1>3 DEF JoinRoom
<1>4. ASSUME NEW c \in Clients, SendIceCandidate(c) PROVE Waiting'
  BY <1>4 DEF SendIceCandidate
<1>5. ASSUME NEW c \in Clients, Leave(c) PROVE Waiting'
  BY <1>5 DEF Leave
<1>6. CASE UNCHANGED vars
  BY <1>6 DEF vars
<1> QED BY <1>1, <1>2, <1>3, <1>4, <1>5, <1>6 DEF Next

\* The invariant is inductive.
LEMMA Consecution == IInv /\ [Next]_vars => IInv'
  BY RoomNext, WaitingNext DEF IInv, RoomInv

\* The invariant of the room.
THEOREM Invariance == Spec => []IInv
  BY InitInv, Consecution, PTL DEF Spec

\* The room has at most two sockets and one creator, unless two joins
\* overlapped, for any number of pages, however they come and go.
THEOREM AtMostTwo == Spec => []RoomOfTwo
<1>1. IInv => RoomOfTwo
  BY DEF IInv, RoomInv, OneCreator, RoomOfTwo, Created, Types
<1> QED BY Invariance, <1>1, PTL

-----------------------------------------------------------------------------
(* The call: what the two pages of a calm room have done and will do        *)

\* e is in q; at most one element of q is in T.
In(q, e) == \E i \in 1..Len(q) : q[i] = e
Single(q, T) == \A i, j \in 1..Len(q) : q[i] \in T /\ q[j] \in T => i = j

\* What is in a queue when an event is put at its end...
LEMMA AppendIn ==
  ASSUME NEW S, NEW q \in Seq(S), NEW e \in S
  PROVE  /\ \A f : In(Append(q, e), f) <=> In(q, f) \/ f = e
         /\ \A T : Single(q, T) /\ (e \notin T \/ \A f \in T : ~In(q, f))
                     => Single(Append(q, e), T)
<1> DEFINE r == Append(q, e)
<1>1. /\ Len(r) = Len(q) + 1 /\ Len(q) \in Nat /\ r[Len(q) + 1] = e
      /\ \A i \in 1..Len(q) : r[i] = q[i]
  OBVIOUS
<1> HIDE DEF r
<1>2. 1..Len(r) = 1..Len(q) \cup {Len(q) + 1}
  BY <1>1
<1>3. ASSUME NEW f PROVE In(r, f) <=> In(q, f) \/ f = e
  BY <1>1, <1>2 DEF In
<1>4. ASSUME NEW T, Single(q, T), e \notin T \/ \A f \in T : ~In(q, f)
      PROVE  Single(r, T)
  BY <1>1, <1>2, <1>4 DEF Single, In
<1> QED BY <1>3, <1>4 DEF r

\* ... and when its first event is taken.
LEMMA TailIn ==
  ASSUME NEW S, NEW q \in Seq(S), q # <<>>, NEW e, Head(q) = e
  PROVE  /\ In(q, e)
         /\ \A f : In(Tail(q), f) => In(q, f)
         /\ \A f : f # e /\ In(q, f) => In(Tail(q), f)
         /\ \A T : Single(q, T) => Single(Tail(q), T)
         /\ \A T : e \in T /\ Single(q, T) => \A f \in T : ~In(Tail(q), f)
<1> DEFINE r == Tail(q)
<1>1. /\ Len(r) = Len(q) - 1 /\ Len(q) \in Nat /\ Len(q) > 0 /\ q[1] = e
      /\ \A i \in 1..Len(r) : r[i] = q[i + 1]
  OBVIOUS
<1> HIDE DEF r
<1>2. \A i \in 1..Len(r) : i + 1 \in 1..Len(q) /\ i + 1 # 1 /\ r[i] = q[i + 1]
  BY <1>1
<1>3. \A j \in 1..Len(q) : j # 1 => \E i \in 1..Len(r) : j = i + 1
  <2>1. ASSUME NEW j \in 1..Len(q), j # 1
        PROVE j - 1 \in 1..Len(r) /\ j = (j - 1) + 1
    BY <1>1, <2>1
  <2> QED BY <2>1
<1>4. In(q, e) /\ 1 \in 1..Len(q)
  BY <1>1 DEF In
<1>5. ASSUME NEW f, In(r, f) PROVE In(q, f)
  BY <1>2, <1>5 DEF In
<1>6. ASSUME NEW f, f # e, In(q, f) PROVE In(r, f)
  <2>1. PICK j \in 1..Len(q) : q[j] = f
    BY <1>6 DEF In
  <2>2. PICK i \in 1..Len(r) : j = i + 1
    BY <1>1, <1>3, <1>6, <2>1
  <2>3. r[i] = f
    BY <1>2, <2>1, <2>2
  <2> QED BY <2>3 DEF In
<1>7. ASSUME NEW T, Single(q, T) PROVE Single(r, T)
  BY <1>1, <1>2, <1>7 DEF Single
<1>8. ASSUME NEW T, e \in T, Single(q, T), NEW f \in T PROVE ~In(r, f)
  BY <1>1, <1>2, <1>4, <1>8 DEF Single, In
<1> QED BY <1>4, <1>5, <1>6, <1>7, <1>8 DEF r

\* What the socket of a page was, or is going to be, told.
Noted(c, n) == told[c] = n \/ joins[c] = n \/ In(inbox[c], n)
\* The page that created the room, the one that joined it, and one whose
\* setLocalStream returned.
First(c) == Noted(c, "room_created")
Second(c) == Noted(c, "room_joined")
Streamed(c) == media[c] \in {"ok", "failed"}

\* A page is told one thing, once.
NoticeInv == \A c \in Clients :
  /\ Early(c) \/ joins[c] \in Notice =>
       told[c] = "nothing" /\ \A n \in Notice : ~In(inbox[c], n)
  /\ \A n \in Notice : In(inbox[c], n) => told[c] = "nothing"
  /\ Single(inbox[c], Notice)
  /\ told[c] \in {"nothing", "full_room"} => media[c] = "none"
  /\ c \in creator => Streamed(c) /\ told[c] = "room_created"

\* The sockets of a calm room: one that created it, and one that joined.
Roles ==
  /\ \A c \in Clients : c \in room <=> First(c) \/ Second(c)
  /\ \A c, d \in Clients : First(c) /\ First(d) => c = d
  /\ \A c, d \in Clients : Second(c) /\ Second(d) => c = d
  /\ room # {} => \E c \in Clients : First(c)

\* The call is set up by one thing at a time, in nine steps.
Count(b) == IF b THEN 1 ELSE 0
Pending(b) == IF b THEN {1} ELSE {}

\* Where the call is after k steps, as far as page c can see.
Here(k, c) ==
  /\ tasks[c]["start_call"] = Count(k = 1 /\ Second(c))
  /\ In(inbox[c], "start_call") <=> k = 2 /\ First(c)
  /\ offering[c] = Pending(k = 3 /\ First(c))
  /\ tasks[c]["offer"] = Count(k = 4 /\ First(c))
  /\ In(inbox[c], "offer") <=> k = 5 /\ Second(c)
  /\ answering[c] = Pending(k = 6 /\ Second(c))
  /\ tasks[c]["answer"] = Count(k = 7 /\ Second(c))
  /\ In(inbox[c], "answer") <=> k = 8 /\ First(c)
  /\ \A e \in {"start_call", "offer", "answer"} : Single(inbox[c], {e})

\* After k steps it is there for every page, and the first step is the one of
\* the second page when it has its stream.
Moves(k) ==
  /\ k = 0 <=> ~\E x \in Clients : Second(x) /\ Streamed(x)
  /\ \A c \in Clients : Here(k, c)

\* What the pages have done after k steps.
Done(k) ==
  \A c \in Clients :
    /\ First(c) =>
         /\ k <= 2 => gen[c] = 0
         /\ k <= 3 => localDesc[c] = "none"
         /\ k \in 3..8 => c \in creator /\ gen[c] = 1 /\ remoteDesc[c] = "none"
         /\ k \in 4..8 => localDesc[c] = "offer"
    /\ Second(c) =>
         /\ k <= 5 => gen[c] = 0
         /\ k <= 6 => localDesc[c] = "none"
         /\ k = 6 => gen[c] = 1
         /\ gen[c] > 0 => remoteDesc[c] # "none" \/ media[c] = "failed"

\* A page outside the room has done nothing.
Outside == \A c \in Clients : c \notin room =>
  /\ gen[c] = 0 /\ localDesc[c] = "none"
  /\ \A e \in Event : tasks[c][e] = 0 /\ ~In(inbox[c], e)

\* Candidates come from the second page when the first has its connection.
Candidates == \A y \in Clients : First(y) =>
  /\ In(inbox[y], "ice") => y \in creator /\ gen[y] > 0
  /\ \A x \in Clients :
       Second(x) /\ (localDesc[x] # "none" \/ tasks[x]["ice"] > 0)
         => y \in creator /\ gen[y] > 0

\* What NothingMissing says, by the roles of the pages.
Thrown == \A t \in thrown :
  \/ t[2] = "stream" /\ media[t[1]] = "failed"
  \/ t[2] = "connection" /\ Second(t[1])
  \/ t[2] = "description" /\ (t[1] \in creator \/ media[t[1]] = "failed")

\* The invariant of a calm room.
CallInv ==
  /\ NoticeInv /\ Roles
  /\ \E k \in 0..9 : Moves(k) /\ Done(k)
  /\ Outside /\ Candidates /\ Thrown

\* Nobody is the first and the second.
LEMMA Apart ==
  ASSUME NoticeInv, NEW c \in Clients
  PROVE  ~(First(c) /\ Second(c))
  BY DEF NoticeInv, First, Second, Noted, Single, In, Notice

\* A step that tells no page anything.
Untouched ==
  /\ UNCHANGED <<told, joins, media, creator, room>>
  /\ \A d \in Clients :
       /\ \A n \in Notice : In(inbox'[d], n) <=> In(inbox[d], n)
       /\ Single(inbox'[d], Notice)

\* After such a step the roles are the same.
LEMMA UntouchedStep ==
  ASSUME NoticeInv, Roles, Untouched
  PROVE  /\ NoticeInv' /\ Roles'
         /\ \A c \in Clients : /\ First(c)' <=> First(c)
                               /\ Second(c)' <=> Second(c)
                               /\ Streamed(c)' <=> Streamed(c)
<1>1. \A c \in Clients : /\ First(c)' <=> First(c)
                         /\ Second(c)' <=> Second(c)
                         /\ Streamed(c)' <=> Streamed(c)
                         /\ Early(c)' <=> Early(c)
  BY DEF Untouched, First, Second, Noted, Notice, Streamed, Early
<1>2. NoticeInv'
  BY <1>1 DEF NoticeInv, Untouched
<1>3. Roles'
  BY <1>1 DEF Roles, Untouched
<1> QED BY <1>1, <1>2, <1>3

\* The handler of an event takes it from the inbox, once.
LEMMA OnEvent ==
  ASSUME TypeOK, NoticeInv, NEW c \in Clients, NEW e \in Event, On(c, e)
  PROVE  /\ inbox' \in [Clients -> Seq(Event \cup Notice)]
         /\ \A d \in Clients : d # c => inbox'[d] = inbox[d]
         /\ \A f \in Event \cup Notice :
              /\ In(inbox'[c], f) => In(inbox[c], f)
              /\ f # e => (In(inbox'[c], f) <=> In(inbox[c], f))
              /\ Single(inbox[c], {f}) => Single(inbox'[c], {f})
         /\ In(inbox[c], e)
         /\ Single(inbox[c], {e}) => ~In(inbox'[c], e)
         /\ UNCHANGED <<told, joins, media, creator, room>> => Untouched
<1>1. /\ inbox[c] \in Seq(Event \cup Notice) /\ inbox[c] # <<>>
      /\ Head(inbox[c]) = e /\ inbox' = [inbox EXCEPT ![c] = Tail(inbox[c])]
      /\ inbox \in [Clients -> Seq(Event \cup Notice)]
  BY DEF On, TypeOK
<1>2. inbox' \in [Clients -> Seq(Event \cup Notice)]
      /\ inbox'[c] = Tail(inbox[c])
      /\ \A d \in Clients : d # c => inbox'[d] = inbox[d]
  BY <1>1
<1> DEFINE q == inbox[c]
           r == inbox'[c]
<1>3. /\ In(q, e)
      /\ \A f : In(r, f) => In(q, f)
      /\ \A f : f # e /\ In(q, f) => In(r, f)
      /\ \A T : Single(q, T) => Single(r, T)
      /\ \A T : e \in T /\ Single(q, T) => \A f \in T : ~In(r, f)
  BY <1>1, <1>2, TailIn
<1>4. \A n \in Notice : n # e
  BY DEF Event, Notice
<1> HIDE DEF q, r
<1>5. ASSUME Single(q, {e}) PROVE ~In(r, e)
  <2>1. e \in {e}
    OBVIOUS
  <2> QED BY <1>3, <1>5, <2>1
<1>6. ASSUME NEW d \in Clients
      PROVE  /\ \A n \in Notice : In(inbox'[d], n) <=> In(inbox[d], n)
             /\ Single(inbox'[d], Notice)
  <2>1. CASE d # c
    BY <1>2, <2>1 DEF NoticeInv
  <2>2. CASE d = c
    BY <1>3, <1>4, <2>2 DEF NoticeInv, q, r
  <2> QED BY <2>1, <2>2
<1>7. ASSUME UNCHANGED <<told, joins, media, creator, room>> PROVE Untouched
  BY <1>6, <1>7 DEF Untouched
<1> QED BY <1>2, <1>3, <1>5, <1>7 DEF q, r

\* A relayed event comes last.
LEMMA RelayEvent ==
  ASSUME TypeOK, NoticeInv, NEW c \in Clients, NEW e \in Event, Relay(c, e)
  PROVE  /\ inbox' \in [Clients -> Seq(Event \cup Notice)]
         /\ \A d \in Clients : \A f \in Event :
              /\ In(inbox'[d], f)
                     <=> In(inbox[d], f) \/ (f = e /\ d \in room \ {c})
              /\ Single(inbox[d], {f}) /\ (f # e \/ d \notin room \ {c}
                     \/ ~In(inbox[d], f))
                   => Single(inbox'[d], {f})
         /\ Untouched
<1>1. /\ inbox \in [Clients -> Seq(Event \cup Notice)]
      /\ inbox' = [d \in Clients |-> IF d \in room \ {c}
                                     THEN Append(inbox[d], e)
                                     ELSE inbox[d]]
      /\ UNCHANGED <<told, joins, media, creator, room>>
  BY DEF TypeOK, Relay
<1>2. \A n \in Notice : n # e
  BY DEF Event, Notice
<1>3. ASSUME NEW d \in Clients
      PROVE  /\ inbox'[d] \in Seq(Event \cup Notice)
             /\ \A f \in Event :
                  /\ In(inbox'[d], f)
                         <=> In(inbox[d], f) \/ (f = e /\ d \in room \ {c})
                  /\ Single(inbox[d], {f})
                       /\ (f # e \/ d \notin room \ {c} \/ ~In(inbox[d], f))
                       => Single(inbox'[d], {f})
             /\ \A n \in Notice : In(inbox'[d], n) <=> In(inbox[d], n)
             /\ Single(inbox'[d], Notice)
  <2>1. CASE d \notin room \ {c}
    BY <1>1, <2>1 DEF NoticeInv
  <2>2. CASE d \in room \ {c}
    <3> DEFINE q == inbox[d]
               r == inbox'[d]
    <3>1. q \in Seq(Event \cup Notice) /\ r = Append(q, e)
              /\ e \in Event \cup Notice
      BY <1>1, <2>2
    <3> HIDE DEF q, r
    <3>2. /\ \A f : In(r, f) <=> In(q, f) \/ f = e
          /\ \A T : Single(q, T) /\ (e \notin T \/ \A f \in T : ~In(q, f))
                      => Single(r, T)
      BY <3>1, AppendIn
    <3>3. ASSUME NEW f \in Event, Single(q, {f}), f # e \/ ~In(q, f)
          PROVE  Single(r, {f})
      <4>1. e \notin {f} \/ \A g \in {f} : ~In(q, g)
        BY <3>3
      <4> QED BY <3>2, <3>3, <4>1
    <3>4. Single(r, Notice)
      <4>1. Single(q, Notice)
        BY DEF NoticeInv, q
      <4> QED BY <1>2, <3>2, <4>1
    <3>5. r \in Seq(Event \cup Notice)
      BY <3>1
    <3> QED BY <1>2, <2>2, <3>2, <3>3, <3>4, <3>5 DEF q, r
  <2> QED BY <2>1, <2>2
<1>4. inbox' \in [Clients -> Seq(Event \cup Notice)]
  BY <1>1, <1>3
<1> QED BY <1>1, <1>3, <1>4 DEF Untouched

\* The steps of the signalling.
LEMMA RelayCall ==
  ASSUME TypeOK, CallInv, NEW c \in Clients, NEW e \in Event, Relay(c, e)
  PROVE  CallInv'
<1> USE DEF CallInv
<1>1. /\ \A d \in Clients : \A f \in Event :
           /\ In(inbox'[d], f)
                  <=> In(inbox[d], f) \/ (f = e /\ d \in room \ {c})
           /\ Single(inbox[d], {f}) /\ (f # e \/ d \notin room \ {c}
                  \/ ~In(inbox[d], f))
                => Single(inbox'[d], {f})
      /\ Untouched
  BY RelayEvent
<1>2. /\ NoticeInv' /\ Roles'
      /\ \A d \in Clients : /\ First(d)' <=> First(d)
                            /\ Second(d)' <=> Second(d)
                            /\ Streamed(d)' <=> Streamed(d)
  BY <1>1, UntouchedStep
<1>3. /\ tasks[c][e] > 0 /\ tasks' = [tasks EXCEPT ![c][e] = @ - 1]
      /\ UNCHANGED <<media, creator, told, gen, localDesc, remoteDesc,
                     offering, answering, room, thrown>>
      /\ tasks \in [Clients -> [Event -> Nat]]
  BY DEF Relay, TypeOK
<1>4. /\ \A d \in Clients : \A f \in Event : d # c \/ f # e
             => tasks'[d][f] = tasks[d][f]
      /\ tasks'[c][e] = tasks[c][e] - 1 /\ tasks[c][e] \in Nat
  BY <1>3
<1>5. c \in room
  BY <1>3 DEF Outside
<1>6. PICK k \in 0..9 : Moves(k) /\ Done(k)
  OBVIOUS
<1>7. \A d \in room : d \in Clients /\ (First(d) \/ Second(d))
          /\ ~(First(d) /\ Second(d))
  BY Apart DEF TypeOK, Roles
<1>8. \E j \in 0..9 : Moves(j)' /\ Done(j)'
  <2>1. CASE e = "start_call"
    <3>1. k = 1 /\ Second(c)
      BY <1>3, <1>6, <2>1 DEF Moves, Here, Count
    <3>2. \A d \in Clients : d \in room \ {c} <=> First(d)
      BY <1>5, <1>7, <3>1 DEF Roles
    <3>3. Moves(2)'
      <4>1. ASSUME NEW d \in Clients PROVE Here(2, d)'
        BY <1>1, <1>2, <1>3, <1>4, <1>6, <2>1, <3>1, <3>2, <4>1
           DEF Moves, Here, Count, Pending, Event, Roles
      <4> QED BY <1>2, <1>6, <3>1, <4>1 DEF Moves
    <3>4. Done(2)'
      BY <1>2, <1>3, <1>6, <3>1 DEF Done
    <3> QED BY <3>3, <3>4
  <2>2. CASE e = "offer"
    <3>1. k = 4 /\ First(c)
      BY <1>3, <1>6, <2>2 DEF Moves, Here, Count
    <3>2. \A d \in Clients : d \in room \ {c} <=> Second(d)
      BY <1>5, <1>7, <3>1 DEF Roles
    <3>3. Moves(5)'
      <4>1. ASSUME NEW d \in Clients PROVE Here(5, d)'
        BY <1>1, <1>2, <1>3, <1>4, <1>6, <2>2, <3>1, <3>2, <4>1
           DEF Moves, Here, Count, Pending, Event, Roles
      <4> QED BY <1>2, <1>6, <3>1, <4>1 DEF Moves
    <3>4. Done(5)'
      BY <1>2, <1>3, <1>6, <3>1 DEF Done
    <3> QED BY <3>3, <3>4
  <2>3. CASE e = "answer"
    <3>1. k = 7 /\ Second(c)
      BY <1>3, <1>6, <2>3 DEF Moves, Here, Count
    <3>2. \A d \in Clients : d \in room \ {c} <=> First(d)
      BY <1>5, <1>7, <3>1 DEF Roles
    <3>3. Moves(8)'
      <4>1. ASSUME NEW d \in Clients PROVE Here(8, d)'
        BY <1>1, <1>2, <1>3, <1>4, <1>6, <2>3, <3>1, <3>2, <4>1
           DEF Moves, Here, Count, Pending, Event, Roles
      <4> QED BY <1>2, <1>6, <3>1, <4>1 DEF Moves
    <3>4. Done(8)'
      BY <1>2, <1>3, <1>6, <3>1 DEF Done
    <3> QED BY <3>3, <3>4
  <2>4. CASE e = "ice"
    <3>1. Moves(k)'
      <4>1. ASSUME NEW d \in Clients PROVE Here(k, d)'
        BY <1>1, <1>2, <1>3, <1>4, <1>6, <2>4, <4>1 DEF Moves, Here, Event
      <4> QED BY <1>2, <1>6, <4>1 DEF Moves
    <3>2. Done(k)'
      BY <1>2, <1>3, <1>6 DEF Done
    <3> QED BY <3>1, <3>2
  <2> QED BY <2>1, <2>2, <2>3, <2>4 DEF Event
<1>9. Outside'
  BY <1>1, <1>3, <1>4, <1>5 DEF Outside
<1>10. Candidates'
  <2>1. ASSUME NEW y \in Clients, First(y)', In(inbox'[y], "ice")
        PROVE  y \in creator' /\ gen'[y] > 0
    <3>1. CASE In(inbox[y], "ice")
      BY <1>2, <1>3, <2>1, <3>1 DEF Candidates
    <3>2. CASE e = "ice" /\ y \in room \ {c}
      <4>1. First(y) /\ Second(c)
        BY <1>2, <1>5, <1>7, <2>1, <3>2 DEF Roles
      <4> QED BY <1>3, <3>2, <4>1 DEF Candidates
    <3> QED BY <1>1, <2>1, <3>1, <3>2 DEF Event
  <2>2. ASSUME NEW y \in Clients, First(y)', NEW x \in Clients, Second(x)',
               localDesc'[x] # "none" \/ tasks'[x]["ice"] > 0
        PROVE  y \in creator' /\ gen'[y] > 0
    <3>1. tasks'[x]["ice"] > 0 => tasks[x]["ice"] > 0
      BY <1>4 DEF Event
    <3> QED BY <1>2, <1>3, <2>2, <3>1 DEF Candidates
  <2> QED BY <2>1, <2>2 DEF Candidates
<1>11. Thrown'
  BY <1>2, <1>3 DEF Thrown, TypeOK
<1> QED BY <1>2, <1>8, <1>9, <1>10, <1>11

\* What follows from the event a page handles.
LEMMA OnFacts ==
  ASSUME TypeOK, CallInv, NEW c \in Clients, NEW e \in Event, On(c, e),
         UNCHANGED <<told, joins, media, creator, room>>
  PROVE  /\ NoticeInv' /\ Roles'
         /\ \A d \in Clients : /\ First(d)' <=> First(d)
                               /\ Second(d)' <=> Second(d)
                               /\ Streamed(d)' <=> Streamed(d)
         /\ \A d \in Clients : d # c => inbox'[d] = inbox[d]
         /\ \A f \in Event : /\ In(inbox'[c], f) => In(inbox[c], f)
                             /\ f # e => (In(inbox'[c], f) <=> In(inbox[c], f))
                             /\ Single(inbox[c], {f}) => Single(inbox'[c], {f})
         /\ In(inbox[c], e)
         /\ Single(inbox[c], {e}) => ~In(inbox'[c], e)
         /\ c \in room /\ c \in Clients
         /\ First(c) \/ Second(c)
         /\ ~(First(c) /\ Second(c))
<1>1. Untouched /\ In(inbox[c], e)
  BY OnEvent DEF CallInv
<1>2. c \in room
  BY <1>1 DEF CallInv, Outside
<1> QED BY <1>1, <1>2, OnEvent, UntouchedStep, Apart DEF CallInv, Roles

\* Step 3: the first page hears of the second, and makes its connection.
LEMMA StartCallStep ==
  ASSUME TypeOK, CallInv, NEW c \in Clients, OnStartCall(c)
  PROVE  CallInv'
<1> USE DEF CallInv
<1>1. /\ On(c, "start_call") /\ "start_call" \in Event
      /\ UNCHANGED <<told, joins, media, creator, room, answering, tasks>>
  BY DEF OnStartCall, Event
<1>2. /\ NoticeInv' /\ Roles'
      /\ \A d \in Clients : /\ First(d)' <=> First(d)
                            /\ Second(d)' <=> Second(d)
                            /\ Streamed(d)' <=> Streamed(d)
      /\ \A d \in Clients : d # c => inbox'[d] = inbox[d]
      /\ \A f \in Event : /\ In(inbox'[c], f) => In(inbox[c], f)
                          /\ f # "start_call" =>
                               (In(inbox'[c], f) <=> In(inbox[c], f))
                          /\ Single(inbox[c], {f}) => Single(inbox'[c], {f})
      /\ In(inbox[c], "start_call")
      /\ Single(inbox[c], {"start_call"}) => ~In(inbox'[c], "start_call")
      /\ c \in room /\ ~(First(c) /\ Second(c))
  BY <1>1, OnFacts
<1>3. PICK k \in 0..9 : Moves(k) /\ Done(k)
  OBVIOUS
<1>4. k = 2 /\ First(c)
  BY <1>2, <1>3 DEF Moves, Here
<1>5. \A d \in Clients : First(d) => d = c
  BY <1>4 DEF Roles
<1>6. /\ gen \in [Clients -> Nat]
      /\ localDesc \in [Clients -> {"none", "offer", "answer"}]
      /\ remoteDesc \in [Clients -> {"none", "offer", "answer"}]
      /\ offering \in [Clients -> SUBSET Nat]
  BY DEF TypeOK
<1>7. gen[c] = 0 /\ offering[c] = {}
  BY <1>3, <1>4 DEF Moves, Here, Done, Pending
<1>8. Outside'
  BY <1>1, <1>2, <1>6 DEF OnStartCall, Outside, NewConnection
<1>9. ~In(inbox'[c], "ice")
  BY <1>2, <1>4, <1>7 DEF Candidates, Event
<1>10. \A x \in Clients : Second(x)
           => localDesc[x] = "none" /\ ~(tasks[x]["ice"] > 0)
  BY <1>4, <1>7 DEF Candidates
<1>11. \A x \in Clients : Second(x) => x # c
  BY <1>2, <1>4
<1>12. Candidates'
  BY <1>1, <1>2, <1>5, <1>6, <1>9, <1>10, <1>11
     DEF OnStartCall, Candidates, NewConnection
<1>13. CASE c \notin creator
  <2>1. UNCHANGED <<gen, localDesc, remoteDesc, offering, thrown>>
    BY <1>13 DEF OnStartCall
  <2>2. Moves(9)'
    <3>1. ASSUME NEW d \in Clients PROVE Here(9, d)'
      BY <1>1, <1>2, <1>3, <1>4, <1>5, <2>1 DEF Moves, Here, Event, Count,
          Pending
    <3> QED BY <1>2, <1>3, <1>4, <3>1 DEF Moves
  <2>3. Done(9)'
    BY <1>1, <1>2, <1>3, <1>4, <2>1 DEF Done
  <2>4. Thrown'
    BY <1>1, <1>2, <2>1 DEF Thrown, TypeOK
  <2> QED BY <1>2, <1>8, <1>12, <2>2, <2>3, <2>4
<1>14. CASE c \in creator /\ HasStream(c)
  <2>1. /\ gen' = [gen EXCEPT ![c] = @ + 1]
        /\ localDesc' = [localDesc EXCEPT ![c] = "none"]
        /\ remoteDesc' = [remoteDesc EXCEPT ![c] = "none"]
        /\ offering' = [offering EXCEPT ![c] = @ \cup {gen[c] + 1}]
        /\ UNCHANGED thrown
    BY <1>14 DEF OnStartCall, NewConnection
  <2>2. gen'[c] = 1 /\ offering'[c] = {1} /\ localDesc'[c] = "none"
        /\ remoteDesc'[c] = "none"
    BY <1>6, <1>7, <2>1
  <2>3. \A d \in Clients : d # c =>
          /\ gen'[d] = gen[d] /\ offering'[d] = offering[d]
          /\ localDesc'[d] = localDesc[d] /\ remoteDesc'[d] = remoteDesc[d]
    BY <1>6, <2>1
  <2>4. Moves(3)'
    <3>1. ASSUME NEW d \in Clients PROVE Here(3, d)'
      <4>1. CASE d = c
        <5>1. offering'[d] = Pending(3 = 3 /\ First(d)')
          BY <1>2, <1>4, <2>2, <4>1, Zenon DEF Pending
        <5> QED BY <1>1, <1>2, <1>3, <1>4, <4>1, <5>1
               DEF Moves, Here, Event, Count
      <4>2. CASE d # c
        BY <1>1, <1>2, <1>3, <1>4, <1>5, <2>3, <4>2
           DEF Moves, Here, Event, Count, Pending
      <4> QED BY <4>1, <4>2
    <3> QED BY <1>2, <1>3, <1>4, <3>1 DEF Moves
  <2>5. Done(3)'
    BY <1>1, <1>2, <1>3, <1>4, <1>5, <1>11, <1>14, <2>2, <2>3 DEF Done
  <2>6. Thrown'
    BY <1>1, <1>2, <2>1 DEF Thrown, TypeOK
  <2> QED BY <1>2, <1>8, <1>12, <2>4, <2>5, <2>6
<1>15. CASE c \in creator /\ ~HasStream(c)
  <2>1. /\ gen' = [gen EXCEPT ![c] = @ + 1]
        /\ localDesc' = [localDesc EXCEPT ![c] = "none"]
        /\ remoteDesc' = [remoteDesc EXCEPT ![c] = "none"]
        /\ thrown' = thrown \cup {<<c, "stream">>}
        /\ UNCHANGED offering
    BY <1>15 DEF OnStartCall, NewConnection, Throw
  <2>2. \A d \in Clients : d # c =>
          gen'[d] = gen[d] /\ localDesc'[d] = localDesc[d]
            /\ remoteDesc'[d] = remoteDesc[d]
    BY <1>6, <2>1
  <2>3. Moves(9)'
    <3>1. ASSUME NEW d \in Clients PROVE Here(9, d)'
      BY <1>1, <1>2, <1>3, <1>4, <1>5, <2>1 DEF Moves, Here, Event, Count,
          Pending
    <3> QED BY <1>2, <1>3, <1>4, <3>1 DEF Moves
  <2>4. Done(9)'
    BY <1>1, <1>2, <1>3, <1>4, <1>11, <2>2 DEF Done
  <2>5. media[c] = "failed"
    BY <1>15 DEF NoticeInv, Streamed, HasStream
  <2>6. Thrown'
    BY <1>1, <1>2, <2>1, <2>5 DEF Thrown, TypeOK
  <2> QED BY <1>2, <1>8, <1>12, <2>3, <2>4, <2>6
<1> QED BY <1>13, <1>14, <1>15

\* Step 4: it sends its offer.
LEMMA CreateOfferStep ==
  ASSUME TypeOK, CallInv, NEW c \in Clients, CreateOffer(c)
  PROVE  CallInv'
<1> USE DEF CallInv
<1>1. PICK g \in offering[c] :
        /\ offering' = [offering EXCEPT ![c] = @ \ {g}]
        /\ localDesc' = IF g = gen[c] THEN [localDesc EXCEPT ![c] = "offer"]
                        ELSE localDesc
  BY DEF CreateOffer
<1>2. /\ tasks' = [tasks EXCEPT ![c]["offer"] = @ + 1]
      /\ UNCHANGED <<told, joins, media, creator, room, answering, gen,
                     remoteDesc, inbox, thrown>>
  BY DEF CreateOffer, Emit
<1>3. /\ NoticeInv' /\ Roles'
      /\ \A d \in Clients : /\ First(d)' <=> First(d)
                            /\ Second(d)' <=> Second(d)
                            /\ Streamed(d)' <=> Streamed(d)
  <2>1. Untouched
    BY <1>2 DEF Untouched, NoticeInv
  <2> QED BY <2>1, UntouchedStep
<1>4. PICK k \in 0..9 : Moves(k) /\ Done(k)
  OBVIOUS
<1>5. k = 3 /\ First(c) /\ offering[c] = {1} /\ g = 1 /\ gen[c] = 1
  BY <1>1, <1>4 DEF Moves, Here, Done, Pending
<1>6. /\ localDesc \in [Clients -> {"none", "offer", "answer"}]
      /\ offering \in [Clients -> SUBSET Nat]
             /\ tasks \in [Clients -> [Event -> Nat]]
  BY DEF TypeOK
<1>7. /\ offering'[c] = {} /\ localDesc'[c] = "offer"
      /\ \A d \in Clients : d # c =>
           offering'[d] = offering[d] /\ localDesc'[d] = localDesc[d]
  BY <1>1, <1>5, <1>6
<1>8. /\ tasks'[c]["offer"] = tasks[c]["offer"] + 1
      /\ \A d \in Clients : \A f \in Event :
           d # c \/ f # "offer" => tasks'[d][f] = tasks[d][f]
  BY <1>2, <1>6 DEF Event
<1>9. \A d \in Clients : First(d) => d = c
  BY <1>5 DEF Roles
<1>10. c \in room /\ ~Second(c)
  BY <1>5, Apart DEF Roles
<1>11. Moves(4)'
  <2>1. ASSUME NEW d \in Clients PROVE Here(4, d)'
    BY <1>2, <1>3, <1>4, <1>5, <1>7, <1>8, <1>9
       DEF Moves, Here, Event, Count, Pending
  <2> QED BY <1>3, <1>4, <1>5, <2>1 DEF Moves
<1>12. Done(4)'
  BY <1>2, <1>3, <1>4, <1>5, <1>7, <1>9, <1>10 DEF Done
<1>13. Outside'
  BY <1>2, <1>7, <1>8, <1>10 DEF Outside
<1>14. Candidates'
  BY <1>2, <1>3, <1>7, <1>8, <1>10 DEF Candidates, Event
<1>15. Thrown'
  BY <1>2, <1>3 DEF Thrown, TypeOK
<1> QED BY <1>3, <1>11, <1>12, <1>13, <1>14, <1>15

\* Step 6: the second page gets the offer, and makes its connection.
LEMMA OfferStep ==
  ASSUME TypeOK, CallInv, NEW c \in Clients, OnOffer(c)
  PROVE  CallInv'
<1> USE DEF CallInv
<1>1. /\ On(c, "offer") /\ "offer" \in Event
      /\ UNCHANGED <<told, joins, media, creator, room, offering, tasks>>
  BY DEF OnOffer, Event
<1>2. /\ NoticeInv' /\ Roles'
      /\ \A d \in Clients : /\ First(d)' <=> First(d)
                            /\ Second(d)' <=> Second(d)
                            /\ Streamed(d)' <=> Streamed(d)
      /\ \A d \in Clients : d # c => inbox'[d] = inbox[d]
      /\ \A f \in Event : /\ In(inbox'[c], f) => In(inbox[c], f)
                          /\ f # "offer" => (In(inbox'[c], f)
                                 <=> In(inbox[c], f))
                          /\ Single(inbox[c], {f}) => Single(inbox'[c], {f})
      /\ In(inbox[c], "offer")
      /\ Single(inbox[c], {"offer"}) => ~In(inbox'[c], "offer")
      /\ c \in room /\ ~(First(c) /\ Second(c))
  BY <1>1, OnFacts
<1>3. PICK k \in 0..9 : Moves(k) /\ Done(k)
  OBVIOUS
<1>4. k = 5 /\ Second(c) /\ c \notin creator
  BY <1>2, <1>3 DEF Moves, Here, NoticeInv, First, Noted
<1>5. \A d \in Clients : Second(d) => d = c
  BY <1>4 DEF Roles
<1>6. /\ gen \in [Clients -> Nat]
      /\ localDesc \in [Clients -> {"none", "offer", "answer"}]
      /\ remoteDesc \in [Clients -> {"none", "offer", "answer"}]
      /\ answering \in [Clients -> SUBSET Nat]
  BY DEF TypeOK
<1>7. gen[c] = 0 /\ answering[c] = {} /\ Streamed(c)
  BY <1>3, <1>4, <1>5 DEF Moves, Here, Done, Pending
<1>8. /\ gen' = [gen EXCEPT ![c] = @ + 1]
      /\ localDesc' = [localDesc EXCEPT ![c] = "none"]
      /\ remoteDesc' = [remoteDesc EXCEPT
                          ![c] = IF HasStream(c) THEN "offer" ELSE "none"]
      /\ IF HasStream(c)
         THEN /\ answering' = [answering EXCEPT ![c] = @ \cup {gen[c] + 1}]
              /\ UNCHANGED thrown
         ELSE thrown' = thrown \cup {<<c, "stream">>} /\ UNCHANGED answering
  BY <1>4 DEF OnOffer, NewConnection, Throw
<1>9. /\ gen'[c] = 1 /\ localDesc'[c] = "none"
      /\ \A d \in Clients : d # c =>
           /\ gen'[d] = gen[d] /\ answering'[d] = answering[d]
           /\ localDesc'[d] = localDesc[d] /\ remoteDesc'[d] = remoteDesc[d]
  BY <1>6, <1>7, <1>8
<1>10. Outside'
  BY <1>1, <1>2, <1>9 DEF Outside
<1>11. Candidates'
  BY <1>1, <1>2, <1>4, <1>9 DEF Candidates, Event
<1>12. CASE HasStream(c)
  <2>1. answering'[c] = {1} /\ remoteDesc'[c] = "offer"
    BY <1>6, <1>7, <1>8, <1>12
  <2>2. Moves(6)'
    <3>1. ASSUME NEW d \in Clients PROVE Here(6, d)'
      <4>1. CASE d = c
        <5>1. answering'[d] = Pending(6 = 6 /\ Second(d)')
          BY <1>2, <1>4, <2>1, <4>1, Zenon DEF Pending
        <5> QED BY <1>1, <1>2, <1>3, <1>4, <4>1, <5>1
               DEF Moves, Here, Event, Count
      <4>2. CASE d # c
        BY <1>1, <1>2, <1>3, <1>4, <1>5, <1>9, <4>2
           DEF Moves, Here, Event, Count, Pending
      <4> QED BY <4>1, <4>2
    <3> QED BY <1>2, <1>3, <1>4, <3>1 DEF Moves
  <2>3. Done(6)'
    BY <1>1, <1>2, <1>3, <1>4, <1>5, <1>9, <2>1 DEF Done
  <2>4. Thrown'
    BY <1>1, <1>2, <1>8, <1>12 DEF Thrown, TypeOK
  <2> QED BY <1>2, <1>10, <1>11, <2>2, <2>3, <2>4
<1>13. CASE ~HasStream(c)
  <2>1. answering'[c] = {} /\ media[c] = "failed"
    BY <1>7, <1>8, <1>13 DEF HasStream, Streamed
  <2>2. Moves(9)'
    <3>1. ASSUME NEW d \in Clients PROVE Here(9, d)'
      BY <1>1, <1>2, <1>3, <1>4, <1>5, <1>9, <2>1
         DEF Moves, Here, Event, Count, Pending
    <3> QED BY <1>2, <1>3, <1>4, <3>1 DEF Moves
  <2>3. Done(9)'
    BY <1>1, <1>2, <1>3, <1>4, <1>5, <1>9, <2>1 DEF Done
  <2>4. Thrown'
    BY <1>1, <1>2, <1>8, <1>13, <2>1 DEF Thrown, TypeOK
  <2> QED BY <1>2, <1>10, <1>11, <2>2, <2>3, <2>4
<1> QED BY <1>12, <1>13

\* Step 7: it sends its answer.
LEMMA CreateAnswerStep ==
  ASSUME TypeOK, CallInv, NEW c \in Clients, CreateAnswer(c)
  PROVE  CallInv'
<1> USE DEF CallInv
<1>1. PICK g \in answering[c] :
        /\ answering' = [answering EXCEPT ![c] = @ \ {g}]
        /\ localDesc' = IF g = gen[c] THEN [localDesc EXCEPT ![c] = "answer"]
                        ELSE localDesc
  BY DEF CreateAnswer
<1>2. /\ tasks' = [tasks EXCEPT ![c]["answer"] = @ + 1]
      /\ UNCHANGED <<told, joins, media, creator, room, offering, gen,
                     remoteDesc, inbox, thrown>>
  BY DEF CreateAnswer, Emit
<1>3. /\ NoticeInv' /\ Roles'
      /\ \A d \in Clients : /\ First(d)' <=> First(d)
                            /\ Second(d)' <=> Second(d)
                            /\ Streamed(d)' <=> Streamed(d)
  <2>1. Untouched
    BY <1>2 DEF Untouched, NoticeInv
  <2> QED BY <2>1, UntouchedStep
<1>4. PICK k \in 0..9 : Moves(k) /\ Done(k)
  OBVIOUS
<1>5. k = 6 /\ Second(c) /\ answering[c] = {1} /\ g = 1 /\ gen[c] = 1
  BY <1>1, <1>4 DEF Moves, Here, Done, Pending
<1>6. /\ localDesc \in [Clients -> {"none", "offer", "answer"}]
      /\ answering \in [Clients -> SUBSET Nat]
             /\ tasks \in [Clients -> [Event -> Nat]]
  BY DEF TypeOK
<1>7. /\ answering'[c] = {} /\ localDesc'[c] = "answer"
      /\ \A d \in Clients : d # c =>
           answering'[d] = answering[d] /\ localDesc'[d] = localDesc[d]
  BY <1>1, <1>5, <1>6
<1>8. /\ tasks'[c]["answer"] = tasks[c]["answer"] + 1
      /\ \A d \in Clients : \A f \in Event :
           d # c \/ f # "answer" => tasks'[d][f] = tasks[d][f]
  BY <1>2, <1>6 DEF Event
<1>9. \A d \in Clients : Second(d) => d = c
  BY <1>5 DEF Roles
<1>10. c \in room /\ ~First(c)
  BY <1>5, Apart DEF Roles
<1>11. Moves(7)'
  <2>1. ASSUME NEW d \in Clients PROVE Here(7, d)'
    BY <1>2, <1>3, <1>4, <1>5, <1>7, <1>8, <1>9
       DEF Moves, Here, Event, Count, Pending
  <2> QED BY <1>3, <1>4, <1>5, <2>1 DEF Moves
<1>12. Done(7)'
  BY <1>2, <1>3, <1>4, <1>5, <1>7, <1>9, <1>10 DEF Done
<1>13. Outside'
  BY <1>2, <1>7, <1>8, <1>10 DEF Outside
<1>14. Candidates'
  <2>1. \A y \in Clients : First(y) => y \in creator /\ gen[y] > 0
    BY <1>4, <1>5 DEF Done
  <2> QED BY <1>2, <1>3, <2>1 DEF Candidates
<1>15. Thrown'
  BY <1>2, <1>3 DEF Thrown, TypeOK
<1> QED BY <1>3, <1>11, <1>12, <1>13, <1>14, <1>15

\* Step 9: the answer finds the connection that made the offer.
LEMMA AnswerStep ==
  ASSUME TypeOK, CallInv, NEW c \in Clients, OnAnswer(c)
  PROVE  CallInv'
<1> USE DEF CallInv
<1>1. /\ On(c, "answer") /\ "answer" \in Event
      /\ UNCHANGED <<told, joins, media, creator, room, gen, localDesc,
                     offering, answering, tasks>>
  BY DEF OnAnswer, Event
<1>2. /\ NoticeInv' /\ Roles'
      /\ \A d \in Clients : /\ First(d)' <=> First(d)
                            /\ Second(d)' <=> Second(d)
                            /\ Streamed(d)' <=> Streamed(d)
      /\ \A d \in Clients : d # c => inbox'[d] = inbox[d]
      /\ \A f \in Event : /\ In(inbox'[c], f) => In(inbox[c], f)
                          /\ f # "answer" => (In(inbox'[c], f)
                                 <=> In(inbox[c], f))
                          /\ Single(inbox[c], {f}) => Single(inbox'[c], {f})
      /\ In(inbox[c], "answer")
      /\ Single(inbox[c], {"answer"}) => ~In(inbox'[c], "answer")
      /\ c \in room /\ ~(First(c) /\ Second(c))
  BY <1>1, OnFacts
<1>3. PICK k \in 0..9 : Moves(k) /\ Done(k)
  OBVIOUS
<1>4. k = 8 /\ First(c) /\ gen[c] = 1 /\ localDesc[c] = "offer"
      /\ remoteDesc[c] = "none"
  BY <1>2, <1>3 DEF Moves, Here, Done
<1>5. /\ remoteDesc' = [remoteDesc EXCEPT ![c] = "answer"]
      /\ UNCHANGED thrown
  BY <1>4 DEF OnAnswer
<1>6. \A d \in Clients : First(d) => d = c
  BY <1>4 DEF Roles
<1>7. \A d \in Clients : d # c => remoteDesc'[d] = remoteDesc[d]
  BY <1>5 DEF TypeOK
<1>8. Moves(9)'
  <2>1. ASSUME NEW d \in Clients PROVE Here(9, d)'
    BY <1>1, <1>2, <1>3, <1>4, <1>6 DEF Moves, Here, Event, Count, Pending
  <2> QED BY <1>2, <1>3, <1>4, <2>1 DEF Moves
<1>9. Done(9)'
  BY <1>1, <1>2, <1>3, <1>4, <1>7 DEF Done
<1>10. Outside'
  BY <1>1, <1>2 DEF Outside
<1>11. Candidates'
  BY <1>1, <1>2 DEF Candidates, Event
<1>12. Thrown'
  BY <1>1, <1>2, <1>5 DEF Thrown, TypeOK
<1> QED BY <1>2, <1>8, <1>9, <1>10, <1>11, <1>12

\* A candidate may come too early for the second page, and for the first only
\* between its connection and the answer.
LEMMA IceStep ==
  ASSUME TypeOK, CallInv, NEW c \in Clients, OnIceCandidate(c)
  PROVE  CallInv'
<1> USE DEF CallInv
<1>1. /\ On(c, "ice") /\ "ice" \in Event
      /\ UNCHANGED <<told, joins, media, creator, room, gen, localDesc,
                     remoteDesc, offering, answering, tasks>>
  BY DEF OnIceCandidate, Event
<1>2. /\ NoticeInv' /\ Roles'
      /\ \A d \in Clients : /\ First(d)' <=> First(d)
                            /\ Second(d)' <=> Second(d)
                            /\ Streamed(d)' <=> Streamed(d)
      /\ \A d \in Clients : d # c => inbox'[d] = inbox[d]
      /\ \A f \in Event : /\ In(inbox'[c], f) => In(inbox[c], f)
                          /\ f # "ice" => (In(inbox'[c], f)
                                 <=> In(inbox[c], f))
                          /\ Single(inbox[c], {f}) => Single(inbox'[c], {f})
      /\ In(inbox[c], "ice")
      /\ c \in room /\ (First(c) \/ Second(c))
  BY <1>1, OnFacts
<1>3. PICK k \in 0..9 : Moves(k) /\ Done(k)
  OBVIOUS
<1>4. Moves(k)'
  <2>1. ASSUME NEW d \in Clients PROVE Here(k, d)'
    BY <1>1, <1>2, <1>3 DEF Moves, Here, Event
  <2> QED BY <1>2, <1>3, <2>1 DEF Moves
<1>5. Done(k)'
  BY <1>1, <1>2, <1>3 DEF Done
<1>6. Outside'
  BY <1>1, <1>2 DEF Outside
<1>7. Candidates'
  BY <1>1, <1>2 DEF Candidates, Event
<1>8. Thrown'
  <2>1. \A t \in thrown : \/ t[2] = "stream" /\ media'[t[1]] = "failed"
                          \/ t[2] = "connection" /\ Second(t[1])'
                          \/ t[2] = "description"
                               /\ (t[1] \in creator'
                                      \/ media'[t[1]] = "failed")
    BY <1>1, <1>2 DEF Thrown, TypeOK
  <2>2. CASE gen[c] = 0
    <3>1. Second(c)' /\ thrown' = thrown \cup {<<c, "connection">>}
      BY <1>2, <2>2 DEF OnIceCandidate, Throw, Candidates
    <3> QED BY <2>1, <3>1 DEF Thrown
  <2>3. CASE gen[c] # 0 /\ remoteDesc[c] = "none"
    <3>1. thrown' = thrown \cup {<<c, "description">>}
      BY <2>3 DEF OnIceCandidate, Throw
    <3>2. c \in creator' \/ media'[c] = "failed"
      <4>1. gen[c] > 0
        BY <2>3 DEF TypeOK
      <4> QED BY <1>1, <1>2, <1>3, <2>3, <4>1 DEF Candidates, Done
    <3> QED BY <2>1, <3>1, <3>2 DEF Thrown
  <2>4. CASE gen[c] # 0 /\ remoteDesc[c] # "none"
    <3>1. thrown' = thrown
      BY <2>4 DEF OnIceCandidate
    <3> QED BY <2>1, <3>1 DEF Thrown
  <2> QED BY <2>2, <2>3, <2>4
<1> QED BY <1>2, <1>4, <1>5, <1>6, <1>7, <1>8

\* A candidate is sent by a page whose connection has its description.
LEMMA SendIceStep ==
  ASSUME TypeOK, CallInv, NEW c \in Clients, SendIceCandidate(c)
  PROVE  CallInv'
<1> USE DEF CallInv
<1>1. /\ tasks' = [tasks EXCEPT ![c]["ice"] = @ + 1] /\ localDesc[c] # "none"
      /\ UNCHANGED <<told, joins, media, creator, room, offering, answering,
                     gen, localDesc, remoteDesc, inbox, thrown>>
  BY DEF SendIceCandidate, Emit
<1>2. /\ NoticeInv' /\ Roles'
      /\ \A d \in Clients : /\ First(d)' <=> First(d)
                            /\ Second(d)' <=> Second(d)
                            /\ Streamed(d)' <=> Streamed(d)
  <2>1. Untouched
    BY <1>1 DEF Untouched, NoticeInv
  <2> QED BY <2>1, UntouchedStep
<1>3. PICK k \in 0..9 : Moves(k) /\ Done(k)
  OBVIOUS
<1>4. tasks \in [Clients -> [Event -> Nat]]
  BY DEF TypeOK
<1>5. \A d \in Clients : \A f \in Event :
        d # c \/ f # "ice" => tasks'[d][f] = tasks[d][f]
  BY <1>1, <1>4
<1>6. Moves(k)'
  <2>1. ASSUME NEW d \in Clients PROVE Here(k, d)'
    BY <1>1, <1>2, <1>3, <1>5 DEF Moves, Here, Event
  <2> QED BY <1>2, <1>3, <2>1 DEF Moves
<1>7. Done(k)'
  BY <1>1, <1>2, <1>3 DEF Done
<1>8. Outside'
  BY <1>1, <1>5 DEF Outside
<1>9. Candidates'
  BY <1>1, <1>2, <1>5 DEF Candidates, Event
<1>10. Thrown'
  BY <1>1, <1>2 DEF Thrown, TypeOK
<1> QED BY <1>2, <1>3, <1>6, <1>7, <1>8, <1>9, <1>10

\* A page is told what its join decided, and asks for its stream.
LEMMA ToldStep ==
  ASSUME TypeOK, CallInv, NEW c \in Clients, NEW n \in Notice, On(c, n),
         told' = [told EXCEPT ![c] = n],
         \/ n = "full_room" /\ media' = media
         \/ n # "full_room" /\ media' = [media EXCEPT ![c] = "asking"],
         UNCHANGED <<creator, gen, localDesc, remoteDesc, offering, answering,
                     room, joins, tasks, thrown>>
  PROVE  CallInv'
<1> USE DEF CallInv
<1> DEFINE q == inbox[c]
           r == inbox'[c]
<1>1. /\ q \in Seq(Event \cup Notice) /\ q # <<>> /\ Head(q) = n
      /\ inbox' = [inbox EXCEPT ![c] = Tail(q)] /\ r = Tail(q)
      /\ \A d \in Clients : d # c => inbox'[d] = inbox[d]
  BY DEF On, TypeOK
<1>2. Single(q, Notice)
  BY DEF NoticeInv
<1> HIDE DEF q, r
<1>3. /\ In(q, n)
      /\ \A f : In(r, f) => In(q, f)
      /\ \A f : f # n /\ In(q, f) => In(r, f)
      /\ \A T : Single(q, T) => Single(r, T)
      /\ \A T : n \in T /\ Single(q, T) => \A f \in T : ~In(r, f)
  BY <1>1, TailIn
<1>4. /\ \A m \in Notice : ~In(r, m) /\ Single(r, Notice)
      /\ \A m \in Notice : In(q, m) => m = n
      /\ \A f \in Event : In(r, f) <=> In(q, f)
      /\ \A f \in Event : Single(q, {f}) => Single(r, {f})
  <2>1. \A m \in Notice : ~In(r, m) /\ Single(r, Notice)
    BY <1>2, <1>3
  <2>2. \A f \in Event : f # n
    BY DEF Event, Notice
  <2> QED BY <1>3, <2>1, <2>2
<1>5. /\ told[c] = "nothing" /\ media[c] = "none" /\ c \notin creator
      /\ ~Early(c) /\ joins[c] \notin Notice
  BY <1>3 DEF NoticeInv, q
<1>6. /\ told'[c] = n /\ \A d \in Clients : d # c => told'[d] = told[d]
      /\ media'[c] \in {"none", "asking"} /\ (n = "full_room"
             => media'[c] = "none")
      /\ \A d \in Clients : d # c => media'[d] = media[d]
  BY <1>5 DEF TypeOK
<1>7. \A d \in Clients : /\ First(d)' <=> First(d)
                         /\ Second(d)' <=> Second(d)
                         /\ Streamed(d)' <=> Streamed(d)
                         /\ Early(d)' <=> Early(d)
  <2>1. ASSUME NEW d \in Clients, d # c
        PROVE  /\ First(d)' <=> First(d)
               /\ Second(d)' <=> Second(d)
               /\ Streamed(d)' <=> Streamed(d)
               /\ Early(d)' <=> Early(d)
    BY <1>1, <1>6, <2>1 DEF First, Second, Noted, Streamed, Early
  <2>2. ASSUME NEW m \in Notice PROVE Noted(c, m)' <=> Noted(c, m)
    BY <1>3, <1>4, <1>5, <1>6 DEF Noted, q, r, Notice
  <2>3. (Streamed(c)' <=> Streamed(c)) /\ (Early(c)' <=> Early(c))
    BY <1>5, <1>6 DEF Streamed, Early
  <2>4. (First(c)' <=> First(c)) /\ (Second(c)' <=> Second(c))
    BY <2>2 DEF First, Second, Notice
  <2> QED BY <2>1, <2>3, <2>4
<1>8. NoticeInv'
  <2>1. ASSUME NEW d \in Clients, d # c
        PROVE  /\ Early(d)' \/ joins'[d] \in Notice =>
                    told'[d] = "nothing" /\ \A m \in Notice : ~In(inbox'[d], m)
               /\ \A m \in Notice : In(inbox'[d], m) => told'[d] = "nothing"
               /\ Single(inbox'[d], Notice)
               /\ told'[d] \in {"nothing", "full_room"} => media'[d] = "none"
               /\ d \in creator' => Streamed(d)' /\ told'[d] = "room_created"
    BY <1>1, <1>6, <1>7, <2>1 DEF NoticeInv
  <2>2. /\ Early(c)' \/ joins'[c] \in Notice =>
             told'[c] = "nothing" /\ \A m \in Notice : ~In(inbox'[c], m)
        /\ \A m \in Notice : In(inbox'[c], m) => told'[c] = "nothing"
        /\ Single(inbox'[c], Notice)
        /\ told'[c] \in {"nothing", "full_room"} => media'[c] = "none"
        /\ c \in creator' => Streamed(c)' /\ told'[c] = "room_created"
    <3>1. Single(r, Notice) /\ n # "nothing"
      BY <1>2, <1>3 DEF Notice
    <3> QED BY <1>4, <1>5, <1>6, <1>7, <3>1 DEF r
  <2> QED BY <2>1, <2>2 DEF NoticeInv
<1>9. Roles'
  BY <1>7 DEF Roles
<1>10. PICK k \in 0..9 : Moves(k) /\ Done(k)
  OBVIOUS
<1>11. /\ \A d \in Clients : \A f \in Event :
            /\ In(inbox'[d], f) <=> In(inbox[d], f)
            /\ Single(inbox[d], {f}) => Single(inbox'[d], {f})
  BY <1>1, <1>4 DEF q, r
<1>12. Moves(k)'
  <2>1. ASSUME NEW d \in Clients PROVE Here(k, d)'
    BY <1>7, <1>10, <1>11 DEF Moves, Here, Event
  <2> QED BY <1>7, <1>10, <2>1 DEF Moves
<1>13. Done(k)'
  BY <1>5, <1>6, <1>7, <1>10 DEF Done
<1>14. Outside'
  BY <1>11 DEF Outside
<1>15. Candidates'
  BY <1>7, <1>11 DEF Candidates, Event
<1>16. Thrown'
  BY <1>5, <1>6, <1>7 DEF Thrown, TypeOK
<1> QED BY <1>8, <1>9, <1>10, <1>12, <1>13, <1>14, <1>15, <1>16

\* The stream is there, or there is none to be had: the first page is ready, or
\* the second starts the call.
LEMMA StreamStep ==
  ASSUME TypeOK, CallInv, NEW c \in Clients, SetLocalStream(c)
  PROVE  CallInv'
<1> USE DEF CallInv
<1>1. /\ media[c] = "asking" /\ told[c] \notin {"nothing", "full_room"}
      /\ told[c] \in {"room_created", "room_joined"}
      /\ ~Streamed(c) /\ c \notin creator
  BY DEF SetLocalStream, NoticeInv, Streamed, TypeOK, Notice
<1>2. /\ media'[c] \in {"ok", "failed"}
      /\ \A d \in Clients : d # c => media'[d] = media[d]
      /\ UNCHANGED <<told, joins, room, inbox, gen, localDesc, remoteDesc,
                     offering, answering, thrown>>
  BY DEF SetLocalStream, TypeOK
<1>3. \A d \in Clients : /\ First(d)' <=> First(d)
                         /\ Second(d)' <=> Second(d)
                         /\ d # c => (Streamed(d)' <=> Streamed(d))
                         /\ Early(d)' <=> Early(d)
  BY <1>2 DEF First, Second, Noted, Streamed, Early
<1>4. Streamed(c)'
  BY <1>2 DEF Streamed
<1>5. Roles'
  BY <1>2, <1>3 DEF Roles
<1>6. PICK k \in 0..9 : Moves(k) /\ Done(k)
  OBVIOUS
<1>7. Thrown' /\ \A d \in Clients : media[d] = "failed" => media'[d] = "failed"
  <2>1. creator \subseteq creator'
    BY DEF SetLocalStream
  <2>2. \A d : media[d] = "failed" => media'[d] = "failed"
    BY <1>1, <1>2 DEF SetLocalStream, TypeOK
  <2>3. \A t \in thrown : t[1] \in Clients
    BY DEF TypeOK
  <2> QED BY <1>2, <1>3, <2>1, <2>2, <2>3 DEF Thrown
<1>8. CASE told[c] = "room_created"
  <2>1. creator' = creator \cup {c} /\ tasks' = tasks
    BY <1>8 DEF SetLocalStream
  <2>2. First(c) /\ ~Second(c)
    BY <1>8, Apart DEF First, Noted
  <2>3. NoticeInv'
    BY <1>1, <1>2, <1>3, <1>4, <1>8, <2>1 DEF NoticeInv
  <2>4. Moves(k)'
    <3>1. ASSUME NEW d \in Clients PROVE Here(k, d)'
      BY <1>2, <1>3, <1>6, <2>1 DEF Moves, Here
    <3>2. \A x \in Clients :
            Second(x)' /\ Streamed(x)' <=> Second(x) /\ Streamed(x)
      BY <1>3, <2>2
    <3> QED BY <1>6, <3>1, <3>2 DEF Moves
  <2>5. Done(k)'
    BY <1>2, <1>3, <1>6, <1>7, <2>1 DEF Done
  <2>6. Outside' /\ Candidates'
    BY <1>2, <1>3, <2>1 DEF Outside, Candidates
  <2> QED BY <1>5, <1>6, <1>7, <2>3, <2>4, <2>5, <2>6
<1>9. CASE told[c] = "room_joined"
  <2>1. creator' = creator
            /\ tasks' = [tasks EXCEPT ![c]["start_call"] = @ + 1]
    BY <1>9 DEF SetLocalStream, Emit
  <2>2. Second(c) /\ ~First(c) /\ c \in room
    BY <1>9, Apart DEF Second, Noted, Roles
  <2>3. \A d \in Clients : Second(d) => d = c
    BY <2>2 DEF Roles
  <2>4. k = 0
    BY <1>1, <1>6, <2>3 DEF Moves
  <2>5. /\ tasks'[c]["start_call"] = tasks[c]["start_call"] + 1
        /\ \A d \in Clients : \A f \in Event :
             d # c \/ f # "start_call" => tasks'[d][f] = tasks[d][f]
    <3>1. tasks \in [Clients -> [Event -> Nat]] /\ "start_call" \in Event
      BY DEF TypeOK, Event
    <3> QED BY <2>1, <3>1
  <2>6. NoticeInv'
    BY <1>1, <1>2, <1>3, <1>4, <1>9, <2>1 DEF NoticeInv
  <2>7. Moves(1)'
    <3>1. ASSUME NEW d \in Clients PROVE Here(1, d)'
      BY <1>2, <1>3, <1>6, <2>2, <2>3, <2>4, <2>5
         DEF Moves, Here, Event, Count, Pending
    <3> QED BY <1>3, <1>4, <2>2, <3>1 DEF Moves
  <2>8. Done(1)'
    BY <1>2, <1>3, <1>6, <1>7, <2>1, <2>4 DEF Done
  <2>9. Outside'
    BY <1>2, <2>2, <2>5 DEF Outside
  <2>10. Candidates'
    BY <1>2, <1>3, <2>1, <2>5 DEF Candidates, Event
  <2> QED BY <1>5, <1>7, <2>6, <2>7, <2>8, <2>9, <2>10
<1> QED BY <1>1, <1>8, <1>9

\* A join that has not touched the room goes on.
LEMMA EarlyStep ==
  ASSUME TypeOK, CallInv, NEW c \in Clients, Early(c),
         NEW j \in {"spawned"} \cup Counted, joins' = [joins EXCEPT ![c] = j],
         UNCHANGED <<told, media, creator, gen, localDesc, remoteDesc,
                     offering, answering, inbox, room, tasks, thrown>>
  PROVE  CallInv'
<1> USE DEF CallInv
<1>1. \A d \in Clients : /\ First(d)' <=> First(d)
                         /\ Second(d)' <=> Second(d)
                         /\ Streamed(d)' <=> Streamed(d)
                         /\ Early(d)' <=> Early(d)
                         /\ joins'[d] \in Notice => joins[d] \in Notice
  BY DEF TypeOK, First, Second, Noted, Streamed, Early, Counted, Notice
<1>2. NoticeInv'
  BY <1>1 DEF NoticeInv
<1>3. Roles'
  BY <1>1 DEF Roles
<1>4. PICK k \in 0..9 : Moves(k) /\ Done(k)
  OBVIOUS
<1>5. Moves(k)'
  BY <1>1, <1>4 DEF Moves, Here
<1>6. Done(k)'
  BY <1>1, <1>4 DEF Done
<1>7. Outside' /\ Candidates'
  BY <1>1 DEF Outside, Candidates
<1>8. Thrown'
  BY <1>1 DEF Thrown, TypeOK
<1> QED BY <1>2, <1>3, <1>4, <1>5, <1>6, <1>7, <1>8

\* The socket is told what its join decided: nothing new about the room.
LEMMA TellStep ==
  ASSUME TypeOK, CallInv, NEW c \in Clients, page[c] # "closed", JoinTell(c)
  PROVE  CallInv'
<1> USE DEF CallInv
<1> DEFINE q == inbox[c]
           r == inbox'[c]
<1>1. PICK n \in Notice :
        /\ joins[c] = n \/ (joins[c] \in Counted /\ n = "full_room")
        /\ inbox' = [inbox EXCEPT ![c] = Append(@, n)]
  BY DEF JoinTell
<1>2. /\ joins' = [joins EXCEPT ![c] = "done"]
      /\ UNCHANGED <<told, media, creator, gen, localDesc, remoteDesc,
                     offering, answering, room, tasks, thrown>>
  BY DEF JoinTell
<1>3. /\ q \in Seq(Event \cup Notice) /\ r = Append(q, n)
      /\ n \in Event \cup Notice
      /\ \A d \in Clients : d # c => inbox'[d] = inbox[d]
      /\ joins'[c] = "done" /\ \A d \in Clients : d # c => joins'[d] = joins[d]
  BY <1>1, <1>2 DEF TypeOK
<1>4. Early(c) \/ joins[c] \in Notice
  BY <1>1 DEF Early
<1>5. told[c] = "nothing" /\ \A m \in Notice : ~In(q, m)
  BY <1>4 DEF NoticeInv
<1>6. Single(q, Notice)
  BY DEF NoticeInv
<1> HIDE DEF q, r
<1>7. /\ \A f : In(r, f) <=> In(q, f) \/ f = n
      /\ \A T : Single(q, T) /\ (n \notin T \/ \A f \in T : ~In(q, f))
                  => Single(r, T)
  BY <1>3, AppendIn
<1>8. /\ Single(r, Notice)
      /\ \A m \in Notice : In(r, m) <=> m = n
      /\ \A f \in Event : In(r, f) <=> In(q, f)
      /\ \A f \in Event : Single(q, {f}) => Single(r, {f})
  <2>1. \A f \in Event : f # n
    BY DEF Event, Notice
  <2>2. \A f \in Event : Single(q, {f}) => Single(r, {f})
    <3>1. \A f \in Event : n \notin {f}
      BY <2>1
    <3> QED BY <1>7, <3>1
  <2> QED BY <1>5, <1>6, <1>7, <2>1, <2>2
<1>9. \A d \in Clients : /\ First(d)' <=> First(d)
                         /\ Second(d)' <=> Second(d)
                         /\ Streamed(d)' <=> Streamed(d)
                         /\ Early(d)' => Early(d)
  <2>1. ASSUME NEW d \in Clients, d # c
        PROVE  /\ First(d)' <=> First(d)
               /\ Second(d)' <=> Second(d)
               /\ Streamed(d)' <=> Streamed(d)
               /\ Early(d)' => Early(d)
    BY <1>2, <1>3, <2>1 DEF First, Second, Noted, Streamed, Early
  <2>2. ASSUME NEW m \in {"room_created", "room_joined"}
        PROVE  Noted(c, m)' <=> Noted(c, m)
    <3>1. joins[c] = m <=> m = n
      BY <1>1 DEF Counted
    <3>2. m \in Notice /\ joins'[c] # m /\ told[c] # m
      BY <1>3, <1>5 DEF Notice
    <3> QED BY <1>2, <1>5, <1>8, <3>1, <3>2 DEF Noted, q, r
  <2>3. (Streamed(c)' <=> Streamed(c)) /\ ~Early(c)'
    BY <1>2, <1>3 DEF Streamed, Early, Counted
  <2>4. (First(c)' <=> First(c)) /\ (Second(c)' <=> Second(c))
    BY <2>2 DEF First, Second
  <2> QED BY <2>1, <2>3, <2>4
<1>10. NoticeInv'
  <2>1. ASSUME NEW d \in Clients, d # c
        PROVE  /\ Early(d)' \/ joins'[d] \in Notice =>
                    told'[d] = "nothing" /\ \A m \in Notice : ~In(inbox'[d], m)
               /\ \A m \in Notice : In(inbox'[d], m) => told'[d] = "nothing"
               /\ Single(inbox'[d], Notice)
               /\ told'[d] \in {"nothing", "full_room"} => media'[d] = "none"
               /\ d \in creator' => Streamed(d)' /\ told'[d] = "room_created"
    BY <1>2, <1>3, <1>9, <2>1 DEF NoticeInv
  <2>2. ~Early(c)' /\ joins'[c] \notin Notice
    BY <1>3 DEF Early, Counted, Notice
  <2>3. /\ \A m \in Notice : In(inbox'[c], m) => told'[c] = "nothing"
        /\ Single(inbox'[c], Notice)
        /\ told'[c] \in {"nothing", "full_room"} => media'[c] = "none"
        /\ c \in creator' => Streamed(c)' /\ told'[c] = "room_created"
    BY <1>2, <1>5, <1>8, <1>9 DEF NoticeInv, r
  <2> QED BY <2>1, <2>2, <2>3 DEF NoticeInv
<1>11. Roles'
  BY <1>2, <1>9 DEF Roles
<1>12. \A d \in Clients : \A f \in Event :
         /\ In(inbox'[d], f) <=> In(inbox[d], f)
         /\ Single(inbox[d], {f}) => Single(inbox'[d], {f})
  BY <1>3, <1>8 DEF q, r
<1>13. PICK k \in 0..9 : Moves(k) /\ Done(k)
  OBVIOUS
<1>14. Moves(k)'
  <2>1. ASSUME NEW d \in Clients PROVE Here(k, d)'
    BY <1>2, <1>9, <1>12, <1>13 DEF Moves, Here, Event
  <2> QED BY <1>9, <1>13, <2>1 DEF Moves
<1>15. Done(k)'
  BY <1>2, <1>9, <1>13 DEF Done
<1>16. Outside'
  BY <1>2, <1>12 DEF Outside
<1>17. Candidates'
  BY <1>2, <1>9, <1>12 DEF Candidates, Event
<1>18. Thrown'
  BY <1>2, <1>9 DEF Thrown, TypeOK
<1> QED BY <1>10, <1>11, <1>13, <1>14, <1>15, <1>16, <1>17, <1>18

\* The socket joins by a count that is still true: as the first, or as the
\* second when the first is there.
LEMMA AddStep ==
  ASSUME TypeOK, CallInv, IsFiniteSet(room), NEW c \in Clients,
         page[c] # "closed", ~stale', JoinAdd(c)
  PROVE  CallInv'
<1> USE DEF CallInv
<1>1. /\ joins' = [joins EXCEPT ![c] = Verdict(c)] /\ room' = room \cup {c}
      /\ UNCHANGED <<told, media, creator, gen, localDesc, remoteDesc,
                     offering, answering, inbox, tasks, thrown>>
      /\ Cardinality(room) = CountWas(c)
  BY DEF JoinAdd
<1>2. \/ /\ joins[c] = "counted0" /\ Verdict(c) = "room_created"
         /\ Cardinality(room) = 0
      \/ /\ joins[c] = "counted1" /\ Verdict(c) = "room_joined"
         /\ Cardinality(room) = 1
  BY <1>1 DEF JoinAdd, Counted, Verdict, CountWas
<1>3. /\ joins'[c] = Verdict(c)
      /\ \A d \in Clients : d # c => joins'[d] = joins[d]
  BY <1>1 DEF TypeOK
<1>4. Early(c) /\ ~Early(c)'
  BY <1>2, <1>3 DEF Early, Counted
<1>5. /\ told[c] = "nothing" /\ media[c] = "none" /\ c \notin creator
      /\ \A n \in Notice : ~In(inbox[c], n)
  BY <1>4 DEF NoticeInv, Streamed
<1>6. /\ ~First(c) /\ ~Second(c) /\ c \notin room
      /\ First(c)' <=> joins[c] = "counted0"
      /\ Second(c)' <=> joins[c] = "counted1"
  BY <1>1, <1>2, <1>3, <1>5 DEF First, Second, Noted, Notice, Roles
<1>7. \A d \in Clients : d # c => /\ First(d)' <=> First(d)
                                  /\ Second(d)' <=> Second(d)
                                  /\ Early(d)' <=> Early(d)
  BY <1>1, <1>3 DEF First, Second, Noted, Early
<1>8. \A d \in Clients : Streamed(d)' <=> Streamed(d)
  BY <1>1 DEF Streamed
<1>9. \A d \in Clients : ~Second(d)
  <2>1. CASE Cardinality(room) = 0
    <3>1. room = {}
      BY <2>1, FS_EmptySet
    <3> QED BY <3>1 DEF Roles
  <2>2. CASE Cardinality(room) = 1
    <3>1. \E x : room = {x}
      BY <2>2, FS_Singleton
    <3>2. PICK y \in Clients : First(y) /\ room = {y}
      BY <3>1 DEF Roles
    <3> QED BY <3>2, Apart DEF Roles
  <2> QED BY <1>2, <2>1, <2>2
<1>10. joins[c] = "counted0" => \A d \in Clients : ~First(d)
  <2>1. ASSUME Cardinality(room) = 0 PROVE room = {}
    BY <2>1, FS_EmptySet
  <2> QED BY <1>2, <2>1 DEF Roles
<1>11. joins[c] = "counted1" => \E d \in Clients : First(d)
  <2>1. ASSUME Cardinality(room) = 1 PROVE room # {}
    BY <2>1, FS_EmptySet
  <2> QED BY <1>2, <2>1 DEF Roles
<1>12. NoticeInv'
  <2>1. ASSUME NEW d \in Clients, d # c
        PROVE  /\ Early(d)' \/ joins'[d] \in Notice =>
                    told'[d] = "nothing" /\ \A m \in Notice : ~In(inbox'[d], m)
               /\ \A m \in Notice : In(inbox'[d], m) => told'[d] = "nothing"
               /\ Single(inbox'[d], Notice)
               /\ told'[d] \in {"nothing", "full_room"} => media'[d] = "none"
               /\ d \in creator' => Streamed(d)' /\ told'[d] = "room_created"
    BY <1>1, <1>3, <1>7, <1>8, <2>1 DEF NoticeInv
  <2>2. /\ told'[c] = "nothing" /\ media'[c] = "none" /\ c \notin creator'
        /\ \A m \in Notice : ~In(inbox'[c], m)
        /\ Single(inbox'[c], Notice)
    BY <1>1, <1>5 DEF NoticeInv
  <2> QED BY <2>1, <2>2 DEF NoticeInv
<1>13. Roles'
  <2>1. \A d \in Clients : d \in room' <=> First(d)' \/ Second(d)'
    BY <1>1, <1>2, <1>6, <1>7 DEF Roles
  <2>2. \A d, e \in Clients : First(d)' /\ First(e)' => d = e
    BY <1>6, <1>7, <1>10 DEF Roles
  <2>3. \A d, e \in Clients : Second(d)' /\ Second(e)' => d = e
    BY <1>6, <1>7, <1>9
  <2>4. \E d \in Clients : First(d)'
    BY <1>2, <1>6, <1>7, <1>11
  <2> QED BY <2>1, <2>2, <2>3, <2>4 DEF Roles
<1>14. PICK k \in 0..9 : Moves(k) /\ Done(k)
  OBVIOUS
<1>15. k = 0
  BY <1>9, <1>14 DEF Moves
<1>16. /\ gen[c] = 0 /\ localDesc[c] = "none"
       /\ \A e \in Event : tasks[c][e] = 0 /\ ~In(inbox[c], e)
  BY <1>6 DEF Outside
<1>17. Moves(0)'
  <2>1. ASSUME NEW d \in Clients PROVE Here(0, d)'
    BY <1>1, <1>14, <1>15 DEF Moves, Here, Count, Pending
  <2>2. ~\E x \in Clients : Second(x)' /\ Streamed(x)'
    BY <1>5, <1>7, <1>8, <1>9 DEF Streamed
  <2> QED BY <2>1, <2>2 DEF Moves
<1>18. Done(0)'
  <2>1. ASSUME NEW d \in Clients, First(d)'
        PROVE gen'[d] = 0 /\ localDesc'[d] = "none"
    BY <1>1, <1>7, <1>14, <1>15, <1>16, <2>1 DEF Done
  <2>2. ASSUME NEW d \in Clients, Second(d)'
        PROVE gen'[d] = 0 /\ localDesc'[d] = "none"
    BY <1>1, <1>7, <1>9, <1>16, <2>2
  <2> QED BY <2>1, <2>2 DEF Done
<1>19. Outside'
  BY <1>1 DEF Outside
<1>20. Candidates'
  <2>1. ASSUME NEW y \in Clients, First(y)', In(inbox'[y], "ice")
        PROVE  y \in creator' /\ gen'[y] > 0
    BY <1>1, <1>7, <1>16, <2>1 DEF Candidates, Event
  <2>2. ASSUME NEW x \in Clients, Second(x)'
        PROVE  localDesc'[x] = "none" /\ tasks'[x]["ice"] = 0
    BY <1>1, <1>7, <1>9, <1>16, <2>2 DEF Event
  <2>3. ASSUME NEW x \in Clients, Second(x)'
        PROVE  ~(localDesc'[x] # "none" \/ tasks'[x]["ice"] > 0)
    BY <2>2, <2>3
  <2> QED BY <2>1, <2>3 DEF Candidates
<1>21. Thrown'
  BY <1>1, <1>9 DEF Thrown, TypeOK
<1> QED BY <1>12, <1>13, <1>17, <1>18, <1>19, <1>20, <1>21

-----------------------------------------------------------------------------
(* The types                                                               *)

\* The handler of an event leaves a sequence of events.
LEMMA OnType ==
  ASSUME TypeOK, NEW c \in Clients, NEW e, On(c, e)
  PROVE  inbox' \in [Clients -> Seq(Event \cup Notice)]
<1>1. inbox[c] \in Seq(Event \cup Notice) /\ inbox[c] # <<>>
  BY DEF TypeOK, On
<1>2. Tail(inbox[c]) \in Seq(Event \cup Notice)
  BY <1>1
<1> QED BY <1>2 DEF TypeOK, On

\* An emitted event is one more task.
LEMMA EmitType ==
  ASSUME TypeOK, NEW c \in Clients, NEW e \in Event, Emit(c, e)
  PROVE  tasks' \in [Clients -> [Event -> Nat]]
  BY DEF TypeOK, Emit

\* A new connection.
LEMMA ConnectionType ==
  ASSUME TypeOK, NEW c \in Clients, NEW remote \in {"none", "offer"},
         NewConnection(c, remote)
  PROVE  /\ gen' \in [Clients -> Nat]
         /\ localDesc' \in [Clients -> {"none", "offer", "answer"}]
         /\ remoteDesc' \in [Clients -> {"none", "offer", "answer"}]
  BY DEF TypeOK, NewConnection

\* An exception.
LEMMA ThrowType ==
  ASSUME TypeOK, NEW c \in Clients,
         NEW what \in {"stream", "connection", "offer", "description"},
         Throw(c, what)
  PROVE  thrown' \subseteq Clients \X {"stream", "connection", "offer",
                                      "description"}
  BY DEF TypeOK, Throw

\* The tasks of the server keep the types.
LEMMA ServerType ==
  ASSUME TypeOK, NEW c \in Clients, Server(c)
  PROVE  TypeOK'
<1>1. CASE JoinCount(c)
  BY <1>1 DEF TypeOK, JoinCount
<1>2. CASE JoinAdd(c)
  <2>1. Verdict(c) \in {"room_created", "room_joined"}
    BY <1>2 DEF JoinAdd, Verdict, Counted
  <2>2. room' \subseteq Clients
    BY <1>2 DEF JoinAdd, TypeOK
  <2>3. joins' = [joins EXCEPT ![c] = Verdict(c)]
    BY <1>2 DEF JoinAdd
  <2>4. stale' \in BOOLEAN
    BY <1>2 DEF JoinAdd, TypeOK
  <2>5. UNCHANGED <<pageVars, descVars, contVars, inbox, tasks, thrown>>
    BY <1>2 DEF JoinAdd
  <2> QED BY <2>1, <2>2, <2>3, <2>4, <2>5 DEF TypeOK
<1>3. CASE JoinTell(c)
  <2>1. inbox' \in [Clients -> Seq(Event \cup Notice)]
    BY <1>3 DEF JoinTell, TypeOK
  <2> QED BY <1>3, <2>1 DEF TypeOK, JoinTell
<1>4. ASSUME NEW e \in Event, Relay(c, e) PROVE TypeOK'
  <2>1. inbox' \in [Clients -> Seq(Event \cup Notice)]
    BY <1>4 DEF Relay, TypeOK
  <2>2. tasks' \in [Clients -> [Event -> Nat]]
    <3>1. tasks \in [Clients -> [Event -> Nat]] /\ tasks[c][e] > 0
          /\ tasks' = [tasks EXCEPT ![c][e] = @ - 1]
      BY <1>4 DEF Relay, TypeOK
    <3>2. tasks[c][e] - 1 \in Nat
      BY <3>1
    <3> QED BY <3>1, <3>2
  <2>3. UNCHANGED <<pageVars, descVars, contVars, serverVars, thrown>>
    BY <1>4 DEF Relay
  <2> QED BY <2>1, <2>2, <2>3 DEF TypeOK
<1> QED BY <1>1, <1>2, <1>3, <1>4 DEF Server

\* The handlers of a page keep the types.
LEMMA PageType ==
  ASSUME TypeOK, NEW c \in Clients, Page(c)
  PROVE  TypeOK'
<1>1. ASSUME NEW n \in {"room_created", "room_joined"}, OnRoom(c, n)
      PROVE  TypeOK'
  <2>1. inbox' \in [Clients -> Seq(Event \cup Notice)]
    BY <1>1, OnType DEF OnRoom
  <2> QED BY <1>1, <2>1 DEF OnRoom, TypeOK, Notice
<1>2. CASE OnFullRoom(c)
  <2>1. inbox' \in [Clients -> Seq(Event \cup Notice)]
    BY <1>2, OnType DEF OnFullRoom
  <2> QED BY <1>2, <2>1 DEF OnFullRoom, TypeOK, Notice
<1>3. CASE SetLocalStream(c)
  <2>1. tasks' \in [Clients -> [Event -> Nat]] /\ creator' \subseteq Clients
    <3>1. CASE told[c] = "room_created"
      BY <1>3, <3>1 DEF SetLocalStream, TypeOK
    <3>2. CASE told[c] # "room_created"
      BY <1>3, <3>2, EmitType DEF SetLocalStream, Event, TypeOK
    <3> QED BY <3>1, <3>2
  <2>2. PICK result \in {"ok", "failed"} :
          media' = [media EXCEPT ![c] = result]
    BY <1>3 DEF SetLocalStream
  <2>3. media' \in [Clients -> {"none", "asking", "ok", "failed"}]
    BY <2>2 DEF TypeOK
  <2>4. UNCHANGED <<page, told, ice, descVars, contVars, inbox, serverVars,
                    thrown>>
    BY <1>3 DEF SetLocalStream
  <2> QED BY <2>1, <2>3, <2>4 DEF TypeOK
<1>4. CASE OnStartCall(c)
  <2>1. inbox' \in [Clients -> Seq(Event \cup Notice)]
    BY <1>4, OnType DEF OnStartCall
  <2>2. CASE c \notin creator
    BY <1>4, <2>1, <2>2 DEF OnStartCall, TypeOK
  <2>3. CASE c \in creator
    <3>1. /\ gen' \in [Clients -> Nat]
          /\ localDesc' \in [Clients -> {"none", "offer", "answer"}]
          /\ remoteDesc' \in [Clients -> {"none", "offer", "answer"}]
      BY <1>4, <2>3, ConnectionType DEF OnStartCall
    <3>2. offering' \in [Clients -> SUBSET Nat]
      <4>1. offering' = offering
            \/ offering' = [offering EXCEPT ![c] = @ \cup {gen[c] + 1}]
        BY <1>4, <2>3 DEF OnStartCall
      <4>2. gen[c] + 1 \in Nat /\ offering \in [Clients -> SUBSET Nat]
        BY DEF TypeOK
      <4> QED BY <4>1, <4>2
    <3>3. thrown' \subseteq Clients \X {"stream", "connection", "offer",
                                       "description"}
      BY <1>4, <2>3, ThrowType DEF OnStartCall, TypeOK
    <3>4. UNCHANGED <<pageVars, answering, serverVars, tasks>>
      BY <1>4 DEF OnStartCall
    <3> QED BY <2>1, <3>1, <3>2, <3>3, <3>4 DEF TypeOK
  <2> QED BY <2>2, <2>3
<1>5. CASE CreateOffer(c)
  <2>1. tasks' \in [Clients -> [Event -> Nat]]
    BY <1>5, EmitType DEF CreateOffer, Event
  <2>2. /\ localDesc' \in [Clients -> {"none", "offer", "answer"}]
        /\ offering' \in [Clients -> SUBSET Nat]
    BY <1>5 DEF CreateOffer, TypeOK
  <2> QED BY <1>5, <2>1, <2>2 DEF CreateOffer, TypeOK
<1>6. CASE OnOffer(c)
  <2>1. inbox' \in [Clients -> Seq(Event \cup Notice)]
    BY <1>6, OnType DEF OnOffer
  <2>2. CASE c \in creator
    BY <1>6, <2>1, <2>2 DEF OnOffer, TypeOK
  <2>3. CASE c \notin creator
    <3>1. /\ gen' \in [Clients -> Nat]
          /\ localDesc' \in [Clients -> {"none", "offer", "answer"}]
          /\ remoteDesc' \in [Clients -> {"none", "offer", "answer"}]
      BY <1>6, <2>3, ConnectionType DEF OnOffer
    <3>2. answering' \in [Clients -> SUBSET Nat]
      <4>1. answering' = answering
            \/ answering' = [answering EXCEPT ![c] = @ \cup {gen[c] + 1}]
        BY <1>6, <2>3 DEF OnOffer
      <4>2. gen[c] + 1 \in Nat /\ answering \in [Clients -> SUBSET Nat]
        BY DEF TypeOK
      <4> QED BY <4>1, <4>2
    <3>3. thrown' \subseteq Clients \X {"stream", "connection", "offer",
                                       "description"}
      BY <1>6, <2>3, ThrowType DEF OnOffer, TypeOK
    <3>4. UNCHANGED <<pageVars, offering, serverVars, tasks>>
      BY <1>6 DEF OnOffer
    <3> QED BY <2>1, <3>1, <3>2, <3>3, <3>4 DEF TypeOK
  <2> QED BY <2>2, <2>3
<1>7. CASE CreateAnswer(c)
  <2>1. tasks' \in [Clients -> [Event -> Nat]]
    BY <1>7, EmitType DEF CreateAnswer, Event
  <2>2. /\ localDesc' \in [Clients -> {"none", "offer", "answer"}]
        /\ answering' \in [Clients -> SUBSET Nat]
    BY <1>7 DEF CreateAnswer, TypeOK
  <2> QED BY <1>7, <2>1, <2>2 DEF CreateAnswer, TypeOK
<1>8. CASE OnAnswer(c)
  <2>1. inbox' \in [Clients -> Seq(Event \cup Notice)]
    BY <1>8, OnType DEF OnAnswer
  <2>2. remoteDesc' \in [Clients -> {"none", "offer", "answer"}]
    <3>1. remoteDesc' = remoteDesc
          \/ remoteDesc' = [remoteDesc EXCEPT ![c] = "answer"]
      BY <1>8 DEF OnAnswer
    <3> QED BY <3>1 DEF TypeOK
  <2>3. thrown' \subseteq Clients \X {"stream", "connection", "offer",
                                     "description"}
    BY <1>8, ThrowType DEF OnAnswer, TypeOK
  <2> QED BY <1>8, <2>1, <2>2, <2>3 DEF OnAnswer, TypeOK
<1>9. CASE OnIceCandidate(c)
  <2>1. inbox' \in [Clients -> Seq(Event \cup Notice)]
    BY <1>9, OnType DEF OnIceCandidate
  <2>2. thrown' \subseteq Clients \X {"stream", "connection", "offer",
                                     "description"}
    BY <1>9, ThrowType DEF OnIceCandidate, TypeOK
  <2> QED BY <1>9, <2>1, <2>2 DEF OnIceCandidate, TypeOK
<1> QED BY <1>1, <1>2, <1>3, <1>4, <1>5, <1>6, <1>7, <1>8, <1>9
        DEF Page, OnRoomCreated, OnRoomJoined

\* Every step keeps the types.
LEMMA TypeNext ==
  ASSUME TypeOK, [Next]_vars
  PROVE  TypeOK'
<1>1. ASSUME NEW c \in Clients, JoinRoom(c) PROVE TypeOK'
  BY <1>1 DEF JoinRoom, TypeOK
<1>2. ASSUME NEW c \in Clients, SendIceCandidate(c) PROVE TypeOK'
  <2>1. tasks' \in [Clients -> [Event -> Nat]]
    BY <1>2, EmitType DEF SendIceCandidate, Event
  <2>2. ice' \in 0..MaxIce
    BY <1>2, ConstantsOK DEF SendIceCandidate, TypeOK
  <2> QED BY <1>2, <2>1, <2>2 DEF SendIceCandidate, TypeOK
<1>3. ASSUME NEW c \in Clients, Leave(c) PROVE TypeOK'
  <2>1. <<>> \in Seq(Event \cup Notice)
    OBVIOUS
  <2> QED BY <1>3, <2>1 DEF Leave, TypeOK
<1>4. CASE UNCHANGED vars
  BY <1>4 DEF vars, TypeOK
<1> QED BY <1>1, <1>2, <1>3, <1>4, ServerType, PageType DEF Next

\* The types hold at first.
LEMMA TypeInit == Init => TypeOK
<1> SUFFICES ASSUME Init PROVE TypeOK
  OBVIOUS
<1>1. <<>> \in Seq(Event \cup Notice) /\ 0 \in 0..MaxIce /\ {} \in SUBSET Nat
  BY ConstantsOK
<1> QED BY <1>1 DEF Init, TypeOK

\* The types of the state, for any number of pages and candidates.
THEOREM TypeCorrect == Spec => []TypeOK
  BY TypeInit, TypeNext, PTL DEF Spec

-----------------------------------------------------------------------------
(* Nothing is missing                                                      *)

\* A room that is calm always was.
LEMMA CalmBefore ==
  ASSUME TypeOK, [Next]_vars, Calm'
  PROVE  Calm
<1>1. stale => stale'
  BY DEF TypeOK, Next, Server, Page, OnRoomCreated, OnRoomJoined,
         OnRoom, OnFullRoom, SetLocalStream, OnStartCall, CreateOffer,
         OnOffer, CreateAnswer, OnAnswer, OnIceCandidate, JoinCount, JoinAdd,
         JoinTell, Relay, JoinRoom, SendIceCandidate, Leave, vars
<1>2. \A d \in Clients : page[d] = "closed" => page'[d] = "closed"
  BY DEF TypeOK, Next, Server, Page, OnRoomCreated, OnRoomJoined,
         OnRoom, OnFullRoom, SetLocalStream, OnStartCall, CreateOffer,
         OnOffer, CreateAnswer, OnAnswer, OnIceCandidate, JoinCount, JoinAdd,
         JoinTell, Relay, JoinRoom, SendIceCandidate, Leave, vars
<1> QED BY <1>1, <1>2 DEF Calm, TypeOK

\* No step of the call was taken yet.
LEMMA CallInit == Init => CallInv
<1> SUFFICES ASSUME Init PROVE CallInv
  OBVIOUS
<1>1. \A c \in Clients : \A e : ~In(inbox[c], e)
  BY DEF Init, In
<1>2. \A c \in Clients : \A T : Single(inbox[c], T)
  BY DEF Init, Single
<1>3. NoticeInv
  BY <1>1, <1>2 DEF Init, NoticeInv, Notice
<1>4. \A c \in Clients : ~First(c) /\ ~Second(c)
  BY <1>1 DEF Init, First, Second, Noted
<1>5. Roles
  BY <1>4 DEF Init, Roles
<1>6. Moves(0)
  <2>1. ASSUME NEW c \in Clients PROVE Here(0, c)
    BY <1>1, <1>2 DEF Init, Here, Count, Pending, Event
  <2> QED BY <1>4, <2>1 DEF Moves
<1>7. Done(0)
  BY <1>4 DEF Done
<1>8. Outside /\ Candidates /\ Thrown
  BY <1>1, <1>4 DEF Init, Outside, Candidates, Thrown
<1> QED BY <1>3, <1>5, <1>6, <1>7, <1>8 DEF CallInv

\* Every step of a room that stays calm keeps its invariant.
LEMMA CallNext ==
  ASSUME TypeOK, IInv, CallInv, [Next]_vars, Calm, Calm'
  PROVE  CallInv'
<1>1. ASSUME NEW c \in Clients, Server(c) PROVE CallInv'
  <2>1. CASE JoinCount(c)
    <3>1. PICK j \in Counted : joins' = [joins EXCEPT ![c] = j]
      <4>1. (CASE room = {} -> "counted0"
               [] Cardinality(room) = 1 -> "counted1"
               [] OTHER -> "counted2") \in Counted
        BY Zenon DEF Counted
      <4> QED BY <2>1, <4>1 DEF JoinCount
    <3>2. Early(c)
      BY <2>1 DEF JoinCount, Early
    <3>3. UNCHANGED <<told, media, creator, gen, localDesc, remoteDesc,
                      offering, answering, inbox, room, tasks, thrown>>
      BY <2>1 DEF JoinCount
    <3> QED BY <3>1, <3>2, <3>3, EarlyStep
  <2>2. CASE JoinAdd(c)
    <3>1. IsFiniteSet(room) /\ page[c] # "closed" /\ ~stale'
      BY DEF IInv, RoomInv, Types, Calm
    <3> QED BY <2>2, <3>1, AddStep
  <2>3. CASE JoinTell(c)
    BY <2>3, TellStep DEF Calm
  <2> QED BY <1>1, <2>1, <2>2, <2>3, RelayCall DEF Server
<1>2. ASSUME NEW c \in Clients, Page(c) PROVE CallInv'
  <2>1. ASSUME NEW n \in {"room_created", "room_joined"}, OnRoom(c, n)
        PROVE  CallInv'
    BY <2>1, ToldStep DEF OnRoom, Notice
  <2>2. CASE OnFullRoom(c)
    BY <2>2, ToldStep DEF OnFullRoom, Notice
  <2> QED BY <1>2, <2>1, <2>2, StreamStep, StartCallStep, CreateOfferStep,
             OfferStep, CreateAnswerStep, AnswerStep, IceStep
          DEF Page, OnRoomCreated, OnRoomJoined
<1>3. ASSUME NEW c \in Clients, JoinRoom(c) PROVE CallInv'
  <2>1. joins[c] = "none" /\ joins' = [joins EXCEPT ![c] = "spawned"]
    BY <1>3 DEF JoinRoom, IInv, Waiting
  <2>2. Early(c)
    BY <2>1 DEF Early
  <2>3. UNCHANGED <<told, media, creator, gen, localDesc, remoteDesc,
                    offering, answering, inbox, room, tasks, thrown>>
    BY <1>3 DEF JoinRoom
  <2> QED BY <2>1, <2>2, <2>3, EarlyStep
<1>4. ASSUME NEW c \in Clients, Leave(c) PROVE CallInv'
  BY <1>4 DEF Leave, Calm, TypeOK
<1>5. CASE UNCHANGED vars
  <2>1. /\ NoticeInv' <=> NoticeInv
        /\ Roles' <=> Roles
        /\ \A k \in 0..9 : Moves(k)' <=> Moves(k)
        /\ \A k \in 0..9 : Done(k)' <=> Done(k)
        /\ Outside' <=> Outside
        /\ Candidates' <=> Candidates
        /\ Thrown' <=> Thrown
    BY <1>5 DEF vars, NoticeInv, Roles, Moves, Here, Done, Outside, Candidates,
       Thrown, First, Second, Noted, Streamed, Early
  <2> QED BY <2>1 DEF CallInv
<1> QED BY <1>1, <1>2, <1>3, <1>4, <1>5, SendIceStep DEF Next

\* In a calm room the call is where one of its nine steps left it, for any
\* number of pages: the order of the events of two pages is all that the
\* handlers rely on.
THEOREM CallInvariance == Spec => [](Calm => CallInv)
<1>1. TypeOK /\ IInv /\ (Calm => CallInv) /\ [Next]_vars => (Calm => CallInv)'
  BY CallNext, CalmBefore
<1>2. Init => (Calm => CallInv)
  BY CallInit
<1> QED BY <1>1, <1>2, TypeCorrect, Invariance, PTL DEF Spec

\* In a calm room no handler misses what it uses, except candidates, for any
\* number of pages and candidates.
THEOREM NothingMissed == Spec => []NothingMissing
<1>1. TypeOK /\ (Calm => CallInv) => NothingMissing
  <2> SUFFICES ASSUME TypeOK, CallInv, NEW t \in thrown
               PROVE  \/ t[2] = "stream" /\ media[t[1]] = "failed"
                      \/ t[2] = "connection" /\ t[1] \notin creator
                      \/ t[2] = "description"
                           /\ (t[1] \in creator \/ media[t[1]] = "failed")
    BY DEF NothingMissing
  <2>1. t[1] \in Clients
    BY DEF TypeOK
  <2>2. Second(t[1]) => t[1] \notin creator
    <3>1. NoticeInv
      BY DEF CallInv
    <3>2. t[1] \in creator => First(t[1])
      BY <2>1, <3>1 DEF NoticeInv, First, Noted
    <3> QED BY <2>1, <3>1, <3>2, Apart
  <2> QED BY <2>2 DEF CallInv, Thrown
<1> QED BY <1>1, TypeCorrect, CallInvariance, PTL
=============================================================================
