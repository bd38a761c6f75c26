--------------------------- MODULE RoomsChatProofs ---------------------------
(***************************************************************************)
(* Proofs about RoomsChat, for any number of clients, rooms, connections   *)
(* and messages, and any length of the history: what a page shows is kept; *)
(* a settled page whose joins were of one room at a time is in that room,  *)
(* unless they all came before their handler was registered; and it misses *)
(* nothing but what was stored while it was answered and what a full       *)
(* channel refused.                                                        *)
(***************************************************************************)
EXTENDS RoomsChat, FiniteSetTheorems, TLAPS

-----------------------------------------------------------------------------
(* The inductive invariant                                                 *)

\* What a page is sent, and what runs.
Wires == ({"message"} \X Msgs) \cup ({"messages"} \X Seq(Msgs))
\* How far a handler has come.
Ats == {"start", "left", "joined", "read", "stored"}
\* A handler, and what it has read.
Handlers == [sid : Sids, emit : Emits, at : Ats, got : Seq(Msgs)]

\* The types: what TypeOK says, with the domains, and the handlers.
Types ==
  /\ currentRoom \in [Clients -> Rooms]
  /\ messages \in [Clients -> Seq(Msgs)]
  /\ conns \in [Clients -> 0..MaxConns]
  /\ up \subseteq Clients
  /\ \A c \in up : conns[c] > 0
  /\ buffer \in [Clients -> Seq(Emits)]
  /\ out \in [Clients -> Seq(Emits)]
  /\ wire \in [Clients -> Seq(Wires)]
  /\ listening \in [Clients -> 0..2]
  /\ member \subseteq Sids \X Rooms
  /\ store \in [Rooms -> Seq(Msgs)]
  /\ \A r \in Rooms : Len(store[r]) <= History
  /\ IsABag(tasks)
  /\ Running \subseteq Handlers
  /\ sent \in 0..MaxMsgs /\ changes \in 0..MaxChanges
  /\ mixed \subseteq Clients
  /\ reached \in [Clients -> {"nothing", "handler", "answer"}]
  /\ log \in [Rooms -> Seq(Msgs)]
  /\ raced \subseteq Clients \X Msgs /\ refused \subseteq Clients \X Msgs

\* A message is of the room it is emitted to.
Sound(e) == ~IsJoin(e) => e.msg[1] = e.room

\* A message is stored in its own room, and the handlers are of the events they
\* were spawned for.  A socket is one of the connections made so far.
Homes ==
  /\ \A c \in Clients : \A k \in 1..Len(buffer[c]) : Sound(buffer[c][k])
  /\ \A c \in Clients : \A k \in 1..Len(out[c]) : Sound(out[c][k])
  /\ \A r \in Rooms : \A m \in ToSet(store[r]) : m[1] = r
  /\ \A p \in member : p[1][2] <= conns[p[1][1]]
  /\ \A t \in Running :
       /\ t.sid[2] <= conns[t.sid[1]] /\ Sound(t.emit)
       /\ t.at \in {"left", "joined", "read"} => IsJoin(t.emit)
       /\ t.at = "stored" => ~IsJoin(t.emit)
       /\ t.at = "read" => \A m \in ToSet(t.got) : m[1] = t.emit.room

\* The store is the end of the log, read backwards.
Stores == \A r \in Rooms :
  LET n == Len(log[r])
  IN  /\ Len(store[r]) = IF n <= History THEN n ELSE History
      /\ \A j \in 1..Len(store[r]) : store[r][j] = log[r][n - j + 1]

\* m was stored.
Kept(m) == m[1] \in Rooms /\ m \in ToSet(log[m[1]])

\* The messages an event brings to a page.
Brought(w) == IF w[1] = "message" THEN {w[2]} ELSE ToSet(w[2])

\* Everything a page shows, or may be going to, was stored.
AllKept ==
  /\ \A c \in Clients : \A m \in ToSet(messages[c]) : Kept(m)
  /\ \A c \in Clients : \A k \in 1..Len(wire[c]) :
       \A m \in Brought(wire[c][k]) : Kept(m)
  /\ \A t \in Running : /\ t.at = "stored" => Kept(t.emit.msg)
                        /\ t.at = "read" => \A m \in ToSet(t.got) : Kept(m)

\* The events from k on leave m in the view, when it is there before.
Stays(q, k, m) ==
  \A j \in k..Len(q) : q[j][1] = "messages" => m \in ToSet(q[j][2])

\* c will show m when all that is on its way has arrived.
WillShow(c, m) ==
  \/ m \in ToSet(messages[c]) /\ Stays(wire[c], 1, m)
  \/ \E k \in 1..Len(wire[c]) :
       m \in Brought(wire[c][k]) /\ Stays(wire[c], k + 1, m)

\* A socket that listens to nothing is in no room, and none of its joins runs.
Deaf == \A c \in up : listening[c] = 0 => PendingJoins(c) = {} /\ RoomsOf(c) = {}

\* A join of the present room has taken the socket out of the others.
HasLeft(c) ==
  \/ reached[c] = "answer"
  \/ /\ reached[c] = "handler"
     /\ PendingJoins(c) = {} \/ \E t \in PendingJoins(c) : t.at # "start"

\* The joins of c are of the room it shows; its socket is in no other room when
\* one of them has left those, and in that room when all have joined.  A socket
\* whose joins were all dropped is in no room.
OneRoom(c) ==
  /\ \A t \in PendingJoins(c) : t.emit.room = currentRoom[c]
  /\ \A e \in JoinsIn(out[c]) : e.room = currentRoom[c]
  /\ reached[c] = "nothing" =>
       /\ PendingJoins(c) = {}
       /\ JoinsIn(out[c]) = {} => RoomsOf(c) = {}
  /\ HasLeft(c) => RoomsOf(c) \subseteq {currentRoom[c]}
  /\ reached[c] # "nothing" /\ (\A t \in PendingJoins(c) : t.at \notin {"start", "left"})
       => currentRoom[c] \in RoomsOf(c)

\* What an answered page will show is of its room.
CleanView(c) == reached[c] = "answer" =>
  \A m \in Msgs : WillShow(c, m) => m[1] = currentRoom[c]

\* A message of that room is shown, or it is in an answer, or will be, or it is
\* to be broadcast, or an answer or the channel missed it.
Found(c, m) ==
  \/ WillShow(c, m) \/ <<c, m>> \in raced \cup refused
  \/ \E t \in PendingJoins(c) : \/ t.at # "read"
                                \/ m \in ToSet(t.got)
  \/ ToCome(m)

\* What is said of a page that is not mixed.
View(c) ==
  /\ OneRoom(c) /\ CleanView(c)
  /\ reached[c] # "nothing" => \A m \in ToSet(store[currentRoom[c]]) : Found(c, m)

\* It is said of every such page that is connected.
Views == \A c \in up \ mixed : View(c)

\* The inductive invariant.
ChatInv == Types /\ Homes /\ Stores /\ AllKept /\ Deaf /\ Views

-----------------------------------------------------------------------------
(* Bags of handlers                                                        *)

\* What is in a bag when another is added to it...
LEMMA BagPlus ==
  ASSUME NEW A, NEW B, IsABag(A), IsABag(B)
  PROVE  /\ IsABag(A (+) B)
         /\ BagToSet(A (+) B) = BagToSet(A) \cup BagToSet(B)
  BY DEF IsABag, BagToSet, (+)

\* ... and when one of its elements is taken: another like it may remain.
LEMMA BagMinus ==
  ASSUME NEW A, IsABag(A), NEW t
  PROVE  /\ IsABag(A (-) SetToBag({t}))
         /\ BagToSet(A (-) SetToBag({t})) \subseteq BagToSet(A)
         /\ BagToSet(A) \ {t} \subseteq BagToSet(A (-) SetToBag({t}))
  BY DEF IsABag, BagToSet, (-), SetToBag

\* The bag of one element.
LEMMA BagOne ==
  ASSUME NEW t
  PROVE  IsABag(SetToBag({t})) /\ BagToSet(SetToBag({t})) = {t}
  BY DEF IsABag, BagToSet, SetToBag


\* A handler starts.
LEMMA PutSteps ==
  ASSUME IsABag(tasks), NEW h, tasks' = tasks (+) SetToBag({h})
  PROVE  IsABag(tasks') /\ Running' = Running \cup {h}
<1> DEFINE B == SetToBag({h})
<1>1. IsABag(B) /\ BagToSet(B) = {h}
  BY BagOne
<1> HIDE DEF B
<1>2. /\ IsABag(tasks (+) B)
      /\ BagToSet(tasks (+) B) = BagToSet(tasks) \cup BagToSet(B)
  BY <1>1, BagPlus
<1> QED BY <1>1, <1>2 DEF Running, B

\* A handler goes on.
LEMMA BecomeSteps ==
  ASSUME IsABag(tasks), NEW t, NEW u, Become(t, u)
  PROVE  /\ IsABag(tasks') /\ u \in Running'
         /\ Running' \subseteq Running \cup {u}
         /\ Running \ {t} \subseteq Running'
<1> DEFINE A == tasks (-) SetToBag({t})
<1>1. /\ IsABag(A) /\ BagToSet(A) \subseteq Running
      /\ Running \ {t} \subseteq BagToSet(A)
  BY BagMinus DEF Running
<1>2. IsABag(SetToBag({u})) /\ BagToSet(SetToBag({u})) = {u}
  BY BagOne
<1>3. tasks' = A (+) SetToBag({u})
  BY DEF Become
<1> HIDE DEF A
<1>4. IsABag(tasks') /\ Running' = BagToSet(A) \cup {u}
  BY <1>1, <1>2, <1>3, BagPlus DEF Running
<1> QED BY <1>1, <1>4

\* A handler ends.
LEMMA EndSteps ==
  ASSUME IsABag(tasks), NEW t, End(t)
  PROVE  /\ IsABag(tasks') /\ Running' \subseteq Running
         /\ Running \ {t} \subseteq Running'
  BY BagMinus DEF End, Running

-----------------------------------------------------------------------------
(* Sequences                                                               *)

\* The elements of a sequence, by their places.
LEMMA InSeq ==
  ASSUME NEW S, NEW q \in Seq(S)
  PROVE  /\ \A x : x \in ToSet(q) <=> \E i \in 1..Len(q) : q[i] = x
         /\ \A i \in 1..Len(q) : q[i] \in ToSet(q) /\ q[i] \in S
         /\ ToSet(q) \subseteq S
  BY DEF ToSet

\* What is in a sequence when an element is put at its end...
LEMMA AppendSet ==
  ASSUME NEW S, NEW q \in Seq(S), NEW e \in S
  PROVE  ToSet(Append(q, e)) = ToSet(q) \cup {e}
<1>1. /\ Append(q, e) \in Seq(S) /\ Len(Append(q, e)) = Len(q) + 1
      /\ Append(q, e)[Len(q) + 1] = e /\ Len(q) \in Nat
      /\ \A i \in 1..Len(q) : Append(q, e)[i] = q[i]
  OBVIOUS
<1>2. 1..Len(Append(q, e)) = 1..Len(q) \cup {Len(q) + 1}
  BY <1>1
<1> QED BY <1>1, <1>2 DEF ToSet

\* ... and when it is read backwards.
LEMMA ReverseSet ==
  ASSUME NEW S, NEW q \in Seq(S)
  PROVE  Reverse(q) \in Seq(S) /\ ToSet(Reverse(q)) = ToSet(q)
<1>1. /\ Len(q) \in Nat /\ \A i \in 1..Len(q) : Len(q) - i + 1 \in 1..Len(q)
      /\ \A i \in 1..Len(q) : Len(q) - (Len(q) - i + 1) + 1 = i
      /\ \A i \in 1..Len(q) : q[i] \in S
  OBVIOUS
<1>2. Reverse(q) = [i \in 1..Len(q) |-> q[(Len(q) - i) + 1]]
  BY DEF Reverse
<1>3. Reverse(q) \in Seq(S) /\ Len(Reverse(q)) = Len(q)
  BY <1>1, <1>2
<1> DEFINE p == Reverse(q)
<1>4. \A i \in 1..Len(q) : p[i] = q[(Len(q) - i) + 1]
  BY <1>2
<1>5. p \in Seq(S) /\ Len(p) = Len(q)
  BY <1>3
<1> HIDE DEF p
<1>6. /\ \A x : x \in ToSet(q) <=> \E i \in 1..Len(q) : q[i] = x
      /\ \A x : x \in ToSet(p) <=> \E i \in 1..Len(q) : p[i] = x
  BY <1>5, InSeq
<1>7. ASSUME NEW x \in ToSet(p) PROVE x \in ToSet(q)
  <2>1. PICK i \in 1..Len(q) : p[i] = x
    BY <1>6
  <2>2. (Len(q) - i) + 1 \in 1..Len(q) /\ q[(Len(q) - i) + 1] = x
    BY <1>1, <1>4, <2>1
  <2> QED BY <1>6, <2>2
<1>8. ASSUME NEW x \in ToSet(q) PROVE x \in ToSet(p)
  <2>1. PICK i \in 1..Len(q) : q[i] = x
    BY <1>6
  <2> DEFINE j == (Len(q) - i) + 1
  <2>2. j \in 1..Len(q) /\ (Len(q) - j) + 1 = i
    BY <1>1
  <2> HIDE DEF j
  <2>3. p[j] = x
    BY <1>4, <2>1, <2>2
  <2> QED BY <1>6, <2>2, <2>3
<1> QED BY <1>5, <1>7, <1>8 DEF p

\* The newest message is first, and the oldest are forgotten.
LEMMA TruncateSet ==
  ASSUME NEW S, NEW q \in Seq(S), NEW e \in S, Len(q) <= History
  PROVE  LET r == Truncate(<<e>> \o q)
         IN  /\ r \in Seq(S) /\ Len(r) <= History /\ e \in ToSet(r)
             /\ ToSet(r) \subseteq ToSet(q) \cup {e}
             /\ ToSet(q) \subseteq ToSet(r) \/ Len(r) = History
             /\ Len(q) = History => Len(r) = History
<1> DEFINE p == <<e>> \o q
           n == IF Len(p) <= History THEN Len(p) ELSE History
           r == SubSeq(p, 1, n)
<1>1. /\ p \in Seq(S) /\ Len(p) = Len(q) + 1 /\ p[1] = e /\ Len(q) \in Nat
      /\ \A i \in 2..Len(p) : p[i] = q[i - 1] /\ i - 1 \in 1..Len(q)
      /\ \A i \in 1..Len(q) : p[i + 1] = q[i] /\ i + 1 \in 1..Len(p)
  OBVIOUS
<1> HIDE DEF p
<1>2. /\ n \in Nat /\ n >= 1 /\ n <= Len(p) /\ n <= History
      /\ Len(q) < History => n = Len(p)
      /\ Len(q) = History => n = History
  BY <1>1, ConstantsOK
<1> HIDE DEF n
<1>3. /\ r \in Seq(S) /\ Len(r) = n
      /\ \A i \in 1..n : r[i] = p[i]
  BY <1>1, <1>2
<1> HIDE DEF r
<1>4. /\ \A x : x \in ToSet(q) <=> \E i \in 1..Len(q) : q[i] = x
      /\ \A x : x \in ToSet(r) <=> \E i \in 1..n : r[i] = x
  BY <1>3, InSeq
<1>5. e \in ToSet(r) /\ ToSet(r) \subseteq ToSet(q) \cup {e}
  <2>1. e \in ToSet(r)
    BY <1>1, <1>2, <1>3, <1>4
  <2>2. ASSUME NEW x \in ToSet(r) PROVE x \in ToSet(q) \cup {e}
    <3>1. PICK i \in 1..n : p[i] = x
      BY <1>3, <1>4
    <3>2. i = 1 \/ i \in 2..Len(p)
      BY <1>1, <1>2
    <3> QED BY <1>1, <1>4, <3>1, <3>2
  <2> QED BY <2>1, <2>2
<1>6. ASSUME Len(q) < History, NEW x \in ToSet(q) PROVE x \in ToSet(r)
  <2>1. PICK i \in 1..Len(q) : q[i] = x
    BY <1>4
  <2>2. i + 1 \in 1..n /\ p[i + 1] = x
    BY <1>1, <1>2, <1>6, <2>1
  <2> QED BY <1>3, <1>4, <2>2
<1>7. Len(q) = History \/ Len(q) < History
  BY <1>1, ConstantsOK
<1> QED BY <1>2, <1>3, <1>4, <1>5, <1>6, <1>7 DEF Truncate, p, n, r

\* A message that is stored is logged: the store is still the end of the log.
LEMMA TruncateLog ==
  ASSUME NEW S, NEW q \in Seq(S), NEW p \in Seq(S), NEW e \in S,
         Len(q) = IF Len(p) <= History THEN Len(p) ELSE History,
         \A j \in 1..Len(q) : q[j] = p[Len(p) - j + 1]
  PROVE  LET r == Truncate(<<e>> \o q)
             l == Append(p, e)
             n == Len(l)
         IN  /\ Len(r) = IF n <= History THEN n ELSE History
             /\ \A j \in 1..Len(r) : r[j] = l[n - j + 1]
<1> DEFINE a == <<e>> \o q
           k == IF Len(a) <= History THEN Len(a) ELSE History
           r == SubSeq(a, 1, k)
           l == Append(p, e)
           n == Len(l)
<1>1. /\ a \in Seq(S) /\ Len(a) = Len(q) + 1 /\ a[1] = e /\ Len(q) \in Nat
      /\ \A j \in 2..Len(a) : a[j] = q[j - 1] /\ j - 1 \in 1..Len(q)
  OBVIOUS
<1>2. /\ n = Len(p) + 1 /\ Len(p) \in Nat /\ l[n] = e
      /\ \A i \in 1..Len(p) : l[i] = p[i]
  OBVIOUS
<1> HIDE DEF a, l, n
<1>3. /\ k \in Nat /\ k <= Len(a)
      /\ k = IF n <= History THEN n ELSE History
  BY <1>1, <1>2, ConstantsOK
<1> HIDE DEF k
<1>4. Len(r) = k /\ \A j \in 1..k : r[j] = a[j]
  BY <1>1, <1>3
<1> HIDE DEF r
<1>5. ASSUME NEW j \in 1..k PROVE r[j] = l[n - j + 1]
  <2>1. CASE j = 1
    <3>1. n - j + 1 = n
      BY <1>2, <2>1
    <3> QED BY <1>1, <1>2, <1>4, <1>5, <2>1, <3>1
  <2>2. CASE j # 1
    <3>1. j \in 2..Len(a) /\ j - 1 \in 1..Len(q)
      BY <1>1, <1>3, <2>2
    <3>2. r[j] = p[Len(p) - (j - 1) + 1]
      BY <1>1, <1>4, <3>1
    <3>3. /\ Len(p) - (j - 1) + 1 = n - j + 1
          /\ n - j + 1 \in 1..Len(p)
      BY <1>1, <1>2, <3>1, ConstantsOK
    <3> QED BY <1>2, <3>2, <3>3
  <2> QED BY <2>1, <2>2
<1> QED BY <1>3, <1>4, <1>5 DEF Truncate, a, k, r, l, n

\* The joins on the way when an event is put at the end...
LEMMA JoinsAppend ==
  ASSUME NEW S, NEW q \in Seq(S), NEW e \in S
  PROVE  JoinsIn(Append(q, e)) = JoinsIn(q) \cup {x \in {e} : IsJoin(x)}
<1>1. /\ Len(Append(q, e)) = Len(q) + 1 /\ Append(q, e)[Len(q) + 1] = e
      /\ Len(q) \in Nat
      /\ \A i \in 1..Len(q) : Append(q, e)[i] = q[i]
  OBVIOUS
<1>2. 1..Len(Append(q, e)) = 1..Len(q) \cup {Len(q) + 1}
  BY <1>1
<1> QED BY <1>1, <1>2 DEF JoinsIn

\* ... and when the first one is taken.
LEMMA JoinsTail ==
  ASSUME NEW S, NEW q \in Seq(S), q # <<>>
  PROVE  /\ Head(q) \in S /\ Tail(q) \in Seq(S)
         /\ JoinsIn(q) = JoinsIn(Tail(q)) \cup {x \in {Head(q)} : IsJoin(x)}
         /\ \A i \in 1..Len(Tail(q)) : \E j \in 1..Len(q) : Tail(q)[i] = q[j]
         /\ 1 \in 1..Len(q) /\ Head(q) = q[1]
<1> DEFINE p == Tail(q)
<1>1. /\ Head(q) \in S /\ p \in Seq(S) /\ Len(p) = Len(q) - 1
      /\ Len(q) \in Nat /\ Len(q) > 0 /\ Head(q) = q[1]
      /\ \A i \in 1..Len(p) : p[i] = q[i + 1] /\ i + 1 \in 1..Len(q)
  OBVIOUS
<1> HIDE DEF p
<1>2. \A j \in 1..Len(q) : j # 1 => j - 1 \in 1..Len(p) /\ p[j - 1] = q[j]
  <2> SUFFICES ASSUME NEW j \in 1..Len(q), j # 1
               PROVE  j - 1 \in 1..Len(p) /\ p[j - 1] = q[j]
    OBVIOUS
  <2>1. j - 1 \in 1..Len(p) /\ (j - 1) + 1 = j
    BY <1>1
  <2> QED BY <1>1, <2>1
<1>3. ASSUME NEW x \in JoinsIn(q)
      PROVE  x \in JoinsIn(p) \/ (x = Head(q) /\ IsJoin(x))
  <2>1. PICK j \in 1..Len(q) : q[j] = x /\ IsJoin(q[j])
    BY DEF JoinsIn
  <2>2. IsJoin(x)
    BY <2>1
  <2>3. CASE j = 1
    BY <1>1, <2>1, <2>2, <2>3
  <2>4. CASE j # 1
    <3>1. j - 1 \in 1..Len(p) /\ p[j - 1] = x
      BY <1>2, <2>1, <2>4
    <3> QED BY <2>2, <3>1 DEF JoinsIn
  <2> QED BY <2>3, <2>4
<1>4. ASSUME NEW x \in JoinsIn(p) PROVE x \in JoinsIn(q)
  <2>1. PICK i \in 1..Len(p) : p[i] = x /\ IsJoin(p[i])
    BY DEF JoinsIn
  <2>2. i + 1 \in 1..Len(q) /\ q[i + 1] = x /\ IsJoin(x)
    BY <1>1, <2>1
  <2> QED BY <2>2 DEF JoinsIn
<1>5. IsJoin(Head(q)) => Head(q) \in JoinsIn(q)
  <2>1. 1 \in 1..Len(q)
    BY <1>1
  <2> QED BY <1>1, <2>1 DEF JoinsIn
<1>6. 1 \in 1..Len(q)
  BY <1>1
<1> QED BY <1>1, <1>3, <1>4, <1>5, <1>6 DEF p

-----------------------------------------------------------------------------
(* What a page will show                                                   *)

\* An event comes last, and its messages are shown then.
LEMMA ShowAppend ==
  ASSUME NEW c, NEW m, NEW w \in Wires, wire[c] \in Seq(Wires),
         messages'[c] = messages[c], wire'[c] = Append(wire[c], w)
  PROVE  WillShow(c, m)' <=>
           \/ m \in Brought(w)
           \/ WillShow(c, m) /\ w[1] = "message"
<1> DEFINE q == wire[c]
           r == wire'[c]
           n == Len(q) + 1
           Ok == w[1] = "messages" => m \in ToSet(w[2])
<1>1. /\ Len(r) = n /\ Len(q) \in Nat /\ r[n] = w
      /\ \A i \in 1..Len(q) : r[i] = q[i]
  OBVIOUS
<1>2. /\ w[1] \in {"message", "messages"}
      /\ w[1] = "messages" => Brought(w) = ToSet(w[2])
  BY DEF Wires, Brought
<1> HIDE DEF q, r, n
<1>3. n = Len(q) + 1 /\ n \in Nat /\ n > 0
  BY <1>1 DEF n
<1>4. ASSUME NEW k \in 1..n PROVE Stays(r, k, m) <=> Stays(q, k, m) /\ Ok
  <2>1. k..Len(r) = k..Len(q) \cup {n} /\ n \notin k..Len(q)
        /\ k..Len(q) \subseteq 1..Len(q)
    BY <1>1, <1>3
  <2> QED BY <1>1, <2>1 DEF Stays
<1>5. Stays(r, n + 1, m)
  BY <1>1, <1>3 DEF Stays
<1>6. Ok <=> m \in Brought(w) \/ w[1] = "message"
  BY <1>2
<1> HIDE DEF Ok
<1>7. 1 \in 1..n /\ 1..n = 1..Len(q) \cup {n}
      /\ \A k \in 1..Len(q) : k + 1 \in 1..n
  BY <1>1, <1>3
<1>8. WillShow(c, m) <=>
        \/ m \in ToSet(messages[c]) /\ Stays(q, 1, m)
        \/ \E k \in 1..Len(q) : m \in Brought(q[k]) /\ Stays(q, k + 1, m)
  BY DEF WillShow, q
<1>9. WillShow(c, m)' <=>
        \/ m \in ToSet(messages[c]) /\ Stays(r, 1, m)
        \/ \E k \in 1..n : m \in Brought(r[k]) /\ Stays(r, k + 1, m)
  BY <1>1 DEF WillShow, r
<1>10. WillShow(c, m)' <=> m \in Brought(w) \/ (WillShow(c, m) /\ Ok)
  BY <1>1, <1>4, <1>5, <1>7, <1>8, <1>9
<1> QED BY <1>6, <1>10

\* The first event arrives, and the page will show what it would have.
LEMMA ShowHead ==
  ASSUME NEW c, NEW m, wire[c] \in Seq(Wires), messages[c] \in Seq(Msgs),
         wire[c] # <<>>, wire'[c] = Tail(wire[c]),
         \/ /\ Head(wire[c])[1] = "message"
            /\ messages'[c] = Append(messages[c], Head(wire[c])[2])
         \/ /\ Head(wire[c])[1] = "messages"
            /\ messages'[c] = Head(wire[c])[2]
  PROVE  WillShow(c, m)' <=> WillShow(c, m)
<1> DEFINE q == wire[c]
           r == wire'[c]
           w == q[1]
           Ok == w[1] = "messages" => m \in ToSet(w[2])
<1>1. /\ Len(q) \in Nat /\ Len(q) > 0 /\ Len(r) = Len(q) - 1
      /\ \A i \in 1..Len(r) : r[i] = q[i + 1]
      /\ w = Head(wire[c]) /\ w \in Wires
  OBVIOUS
<1>2. m \in ToSet(messages'[c]) <=>
        m \in Brought(w) \/ (m \in ToSet(messages[c]) /\ w[1] = "message")
  <2>1. CASE w[1] = "message"
    <3>1. w[2] \in Msgs /\ messages'[c] = Append(messages[c], w[2])
      BY <1>1, <2>1 DEF Wires
    <3>2. ToSet(messages'[c]) = ToSet(messages[c]) \cup {w[2]}
      BY <3>1, AppendSet
    <3> QED BY <2>1, <3>2 DEF Brought
  <2>2. CASE w[1] = "messages"
    BY <1>1, <2>2 DEF Brought
  <2> QED BY <1>1, <2>1, <2>2
<1>3. Ok <=> m \in Brought(w) \/ w[1] = "message"
  BY <1>1 DEF Wires, Brought
<1> HIDE DEF q, r, w
<1>4. ASSUME NEW k \in Nat, k >= 1 PROVE Stays(r, k, m) <=> Stays(q, k + 1, m)
  <2>1. \A j \in k..Len(r) : j + 1 \in k + 1..Len(q) /\ r[j] = q[j + 1]
    BY <1>1, <1>4
  <2>2. ASSUME NEW j \in k + 1..Len(q)
        PROVE  j - 1 \in k..Len(r) /\ q[j] = r[j - 1]
    <3>1. j - 1 \in 1..Len(r) /\ (j - 1) + 1 = j /\ j - 1 \in k..Len(r)
      BY <1>1, <1>4
    <3> QED BY <1>1, <3>1
  <2>3. ASSUME Stays(q, k + 1, m) PROVE Stays(r, k, m)
    BY <2>1, <2>3 DEF Stays
  <2>4. ASSUME Stays(r, k, m) PROVE Stays(q, k + 1, m)
    BY <2>2, <2>4 DEF Stays
  <2> QED BY <2>3, <2>4
<1>5. Stays(q, 1, m) <=> Stays(q, 2, m) /\ Ok
  <2>1. 1..Len(q) = {1} \cup 2..Len(q)
    BY <1>1
  <2>2. q[1] = w
    BY DEF w
  <2> QED BY <2>1, <2>2 DEF Stays
<1>6. Stays(r, 1, m) <=> Stays(q, 2, m)
  BY <1>4
<1>7. (\E k \in 1..Len(q) : m \in Brought(q[k]) /\ Stays(q, k + 1, m))
      <=> \/ m \in Brought(w) /\ Stays(q, 2, m)
          \/ \E k \in 1..Len(r) : m \in Brought(r[k]) /\ Stays(r, k + 1, m)
  <2>1. 1 \in 1..Len(q) /\ q[1] = w
    BY <1>1 DEF w
  <2>2. ASSUME NEW k \in 1..Len(r)
        PROVE  /\ k + 1 \in 1..Len(q) /\ r[k] = q[k + 1]
               /\ Stays(r, k + 1, m) <=> Stays(q, (k + 1) + 1, m)
    BY <1>1, <1>4
  <2>3. ASSUME NEW k \in 1..Len(q), k # 1
        PROVE  /\ k - 1 \in 1..Len(r) /\ (k - 1) + 1 = k
    BY <1>1, <2>3
  <2>4. ASSUME NEW k \in 1..Len(q), m \in Brought(q[k]), Stays(q, k + 1, m)
        PROVE  \/ m \in Brought(w) /\ Stays(q, 2, m)
               \/ \E i \in 1..Len(r) :
                    m \in Brought(r[i]) /\ Stays(r, i + 1, m)
    <3>1. CASE k = 1
      BY <2>1, <2>4, <3>1
    <3>2. CASE k # 1
      <4> DEFINE i == k - 1
      <4>1. i \in 1..Len(r) /\ i + 1 = k
        BY <2>3, <3>2
      <4> HIDE DEF i
      <4>2. m \in Brought(r[i]) /\ Stays(r, i + 1, m)
        BY <2>2, <2>4, <4>1
      <4> QED BY <4>1, <4>2
    <3> QED BY <3>1, <3>2
  <2>5. ASSUME m \in Brought(w), Stays(q, 2, m)
        PROVE  \E k \in 1..Len(q) : m \in Brought(q[k]) /\ Stays(q, k + 1, m)
    BY <2>1, <2>5
  <2>6. ASSUME NEW k \in 1..Len(r), m \in Brought(r[k]), Stays(r, k + 1, m)
        PROVE  \E i \in 1..Len(q) : m \in Brought(q[i]) /\ Stays(q, i + 1, m)
    BY <2>2, <2>6
  <2> QED BY <2>4, <2>5, <2>6
<1>8. WillShow(c, m) <=>
        \/ m \in ToSet(messages[c]) /\ Stays(q, 1, m)
        \/ \E k \in 1..Len(q) : m \in Brought(q[k]) /\ Stays(q, k + 1, m)
  BY DEF WillShow, q
<1>9. WillShow(c, m)' <=>
        \/ m \in ToSet(messages'[c]) /\ Stays(r, 1, m)
        \/ \E k \in 1..Len(r) : m \in Brought(r[k]) /\ Stays(r, k + 1, m)
  BY DEF WillShow, r
<1> HIDE DEF Ok
<1> QED BY <1>2, <1>3, <1>5, <1>6, <1>7, <1>8, <1>9

\* A page to which nothing is on its way shows what it will show.
LEMMA ShowSettled ==
  ASSUME NEW c, NEW m, wire[c] = <<>>
  PROVE  WillShow(c, m) <=> m \in ToSet(messages[c])
<1>1. Len(wire[c]) = 0
  OBVIOUS
<1> QED BY <1>1 DEF WillShow, Stays

-----------------------------------------------------------------------------
(* The types                                                               *)

\* The tuples of variables are always expanded.
USE DEF pageVars, logs

\* The types of the invariant are those the runs check.
LEMMA TypesOK == Types => TypeOK
<1> SUFFICES ASSUME Types PROVE TypeOK
  OBVIOUS
<1>1. \A c \in Clients : \A k \in 1..Len(wire[c]) : wire[c][k] \in Wires
  BY DEF Types
<1>2. \A c \in Clients : \A k \in 1..Len(wire[c]) :
        wire[c][k] \in {"message"} \X Msgs
          \/ wire[c][k] \in {"messages"} \X Seq(Msgs)
  BY <1>1 DEF Wires
<1>3. \A t \in Running : t.sid \in Sids /\ t.emit \in Emits
  BY DEF Types, Handlers
<1>4. \A r \in Rooms : store[r] \in Seq(Msgs) /\ Len(store[r]) <= History
  BY DEF Types
<1>5. {buffer, out} \subseteq [Clients -> Seq(Emits)]
  BY DEF Types
<1> QED BY <1>2, <1>3, <1>4, <1>5 DEF Types, TypeOK

\* The events of a page.
LEMMA EmitKinds ==
  /\ \A r \in Rooms : /\ [kind |-> "join", room |-> r] \in Emits
                      /\ IsJoin([kind |-> "join", room |-> r])
  /\ \A r \in Rooms, m \in Msgs :
       /\ [kind |-> "message", room |-> r, msg |-> m] \in Emits
       /\ ~IsJoin([kind |-> "message", room |-> r, msg |-> m])
  /\ \A e \in Emits : e.room \in Rooms /\ (~IsJoin(e) => e.msg \in Msgs)
  BY DEF Emits, IsJoin

\* A handler that starts.
LEMMA HandlerType ==
  ASSUME NEW sid, NEW e
  PROVE  /\ sid \in Sids /\ e \in Emits => Handler(sid, e) \in Handlers
         /\ Handler(sid, e).sid = sid /\ Handler(sid, e).emit = e
         /\ Handler(sid, e).at = "start"
<1>1. <<>> \in Seq(Msgs)
  OBVIOUS
<1> QED BY <1>1 DEF Handler, Handlers, Ats

\* The socket of a page that is connected.
LEMMA SidType ==
  ASSUME Types, NEW c \in Clients
  PROVE  /\ c \in up => Sid(c) \in Sids
         /\ Sid(c)[1] = c /\ Sid(c)[2] = conns[c]
<1>1. c \in up => conns[c] \in 1..MaxConns
  <2>1. conns[c] \in 0..MaxConns /\ MaxConns \in Nat
    BY ConstantsOK DEF Types
  <2>2. c \in up => conns[c] > 0
    BY DEF Types
  <2> QED BY <2>1, <2>2
<1> QED BY <1>1 DEF Sid, Sids

\* An event that is emitted is spawned or kept.
\* What an event that is emitted leaves on its way, or kept.
LEMMA EmitSteps ==
  ASSUME Types, NEW c \in Clients, NEW e \in Emits, Emit(c, e)
  PROVE  /\ buffer' \in [Clients -> Seq(Emits)]
         /\ out' \in [Clients -> Seq(Emits)]
         /\ \A d \in Clients : d # c => buffer'[d] = buffer[d] /\ out'[d] = out[d]
         /\ \/ c \in up /\ out'[c] = Append(out[c], e) /\ buffer'[c] = buffer[c]
            \/ c \notin up /\ out'[c] = out[c] /\ buffer'[c] = Append(buffer[c], e)
<1>1. /\ buffer \in [Clients -> Seq(Emits)] /\ out \in [Clients -> Seq(Emits)]
      /\ Append(buffer[c], e) \in Seq(Emits) /\ Append(out[c], e) \in Seq(Emits)
  BY DEF Types
<1>2. CASE c \in up
  <2>1. out' = [out EXCEPT ![c] = Append(out[c], e)] /\ buffer' = buffer
    BY <1>2 DEF Emit
  <2> QED BY <1>1, <1>2, <2>1
<1>3. CASE c \notin up
  <2>1. buffer' = [buffer EXCEPT ![c] = Append(buffer[c], e)] /\ out' = out
    BY <1>3 DEF Emit
  <2> QED BY <1>1, <1>3, <2>1
<1> QED BY <1>2, <1>3

\* A handler that goes on is the same one further on.
LEMMA MoveType ==
  ASSUME NEW t \in Handlers, NEW at \in Ats
  PROVE  LET u == [t EXCEPT !.at = at]
         IN  /\ u \in Handlers /\ u.sid = t.sid /\ u.emit = t.emit
             /\ u.at = at /\ u.got = t.got
  BY DEF Handlers

\* A click keeps the types.
LEMMA ChangeRoomType ==
  ASSUME Types, NEW c \in Clients, NEW r \in Rooms, ChangeRoom(c, r)
  PROVE  Types'
<1>1. /\ buffer' \in [Clients -> Seq(Emits)]
      /\ out' \in [Clients -> Seq(Emits)]
  <2>1. Emit(c, [kind |-> "join", room |-> r])
    BY DEF ChangeRoom, RoomEffect
  <2>2. [kind |-> "join", room |-> r] \in Emits
    BY EmitKinds
  <2> QED BY <2>1, <2>2, EmitSteps
<1>2. <<>> \in Seq(Msgs)
  OBVIOUS
<1>3. /\ messages' \in [Clients -> Seq(Msgs)]
      /\ currentRoom' \in [Clients -> Rooms]
      /\ reached' \in [Clients -> {"nothing", "handler", "answer"}]
  BY <1>2 DEF ChangeRoom, RoomEffect, Types
<1>4. mixed' \subseteq Clients
  <2>1. mixed' = mixed \ {c} \/ mixed' = mixed \cup {c}
    BY DEF ChangeRoom
  <2> QED BY <2>1 DEF Types
<1>5. changes' \in 0..MaxChanges
  BY ConstantsOK DEF ChangeRoom, Types
<1>6. Running' = Running
  BY DEF ChangeRoom, Running
<1> QED BY <1>1, <1>3, <1>4, <1>5, <1>6 DEF ChangeRoom, Types

\* What a connection emits.
LEMMA ConnectFacts ==
  ASSUME Types, NEW c \in Clients, Connect(c)
  PROVE  LET join == [kind |-> "join", room |-> FirstRoom]
             events == Append(buffer[c], join)
         IN  /\ join \in Emits /\ IsJoin(join)
             /\ buffer[c] \in Seq(Emits) /\ events \in Seq(Emits)
             /\ out' = [out EXCEPT ![c] = events]
             /\ JoinsIn(events) = JoinsIn(buffer[c]) \cup {join}
             /\ \/ mixed' = mixed \cup {c}
                \/ /\ mixed' = mixed \ {c}
                   /\ \A e \in JoinsIn(events) : e.room = currentRoom[c]
<1> DEFINE join == [kind |-> "join", room |-> FirstRoom]
           events == Append(buffer[c], join)
<1>1. join \in Emits /\ IsJoin(join) /\ buffer[c] \in Seq(Emits)
  BY EmitKinds, ConstantsOK DEF Types
<1>2. /\ out' = [out EXCEPT ![c] = events]
      /\ mixed' = IF \A e \in JoinsIn(events) : e.room = currentRoom[c]
                  THEN mixed \ {c} ELSE mixed \cup {c}
  BY DEF Connect
<1> HIDE DEF join
<1>3. /\ events \in Seq(Emits)
      /\ JoinsIn(events) = JoinsIn(buffer[c]) \cup {x \in {join} : IsJoin(x)}
  BY <1>1, JoinsAppend
<1> HIDE DEF events
<1>4. JoinsIn(events) = JoinsIn(buffer[c]) \cup {join}
  BY <1>1, <1>3
<1>5. \/ mixed' = mixed \cup {c}
      \/ /\ mixed' = mixed \ {c}
         /\ \A e \in JoinsIn(events) : e.room = currentRoom[c]
  BY <1>2
<1> QED BY <1>1, <1>2, <1>3, <1>4, <1>5 DEF join, events

\* What was kept without connection is emitted with the right types.
LEMMA ConnectType ==
  ASSUME Types, NEW c \in Clients, Connect(c)
  PROVE  Types'
<1> DEFINE events == Append(buffer[c], [kind |-> "join", room |-> FirstRoom])
<1>1. /\ events \in Seq(Emits) /\ out' = [out EXCEPT ![c] = events]
      /\ mixed' = mixed \cup {c} \/ mixed' = mixed \ {c}
  BY ConnectFacts
<1> HIDE DEF events
<1>2. conns' \in [Clients -> 0..MaxConns] /\ \A d \in up' : conns'[d] > 0
      /\ up' \subseteq Clients
  <2>1. /\ conns' = [conns EXCEPT ![c] = conns[c] + 1] /\ up' = up \cup {c}
        /\ conns[c] \in 0..MaxConns /\ conns[c] < MaxConns
        /\ conns \in [Clients -> 0..MaxConns] /\ MaxConns \in Nat
    BY ConstantsOK DEF Connect, Types
  <2>2. conns[c] + 1 \in 0..MaxConns /\ conns[c] + 1 > 0
    BY <2>1
  <2> QED BY <2>1, <2>2 DEF Types
<1>3. /\ UNCHANGED <<currentRoom, messages, wire, member, store, tasks, sent,
                     changes, logs>>
      /\ buffer' = [buffer EXCEPT ![c] = <<>>]
      /\ listening' = [listening EXCEPT ![c] = 0]
      /\ reached' = [reached EXCEPT ![c] = "nothing"]
  BY DEF Connect
<1>4. /\ buffer' \in [Clients -> Seq(Emits)]
      /\ out' \in [Clients -> Seq(Emits)]
  <2>1. <<>> \in Seq(Emits)
    OBVIOUS
  <2> QED BY <1>1, <1>3, <2>1 DEF Types
<1>5. /\ listening' \in [Clients -> 0..2]
      /\ reached' \in [Clients -> {"nothing", "handler", "answer"}]
  <2>1. listening \in [Clients -> 0..2] /\ 0 \in 0..2
    BY DEF Types
  <2>2. reached \in [Clients -> {"nothing", "handler", "answer"}]
    BY DEF Types
  <2> QED BY <1>3, <2>1, <2>2
<1>6. mixed' \subseteq Clients
  BY <1>1 DEF Types
<1>7. Running' = Running
  BY <1>3 DEF Running
<1> QED BY <1>2, <1>3, <1>4, <1>5, <1>6, <1>7 DEF Types

\* A message that is sent is a new one.
LEMMA SendMessageType ==
  ASSUME Types, NEW c \in Clients, SendMessage(c)
  PROVE  Types'
<1>1. sent + 1 \in 1..MaxMsgs /\ currentRoom[c] \in Rooms
  BY ConstantsOK DEF SendMessage, Types
<1> DEFINE m == <<currentRoom[c], sent + 1>>
           e == [kind |-> "message", room |-> currentRoom[c], msg |-> m]
<1>2. m \in Msgs
  BY <1>1 DEF Msgs
<1>3. Emit(c, e)
  BY DEF SendMessage
<1> HIDE DEF m
<1>4. e \in Emits
  BY <1>1, <1>2, EmitKinds
<1> HIDE DEF e
<1>5. /\ buffer' \in [Clients -> Seq(Emits)]
      /\ out' \in [Clients -> Seq(Emits)]
  BY <1>3, <1>4, EmitSteps
<1>6. sent' \in 0..MaxMsgs
  BY <1>1 DEF SendMessage
<1>7. Running' = Running
  BY DEF SendMessage, Running
<1> QED BY <1>5, <1>6, <1>7 DEF SendMessage, Types

\* The first event of a page.
LEMMA HeadType ==
  ASSUME Types, NEW c \in Clients, wire[c] # <<>>
  PROVE  /\ Head(wire[c]) \in Wires /\ Tail(wire[c]) \in Seq(Wires)
         /\ Head(wire[c])[1] = "message" => Head(wire[c])[2] \in Msgs
         /\ Head(wire[c])[1] = "messages" => Head(wire[c])[2] \in Seq(Msgs)
<1>1. Head(wire[c]) \in Wires /\ Tail(wire[c]) \in Seq(Wires)
  BY DEF Types
<1> QED BY <1>1 DEF Wires

\* An event that arrives is shown, and is of the types of the wire.
LEMMA OnEventType ==
  ASSUME Types, NEW c \in Clients, OnMessage(c) \/ OnMessages(c)
  PROVE  Types'
<1>1. /\ Tail(wire[c]) \in Seq(Wires)
      /\ Head(wire[c])[1] = "message" => Head(wire[c])[2] \in Msgs
      /\ Head(wire[c])[1] = "messages" => Head(wire[c])[2] \in Seq(Msgs)
  BY HeadType DEF OnMessage, OnMessages
<1>2. messages' \in [Clients -> Seq(Msgs)]
  <2>1. CASE OnMessage(c)
    <3>1. Append(messages[c], Head(wire[c])[2]) \in Seq(Msgs)
      BY <1>1, <2>1 DEF OnMessage, Types
    <3> QED BY <2>1, <3>1 DEF OnMessage, Types
  <2>2. CASE OnMessages(c)
    BY <1>1, <2>2 DEF OnMessages, Types
  <2> QED BY <2>1, <2>2
<1>3. wire' \in [Clients -> Seq(Wires)]
  <2>1. wire' = [wire EXCEPT ![c] = Tail(wire[c])]
    BY DEF OnMessage, OnMessages
  <2> QED BY <1>1, <2>1 DEF Types
<1>4. UNCHANGED <<currentRoom, conns, up, buffer, out, listening, member,
                  store, tasks, sent, changes, mixed, reached, logs>>
  BY DEF OnMessage, OnMessages
<1> QED BY <1>2, <1>3, <1>4 DEF Types, Running

\* A broken connection only takes away.
\* A broken connection only takes away.
LEMMA DisconnectType ==
  ASSUME Types, NEW c \in Clients, Disconnect(c)
  PROVE  Types'
<1>1. Running' = Running
  BY DEF Disconnect, Running
<1>2. wire' \in [Clients -> Seq(Wires)] /\ out' \in [Clients -> Seq(Emits)]
  <2>1. <<>> \in Seq(Wires) /\ <<>> \in Seq(Emits)
    OBVIOUS
  <2> QED BY <2>1 DEF Disconnect, Types
<1>3. up' \subseteq up /\ member' \subseteq member
  BY DEF Disconnect
<1> QED BY <1>1, <1>2, <1>3 DEF Disconnect, Types

\* The first event that a page emitted.
LEMMA OutHead ==
  ASSUME Types, NEW c \in Clients, out[c] # <<>>
  PROVE  /\ Head(out[c]) \in Emits /\ Tail(out[c]) \in Seq(Emits)
         /\ out[c] \in Seq(Emits)
  BY DEF Types

\* An event that arrives has a handler.
LEMMA ArriveSteps ==
  ASSUME Types, NEW c \in Clients, Arrive(c)
  PROVE  LET h == Handler(Sid(c), Head(out[c]))
         IN  /\ IsABag(tasks') /\ Running' = Running \cup {h}
             /\ h \in Handlers /\ h.sid = Sid(c) /\ h.emit = Head(out[c])
             /\ h.at = "start"
<1> DEFINE h == Handler(Sid(c), Head(out[c]))
<1>1. c \in up /\ Head(out[c]) \in Emits
  BY OutHead DEF Arrive
<1>2. /\ h \in Handlers /\ h.sid = Sid(c) /\ h.emit = Head(out[c])
      /\ h.at = "start"
  BY <1>1, SidType, HandlerType
<1>3. tasks' = tasks (+) SetToBag({h})
  BY DEF Arrive
<1> HIDE DEF h
<1>4. IsABag(tasks') /\ Running' = Running \cup {h}
  BY <1>3, PutSteps DEF Types
<1> QED BY <1>2, <1>4 DEF h

\* The steps of a socket keep the types.
LEMMA SocketType ==
  ASSUME Types, NEW c \in Clients, Socket(c)
  PROVE  Types'
<1>1. CASE Register(c)
  <2>1. listening' \in [Clients -> 0..2]
    <3>1. listening[c] \in 0..2 /\ listening[c] < 2
          /\ listening' = [listening EXCEPT ![c] = listening[c] + 1]
      BY <1>1 DEF Register, Types
    <3>2. listening[c] + 1 \in 0..2
      BY <3>1
    <3> QED BY <3>1, <3>2 DEF Types
  <2>2. Running' = Running
    BY <1>1 DEF Register, Running
  <2> QED BY <1>1, <2>1, <2>2 DEF Register, Types
<1>2. CASE Arrive(c)
  <2>1. IsABag(tasks') /\ Running' \subseteq Handlers
    BY <1>2, ArriveSteps DEF Types
  <2>2. out' \in [Clients -> Seq(Emits)]
    BY <1>2, OutHead DEF Arrive, Types
  <2>3. reached' \in [Clients -> {"nothing", "handler", "answer"}]
    <3>1. reached[c] \in {"nothing", "handler", "answer"}
      BY DEF Types
    <3>2. PICK v \in {"nothing", "handler", "answer"} :
            reached' = [reached EXCEPT ![c] = v]
      BY <1>2, <3>1 DEF Arrive
    <3> QED BY <3>2 DEF Types
  <2> QED BY <1>2, <2>1, <2>2, <2>3 DEF Arrive, Types
<1>3. CASE Ignore(c)
  <2>1. out' \in [Clients -> Seq(Emits)]
    BY <1>3, OutHead DEF Ignore, Types
  <2>2. Running' = Running
    BY <1>3 DEF Ignore, Running
  <2> QED BY <1>3, <2>1, <2>2 DEF Ignore, Types
<1> QED BY <1>1, <1>2, <1>3 DEF Socket

\* What the handlers do to each other.
LEMMA MoveSteps ==
  ASSUME Types, NEW t \in Running, NEW at \in Ats, Move(t, at)
  PROVE  LET u == [t EXCEPT !.at = at]
         IN  /\ IsABag(tasks') /\ u \in Running'
             /\ Running' \subseteq Running \cup {u}
             /\ Running \ {t} \subseteq Running'
             /\ Running' \subseteq Handlers
             /\ u \in Handlers /\ u.sid = t.sid /\ u.emit = t.emit
             /\ u.at = at /\ u.got = t.got
<1> DEFINE u == [t EXCEPT !.at = at]
<1>1. /\ u \in Handlers /\ u.sid = t.sid /\ u.emit = t.emit
      /\ u.at = at /\ u.got = t.got
  BY MoveType DEF Types
<1>2. Become(t, u)
  BY DEF Move
<1> HIDE DEF u
<1>3. /\ IsABag(tasks') /\ u \in Running'
      /\ Running' \subseteq Running \cup {u}
      /\ Running \ {t} \subseteq Running'
  BY <1>2, BecomeSteps DEF Types
<1> QED BY <1>1, <1>3 DEF Types, u

\* The messages of the room are read, oldest first.
LEMMA GetSteps ==
  ASSUME Types, NEW t \in Running, GetMessages(t)
  PROVE  LET u == [t EXCEPT !.at = "read", !.got = Reverse(store[t.emit.room])]
         IN  /\ IsABag(tasks') /\ u \in Running'
             /\ Running' \subseteq Running \cup {u}
             /\ Running \ {t} \subseteq Running'
             /\ Running' \subseteq Handlers
             /\ u \in Handlers /\ u.sid = t.sid /\ u.emit = t.emit
             /\ u.at = "read" /\ ToSet(u.got) = ToSet(store[t.emit.room])
<1> DEFINE s == Reverse(store[t.emit.room])
           u == [t EXCEPT !.at = "read", !.got = s]
<1>1. t \in Handlers /\ t.emit \in Emits
  BY DEF Types, Handlers
<1>2. store[t.emit.room] \in Seq(Msgs)
  BY <1>1, EmitKinds DEF Types
<1>3. s \in Seq(Msgs) /\ ToSet(s) = ToSet(store[t.emit.room])
  BY <1>2, ReverseSet
<1>4. Become(t, u)
  BY DEF GetMessages
<1> HIDE DEF s
<1>5. /\ u \in Handlers /\ u.sid = t.sid /\ u.emit = t.emit
      /\ u.at = "read" /\ u.got = s
  BY <1>1, <1>3 DEF Handlers, Ats
<1> HIDE DEF u
<1>6. /\ IsABag(tasks') /\ u \in Running'
      /\ Running' \subseteq Running \cup {u}
      /\ Running \ {t} \subseteq Running'
  BY <1>4, BecomeSteps DEF Types
<1> QED BY <1>3, <1>5, <1>6 DEF Types, u, s

\* An answer that goes out, or is refused, or has no one to go to.
LEMMA AnswerSteps ==
  ASSUME Types, NEW t \in Running, EmitMessages(t)
  PROVE  LET c == t.sid[1]
             w == <<"messages", t.got>>
             read == ToSet(t.got)
         IN  /\ c \in Clients /\ w \in Wires /\ t.got \in Seq(Msgs)
             /\ \/ /\ Live(t.sid)
                   /\ wire' = [wire EXCEPT ![c] = Append(@, w)]
                   /\ reached' = [reached EXCEPT ![c] = "answer"]
                   /\ \A p : p \in raced' \cup refused' =>
                        p \in raced \cup refused \/ p \in {c} \X Msgs
                   /\ \A d, m : d # c =>
                        (<<d, m>> \in raced' <=> <<d, m>> \in raced)
                        /\ (<<d, m>> \in refused' <=> <<d, m>> \in refused)
                   /\ \A m \in ToSet(store[t.emit.room]) \ read :
                        <<c, m>> \in raced'
                \/ /\ Live(t.sid)
                   /\ wire' = wire /\ reached' = reached /\ raced' = raced
                   /\ refused' = refused \cup ({c} \X read)
                   /\ refused' \subseteq refused \cup ({c} \X Msgs)
                   /\ \A m \in read : <<c, m>> \in refused'
                \/ ~Live(t.sid) /\ UNCHANGED <<wire, reached, raced, refused>>
<1> DEFINE c == t.sid[1]
           w == <<"messages", t.got>>
           R == ToSet(t.got)
           St == ToSet(store[t.emit.room])
<1>1. /\ c \in Clients /\ w \in Wires /\ t.got \in Seq(Msgs)
      /\ t.emit.room \in Rooms
  BY EmitKinds DEF Types, Handlers, Sids, Wires
<1>2. R \subseteq Msgs /\ St \subseteq Msgs
  BY <1>1, InSeq DEF Types
<1>3. \/ /\ Live(t.sid)
         /\ wire' = [wire EXCEPT ![c] = Append(@, w)]
         /\ reached' = [reached EXCEPT ![c] = "answer"]
         /\ raced' = (raced \cup ({c} \X St)) \ ({c} \X R)
         /\ refused' = refused \ ({c} \X R)
      \/ /\ Live(t.sid)
         /\ refused' = refused \cup ({c} \X R)
         /\ UNCHANGED <<wire, reached, raced>>
      \/ ~Live(t.sid) /\ UNCHANGED <<wire, reached, raced, refused>>
  BY DEF EmitMessages
<1> HIDE DEF c, w, R, St
<1>4. CASE /\ Live(t.sid)
           /\ wire' = [wire EXCEPT ![c] = Append(@, w)]
           /\ reached' = [reached EXCEPT ![c] = "answer"]
           /\ raced' = (raced \cup ({c} \X St)) \ ({c} \X R)
           /\ refused' = refused \ ({c} \X R)
  <2>1. \A p : p \in raced' \cup refused' =>
                 p \in raced \cup refused \/ p \in {c} \X Msgs
    BY <1>2, <1>4
  <2>2. \A d, m : d # c => (<<d, m>> \in raced' <=> <<d, m>> \in raced)
                           /\ (<<d, m>> \in refused' <=> <<d, m>> \in refused)
    BY <1>4
  <2>3. \A m \in St \ R : <<c, m>> \in raced'
    BY <1>4
  <2> QED BY <1>1, <1>4, <2>1, <2>2, <2>3 DEF c, w, R, St
<1>5. CASE /\ Live(t.sid)
           /\ refused' = refused \cup ({c} \X R)
           /\ UNCHANGED <<wire, reached, raced>>
  <2>1. refused' \subseteq refused \cup ({c} \X Msgs)
        /\ \A m \in R : <<c, m>> \in refused'
    BY <1>2, <1>5
  <2> QED BY <1>1, <1>5, <2>1 DEF c, w, R, St
<1>6. CASE ~Live(t.sid) /\ UNCHANGED <<wire, reached, raced, refused>>
  BY <1>1, <1>6 DEF c, w, R, St
<1> QED BY <1>3, <1>4, <1>5, <1>6

\* A message goes to a page whose channel takes it, or that one is full.
LEMMA BroadcastSteps ==
  ASSUME Types, NEW t \in Running, Broadcast(t), t.emit.msg \in Msgs
  PROVE  LET w == <<"message", t.emit.msg>>
         IN  /\ w \in Wires /\ DOMAIN wire' = Clients
             /\ refused \subseteq refused'
             /\ refused' \subseteq refused \cup (Clients \X Msgs)
             /\ \A c \in Clients :
                  \/ c \in Receivers(t) /\ wire'[c] = Append(wire[c], w)
                  \/ /\ wire'[c] = wire[c]
                     /\ c \in Receivers(t) => <<c, t.emit.msg>> \in refused'
             /\ wire' \in [Clients -> Seq(Wires)]
<1> DEFINE m == t.emit.msg
           w == <<"message", m>>
<1>1. Receivers(t) \subseteq Clients
  BY DEF Receivers, Types
<1>2. w \in Wires
  BY DEF Wires
<1>3. PICK got \in SUBSET Receivers(t) :
        /\ wire' = [c \in Clients |-> IF c \in got THEN Append(wire[c], w)
                                      ELSE wire[c]]
        /\ refused' = refused \cup ((Receivers(t) \ got) \X {m})
  BY DEF Broadcast
<1> HIDE DEF w, m
<1>4. \A c \in Clients :
        \/ c \in Receivers(t) /\ wire'[c] = Append(wire[c], w)
        \/ /\ wire'[c] = wire[c]
           /\ c \in Receivers(t) => <<c, m>> \in refused'
  BY <1>3
<1>5. wire' \in [Clients -> Seq(Wires)]
  <2>1. \A c \in Clients : wire[c] \in Seq(Wires)
    BY DEF Types
  <2>2. \A c \in Clients : Append(wire[c], w) \in Seq(Wires)
    BY <1>2, <2>1
  <2> QED BY <1>3, <2>1, <2>2
<1>6. refused \subseteq refused' /\ refused' \subseteq refused \cup (Clients \X Msgs)
  <2>1. m \in Msgs
    BY DEF m
  <2> QED BY <1>1, <1>3, <2>1
<1>7. DOMAIN wire' = Clients
  BY <1>3
<1> QED BY <1>2, <1>4, <1>5, <1>6, <1>7 DEF w, m

\* The steps of the handlers keep the types.
LEMMA ServerType ==
  ASSUME Types, Homes, NEW t \in Running, Server(t)
  PROVE  Types'
<1> USE DEF Types
<1>1. /\ t \in Handlers /\ t.sid \in Sids /\ t.emit \in Emits
      /\ t.emit.room \in Rooms /\ (~IsJoin(t.emit) => t.emit.msg \in Msgs)
      /\ t.got \in Seq(Msgs)
  BY EmitKinds DEF Handlers
<1>2. CASE LeaveAll(t)
  <2>1. IsABag(tasks') /\ Running' \subseteq Handlers
    BY <1>2, MoveSteps DEF LeaveAll, Ats
  <2>2. member' \subseteq member
    BY <1>2 DEF LeaveAll
  <2> QED BY <1>2, <2>1, <2>2 DEF LeaveAll
<1>3. CASE Join(t)
  <2>1. IsABag(tasks') /\ Running' \subseteq Handlers
    BY <1>3, MoveSteps DEF Join, Ats
  <2>2. member' \subseteq Sids \X Rooms
    BY <1>1, <1>3 DEF Join
  <2> QED BY <1>3, <2>1, <2>2 DEF Join
<1>4. CASE GetMessages(t)
  <2>1. IsABag(tasks') /\ Running' \subseteq Handlers
    BY <1>4, GetSteps
  <2> QED BY <1>4, <2>1 DEF GetMessages
<1>5. CASE EmitMessages(t)
  <2>1. IsABag(tasks') /\ Running' \subseteq Running
    BY <1>5, EndSteps DEF EmitMessages
  <2>2. /\ wire' \in [Clients -> Seq(Wires)]
        /\ reached' \in [Clients -> {"nothing", "handler", "answer"}]
    <3> DEFINE c == t.sid[1]
               w == <<"messages", t.got>>
    <3>1. /\ c \in Clients /\ w \in Wires
          /\ \/ /\ wire' = [wire EXCEPT ![c] = Append(@, w)]
                /\ reached' = [reached EXCEPT ![c] = "answer"]
             \/ wire' = wire /\ reached' = reached
      BY <1>5, AnswerSteps
    <3> HIDE DEF c, w
    <3>2. Append(wire[c], w) \in Seq(Wires)
      BY <3>1
    <3> QED BY <3>1, <3>2
  <2>3. raced' \subseteq Clients \X Msgs /\ refused' \subseteq Clients \X Msgs
    <3>1. \A p \in raced' \cup refused' :
            p \in raced \cup refused \/ p \in {t.sid[1]} \X Msgs
      BY <1>5, AnswerSteps
    <3>2. t.sid[1] \in Clients
      BY <1>1 DEF Sids
    <3> QED BY <3>1, <3>2
  <2> QED BY <1>5, <2>1, <2>2, <2>3 DEF EmitMessages
<1>6. CASE Insert(t)
  <2>1. IsABag(tasks') /\ Running' \subseteq Handlers
    BY <1>6, MoveSteps DEF Insert, Ats
  <2> DEFINE r == t.emit.room
             m == t.emit.msg
             s == Truncate(<<m>> \o store[r])
             l == Append(log[r], m)
  <2>2. r \in Rooms /\ m \in Msgs
    BY <1>1, <1>6 DEF Insert
  <2>3. store' = [store EXCEPT ![r] = s] /\ log' = [log EXCEPT ![r] = l]
    BY <1>6 DEF Insert
  <2> HIDE DEF r, m
  <2>4. /\ store[r] \in Seq(Msgs) /\ Len(store[r]) <= History
        /\ log[r] \in Seq(Msgs)
    BY <2>2
  <2> HIDE DEF Types
  <2>5. s \in Seq(Msgs) /\ Len(s) <= History
    BY <2>2, <2>4, TruncateSet
  <2>6. l \in Seq(Msgs)
    BY <2>2, <2>4
  <2> HIDE DEF s, l
  <2>7. /\ store' \in [Rooms -> Seq(Msgs)] /\ log' \in [Rooms -> Seq(Msgs)]
        /\ \A x \in Rooms : Len(store'[x]) <= History
    BY <2>2, <2>3, <2>5, <2>6 DEF Types
  <2> QED BY <1>6, <2>1, <2>7 DEF Insert, Types
<1>7. CASE Broadcast(t)
  <2>1. IsABag(tasks') /\ Running' \subseteq Running
    BY <1>7, EndSteps DEF Broadcast
  <2>2. t.emit.msg \in Msgs
    BY <1>1, <1>7 DEF Homes, Broadcast
  <2>3. /\ wire' \in [Clients -> Seq(Wires)]
        /\ refused' \subseteq refused \cup (Clients \X Msgs)
    BY <1>7, <2>2, BroadcastSteps
  <2> QED BY <1>7, <2>1, <2>3 DEF Broadcast
<1> QED BY <1>2, <1>3, <1>4, <1>5, <1>6, <1>7 DEF Server

-----------------------------------------------------------------------------
(* Messages are at home                                                    *)

\* What a handler says of itself.
Honest(t) ==
  /\ t.sid[2] <= conns[t.sid[1]] /\ Sound(t.emit)
  /\ t.at \in {"left", "joined", "read"} => IsJoin(t.emit)
  /\ t.at = "stored" => ~IsJoin(t.emit)
  /\ t.at = "read" => \A m \in ToSet(t.got) : m[1] = t.emit.room

\* A socket is of a client, and its number is a number.
LEMMA SidParts ==
  ASSUME Types
  PROVE  /\ \A s \in Sids : s[1] \in Clients /\ s[2] \in Nat
         /\ \A t \in Running : t.sid \in Sids
         /\ \A p \in member : p[1] \in Sids
<1>1. \A s \in Sids : s[1] \in Clients /\ s[2] \in Nat
  BY ConstantsOK DEF Sids
<1>2. \A t \in Handlers : t.sid \in Sids
  BY DEF Handlers
<1>3. \A p \in Sids \X Rooms : p[1] \in Sids
  OBVIOUS
<1>4. Running \subseteq Handlers /\ member \subseteq Sids \X Rooms
  BY DEF Types
<1> QED BY <1>1, <1>2, <1>3, <1>4

\* Events stay sound when a sound one is put at the end...
LEMMA SoundAppend ==
  ASSUME NEW q \in Seq(Emits), NEW e \in Emits, Sound(e),
         \A k \in 1..Len(q) : Sound(q[k])
  PROVE  \A k \in 1..Len(Append(q, e)) : Sound(Append(q, e)[k])
<1> SUFFICES ASSUME NEW k \in 1..Len(Append(q, e)) PROVE Sound(Append(q, e)[k])
  OBVIOUS
<1>1. CASE k = Len(q) + 1
  BY <1>1
<1>2. CASE k # Len(q) + 1
  <2>1. k \in 1..Len(q) /\ Append(q, e)[k] = q[k]
    BY <1>2
  <2> QED BY <2>1
<1> QED BY <1>1, <1>2

\* ... and when the first one is taken.
LEMMA SoundTail ==
  ASSUME Types, Homes, NEW c \in Clients, out[c] # <<>>,
         out' = [out EXCEPT ![c] = Tail(@)]
  PROVE  /\ \A d \in Clients : \A k \in 1..Len(out'[d]) : Sound(out'[d][k])
         /\ Sound(Head(out[c]))
<1> DEFINE q == out[c]
           p == Tail(q)
<1>1. q \in Seq(Emits) /\ q # <<>> /\ \A k \in 1..Len(q) : Sound(q[k])
  BY DEF Types, Homes
<1>2. out'[c] = p /\ \A d \in Clients : d # c => out'[d] = out[d]
  BY DEF Types
<1> HIDE DEF q
<1>3. /\ \A i \in 1..Len(p) : \E j \in 1..Len(q) : p[i] = q[j]
      /\ 1 \in 1..Len(q) /\ Head(q) = q[1]
  BY <1>1, JoinsTail
<1> HIDE DEF p
<1>4. Sound(Head(q)) /\ \A k \in 1..Len(p) : Sound(p[k])
  BY <1>1, <1>3
<1> QED BY <1>2, <1>4 DEF Homes, q

\* An emitted event is sound, wherever it goes.
LEMMA EmitHomes ==
  ASSUME Types, Homes, NEW c \in Clients, NEW e \in Emits, Sound(e),
         Emit(c, e), UNCHANGED <<conns, tasks, member, store>>
  PROVE  Homes'
<1>1. /\ \A d \in Clients : d # c => buffer'[d] = buffer[d] /\ out'[d] = out[d]
      /\ \/ out'[c] = Append(out[c], e) /\ buffer'[c] = buffer[c]
         \/ out'[c] = out[c] /\ buffer'[c] = Append(buffer[c], e)
  BY EmitSteps
<1>2. /\ out[c] \in Seq(Emits) /\ buffer[c] \in Seq(Emits)
      /\ \A k \in 1..Len(out[c]) : Sound(out[c][k])
      /\ \A k \in 1..Len(buffer[c]) : Sound(buffer[c][k])
  BY DEF Types, Homes
<1>3. /\ \A k \in 1..Len(Append(out[c], e)) : Sound(Append(out[c], e)[k])
      /\ \A k \in 1..Len(Append(buffer[c], e)) : Sound(Append(buffer[c], e)[k])
  BY <1>2, SoundAppend
<1>4. /\ \A d \in Clients : \A k \in 1..Len(buffer'[d]) : Sound(buffer'[d][k])
      /\ \A d \in Clients : \A k \in 1..Len(out'[d]) : Sound(out'[d][k])
  BY <1>1, <1>2, <1>3 DEF Homes
<1>5. Running' = Running
  BY DEF Running
<1> QED BY <1>4, <1>5 DEF Homes

\* What was kept without connection is emitted as it was.
LEMMA ConnectHomes ==
  ASSUME Types, Homes, NEW c \in Clients, Connect(c)
  PROVE  Homes'
<1> DEFINE join == [kind |-> "join", room |-> FirstRoom]
           events == Append(buffer[c], join)
<1>1. /\ join \in Emits /\ IsJoin(join) /\ buffer[c] \in Seq(Emits)
      /\ out' = [out EXCEPT ![c] = events]
  BY ConnectFacts
<1> HIDE DEF join
<1>2. \A k \in 1..Len(events) : Sound(events[k])
  BY <1>1, SoundAppend DEF Homes, Sound
<1> HIDE DEF events
<1>3. /\ conns' = [conns EXCEPT ![c] = conns[c] + 1]
      /\ buffer' = [buffer EXCEPT ![c] = <<>>]
      /\ UNCHANGED <<store, member, tasks>>
  BY DEF Connect
<1>4. \A d \in Clients : /\ conns[d] \in Nat /\ conns'[d] \in Nat
                         /\ conns[d] <= conns'[d]
  <2>1. \A d \in Clients : conns[d] \in Nat
    BY ConstantsOK DEF Types
  <2>2. conns'[c] = conns[c] + 1 /\ \A d \in Clients : d # c => conns'[d] = conns[d]
    BY <1>3 DEF Types
  <2> QED BY <2>1, <2>2
<1>5. ASSUME NEW s \in Sids, s[2] <= conns[s[1]] PROVE s[2] <= conns'[s[1]]
  <2>1. s[1] \in Clients /\ s[2] \in Nat
    BY SidParts
  <2>2. /\ conns[s[1]] \in Nat /\ conns'[s[1]] \in Nat
        /\ conns[s[1]] <= conns'[s[1]]
    BY <1>4, <2>1
  <2> QED BY <1>5, <2>1, <2>2
<1>6. /\ \A t \in Running : t.sid[2] <= conns'[t.sid[1]]
      /\ \A p \in member : p[1][2] <= conns'[p[1][1]]
  <2>1. /\ \A t \in Running : t.sid \in Sids /\ t.sid[2] <= conns[t.sid[1]]
        /\ \A p \in member : p[1] \in Sids /\ p[1][2] <= conns[p[1][1]]
    BY SidParts DEF Homes
  <2> QED BY <1>5, <2>1
<1>7. /\ \A d \in Clients : \A k \in 1..Len(buffer'[d]) : Sound(buffer'[d][k])
      /\ \A d \in Clients : \A k \in 1..Len(out'[d]) : Sound(out'[d][k])
  <2>1. /\ buffer'[c] = <<>> /\ out'[c] = events
        /\ \A d \in Clients : d # c => buffer'[d] = buffer[d] /\ out'[d] = out[d]
    BY <1>1, <1>3 DEF Types
  <2>2. Len(buffer'[c]) = 0
    BY <2>1
  <2> QED BY <1>2, <2>1, <2>2 DEF Homes
<1>8. Running' = Running
  BY <1>3 DEF Running
<1> QED BY <1>3, <1>6, <1>7, <1>8 DEF Homes

\* The handler of an event is given a sound one.
LEMMA SocketHomes ==
  ASSUME Types, Homes, NEW c \in Clients, Socket(c)
  PROVE  Homes'
<1>1. CASE Register(c)
  BY <1>1 DEF Register, Homes, Running
<1>2. CASE Arrive(c)
  <2> DEFINE h == Handler(Sid(c), Head(out[c]))
  <2>1. /\ Running' = Running \cup {h} /\ h.sid = Sid(c)
        /\ h.emit = Head(out[c]) /\ h.at = "start"
    BY <1>2, ArriveSteps
  <2>2. /\ \A d \in Clients : \A k \in 1..Len(out'[d]) : Sound(out'[d][k])
        /\ Sound(Head(out[c]))
    BY <1>2, SoundTail DEF Arrive
  <2> HIDE DEF h
  <2>3. Honest(h)
    <3>1. h.sid[1] = c /\ h.sid[2] = conns[c]
      BY <2>1, SidType
    <3>2. conns[c] <= conns[c]
      <4>1. conns[c] \in Nat
        BY ConstantsOK DEF Types
      <4> QED BY <4>1
    <3>3. h.sid[2] <= conns[h.sid[1]]
      BY <3>1, <3>2
    <3> QED BY <2>1, <2>2, <3>3 DEF Honest
  <2> QED BY <1>2, <2>1, <2>2, <2>3 DEF Arrive, Homes, Honest
<1>3. CASE Ignore(c)
  <2>1. \A d \in Clients : \A k \in 1..Len(out'[d]) : Sound(out'[d][k])
    BY <1>3, SoundTail DEF Ignore
  <2>2. Running' = Running
    BY <1>3 DEF Ignore, Running
  <2> QED BY <1>3, <2>1, <2>2 DEF Ignore, Homes
<1> QED BY <1>1, <1>2, <1>3 DEF Socket

\* A handler that goes on stays honest.
LEMMA HandlerHomes ==
  ASSUME Homes, NEW t \in Running, NEW u, Running' \subseteq Running \cup {u},
         u.sid = t.sid, u.emit = t.emit,
         u.at \in {"left", "joined", "read"} => IsJoin(u.emit),
         u.at = "stored" => ~IsJoin(u.emit),
         u.at = "read" => \A m \in ToSet(u.got) : m[1] = u.emit.room,
         UNCHANGED <<conns, buffer, out>>,
         \A r \in Rooms : \A m \in ToSet(store'[r]) : m[1] = r,
         \A p \in member' : p[1][2] <= conns[p[1][1]]
  PROVE  Homes'
<1>1. Honest(u)
  BY DEF Honest, Homes
<1>2. \A v \in Running' : Honest(v)
  BY <1>1 DEF Honest, Homes
<1> QED BY <1>2 DEF Homes, Honest

\* A message is stored in the room its handler was given.
LEMMA ServerHomes ==
  ASSUME Types, Homes, NEW t \in Running, Server(t)
  PROVE  Homes'
<1>0. /\ t.emit \in Emits /\ t.emit.room \in Rooms
      /\ ~IsJoin(t.emit) => t.emit.msg \in Msgs /\ t.emit.msg[1] = t.emit.room
      /\ store \in [Rooms -> Seq(Msgs)]
      /\ \A r \in Rooms : Len(store[r]) <= History
  BY EmitKinds DEF Types, Handlers, Homes, Sound
<1>1. CASE LeaveAll(t)
  <2> DEFINE u == [t EXCEPT !.at = "left"]
  <2>1. Running' \subseteq Running \cup {u} /\ u.sid = t.sid /\ u.emit = t.emit
        /\ u.at = "left"
    BY <1>1, MoveSteps DEF LeaveAll, Ats
  <2> HIDE DEF u
  <2> QED BY <1>1, <2>1, HandlerHomes DEF LeaveAll, Homes
<1>2. CASE Join(t)
  <2> DEFINE u == [t EXCEPT !.at = "joined"]
  <2>1. Running' \subseteq Running \cup {u} /\ u.sid = t.sid /\ u.emit = t.emit
        /\ u.at = "joined"
    BY <1>2, MoveSteps DEF Join, Ats
  <2> HIDE DEF u
  <2>2. IsJoin(t.emit)
    BY <1>2 DEF Join, Homes
  <2>3. \A p \in member' : p[1][2] <= conns[p[1][1]]
    BY <1>2 DEF Join, Homes
  <2> QED BY <1>2, <2>1, <2>2, <2>3, HandlerHomes DEF Join, Homes
<1>3. CASE GetMessages(t)
  <2> DEFINE u == [t EXCEPT !.at = "read", !.got = Reverse(store[t.emit.room])]
  <2>1. Running' \subseteq Running \cup {u} /\ u.sid = t.sid /\ u.emit = t.emit
        /\ u.at = "read" /\ ToSet(u.got) = ToSet(store[t.emit.room])
    BY <1>3, GetSteps
  <2> HIDE DEF u
  <2>2. IsJoin(t.emit)
    BY <1>3 DEF GetMessages, Homes
  <2>3. \A m \in ToSet(u.got) : m[1] = u.emit.room
    BY <1>0, <2>1 DEF Homes
  <2> QED BY <1>3, <2>1, <2>2, <2>3, HandlerHomes DEF GetMessages, Homes
<1>4. CASE EmitMessages(t)
  <2>1. Running' \subseteq Running
    BY <1>4, EndSteps DEF EmitMessages, Types
  <2> QED BY <1>4, <2>1 DEF EmitMessages, Homes
<1>5. CASE Insert(t)
  <2> DEFINE u == [t EXCEPT !.at = "stored"]
  <2>1. Running' \subseteq Running \cup {u} /\ u.sid = t.sid /\ u.emit = t.emit
        /\ u.at = "stored"
    BY <1>5, MoveSteps DEF Insert, Ats
  <2> HIDE DEF u
  <2>2. \A r \in Rooms : \A m \in ToSet(store'[r]) : m[1] = r
    <3> DEFINE q == store[t.emit.room]
               s == Truncate(<<t.emit.msg>> \o q)
    <3>1. q \in Seq(Msgs) /\ Len(q) <= History /\ t.emit.msg \in Msgs
      BY <1>0, <1>5 DEF Insert
    <3> HIDE DEF q
    <3>2. ToSet(s) \subseteq ToSet(q) \cup {t.emit.msg}
      BY <3>1, TruncateSet
    <3>3. store' = [store EXCEPT ![t.emit.room] = s]
      BY <1>5 DEF Insert, q
    <3> HIDE DEF s
    <3>4. \A m \in ToSet(s) : m[1] = t.emit.room
      BY <1>0, <1>5, <3>2 DEF Insert, Homes, q
    <3> QED BY <1>0, <3>3, <3>4 DEF Homes
  <2>3. ~IsJoin(t.emit) /\ UNCHANGED <<conns, buffer, out, member>>
    BY <1>5 DEF Insert
  <2> QED BY <2>1, <2>2, <2>3, HandlerHomes DEF Homes
<1>6. CASE Broadcast(t)
  <2>1. Running' \subseteq Running
    BY <1>6, EndSteps DEF Broadcast, Types
  <2> QED BY <1>6, <2>1 DEF Broadcast, Homes
<1> QED BY <1>1, <1>2, <1>3, <1>4, <1>5, <1>6 DEF Server

\* Every step keeps the messages at home.
LEMMA HomesNext ==
  ASSUME Types, Homes, [Next]_vars
  PROVE  Homes'
<1>1. ASSUME NEW c \in Clients, NEW r \in Rooms, ChangeRoom(c, r) PROVE Homes'
  <2>1. /\ [kind |-> "join", room |-> r] \in Emits
        /\ Sound([kind |-> "join", room |-> r])
    BY EmitKinds DEF Sound
  <2>2. /\ Emit(c, [kind |-> "join", room |-> r])
        /\ UNCHANGED <<conns, tasks, member, store>>
    BY <1>1 DEF ChangeRoom, RoomEffect
  <2> QED BY <2>1, <2>2, EmitHomes
<1>2. ASSUME NEW c \in Clients, SendMessage(c) PROVE Homes'
  <2> DEFINE r == currentRoom[c]
             m == <<r, sent + 1>>
             e == [kind |-> "message", room |-> r, msg |-> m]
  <2>1. r \in Rooms /\ m \in Msgs /\ m[1] = r
    BY <1>2, ConstantsOK DEF SendMessage, Types, Msgs
  <2>2. Emit(c, e) /\ UNCHANGED <<conns, tasks, member, store>>
    BY <1>2 DEF SendMessage
  <2> HIDE DEF r, m
  <2>3. e \in Emits /\ Sound(e)
    BY <2>1, EmitKinds DEF Sound
  <2> HIDE DEF e
  <2> QED BY <2>2, <2>3, EmitHomes
<1>3. ASSUME NEW c \in Clients, OnMessage(c) \/ OnMessages(c) PROVE Homes'
  BY <1>3 DEF OnMessage, OnMessages, Homes, Running
<1>4. ASSUME NEW c \in Clients, Disconnect(c) PROVE Homes'
  <2>1. Running' = Running
    BY <1>4 DEF Disconnect, Running
  <2>2. /\ UNCHANGED <<conns, buffer, store>> /\ member' \subseteq member
        /\ \A d \in Clients : out'[d] = out[d] \/ out'[d] = <<>>
    BY <1>4 DEF Disconnect, Types
  <2>3. Len(<<>>) = 0
    OBVIOUS
  <2>4. \A d \in Clients : \A k \in 1..Len(out'[d]) : Sound(out'[d][k])
    BY <2>2, <2>3 DEF Homes
  <2> QED BY <2>1, <2>2, <2>4 DEF Homes
<1>5. CASE UNCHANGED vars
  BY <1>5 DEF vars, Homes, Running
<1> QED BY <1>1, <1>2, <1>3, <1>4, <1>5, ConnectHomes, SocketHomes, ServerHomes
        DEF Next, Page

\* Every step keeps the types.
LEMMA TypesNext ==
  ASSUME Types, Homes, [Next]_vars
  PROVE  Types'
<1>1. CASE UNCHANGED vars
  BY <1>1 DEF vars, Types, Running
<1> QED BY <1>1, ChangeRoomType, ConnectType, SendMessageType, OnEventType,
           DisconnectType, SocketType, ServerType DEF Next, Page

-----------------------------------------------------------------------------
(* Messages are stored, and kept                                           *)

\* What a handler stores is logged.
LEMMA InsertSteps ==
  ASSUME Types, Homes, NEW t \in Running, Insert(t)
  PROVE  LET r == t.emit.room
             m == t.emit.msg
         IN  /\ r \in Rooms /\ m \in Msgs /\ m[1] = r
             /\ store' = [store EXCEPT ![r] = Truncate(<<m>> \o @)]
             /\ log' = [log EXCEPT ![r] = Append(@, m)]
             /\ store[r] \in Seq(Msgs) /\ Len(store[r]) <= History
             /\ log[r] \in Seq(Msgs)
<1>1. ~IsJoin(t.emit) /\ t.emit \in Emits
  BY DEF Insert, Types, Handlers
<1>2. t.emit.room \in Rooms /\ t.emit.msg \in Msgs
  BY <1>1, EmitKinds
<1>3. t.emit.msg[1] = t.emit.room
  BY <1>1 DEF Homes, Sound
<1>4. /\ store' = [store EXCEPT ![t.emit.room] = Truncate(<<t.emit.msg>> \o @)]
      /\ log' = [log EXCEPT ![t.emit.room] = Append(@, t.emit.msg)]
  BY DEF Insert
<1>5. /\ store[t.emit.room] \in Seq(Msgs) /\ Len(store[t.emit.room]) <= History
      /\ log[t.emit.room] \in Seq(Msgs)
  BY <1>2 DEF Types
<1> QED BY <1>2, <1>3, <1>4, <1>5

\* No other step stores.
LEMMA SameStore ==
  ASSUME [Next]_vars
  PROVE  UNCHANGED <<store, log>> \/ \E t \in Running : Insert(t)
<1>1. ASSUME NEW c \in Clients, Page(c) \/ Socket(c) \/ Disconnect(c)
      PROVE  UNCHANGED <<store, log>>
  BY <1>1 DEF Page, ChangeRoom, Connect, SendMessage, OnMessage, OnMessages,
     Socket, Register, Arrive, Ignore, Disconnect
<1>2. ASSUME NEW t \in Running, Server(t)
      PROVE  UNCHANGED <<store, log>> \/ Insert(t)
  BY <1>2 DEF Server, LeaveAll, Join, GetMessages, EmitMessages, Broadcast
<1>3. CASE UNCHANGED vars
  BY <1>3 DEF vars
<1> QED BY <1>1, <1>2, <1>3 DEF Next

\* The store stays the end of the log.
LEMMA StoresNext ==
  ASSUME Types, Homes, Stores, [Next]_vars
  PROVE  Stores'
<1>1. CASE UNCHANGED <<store, log>>
  BY <1>1 DEF Stores
<1>2. ASSUME NEW t \in Running, Insert(t) PROVE Stores'
  <2> DEFINE r == t.emit.room
             m == t.emit.msg
             q == store[r]
             p == log[r]
             s == Truncate(<<m>> \o q)
             l == Append(p, m)
  <2>1. /\ r \in Rooms /\ m \in Msgs /\ q \in Seq(Msgs) /\ p \in Seq(Msgs)
        /\ store' = [store EXCEPT ![r] = s] /\ log' = [log EXCEPT ![r] = l]
    BY <1>2, InsertSteps
  <2>2. /\ Len(q) = IF Len(p) <= History THEN Len(p) ELSE History
        /\ \A j \in 1..Len(q) : q[j] = p[Len(p) - j + 1]
    BY <2>1 DEF Stores
  <2> HIDE DEF r, m, q, p
  <2>3. /\ Len(s) = IF Len(l) <= History THEN Len(l) ELSE History
        /\ \A j \in 1..Len(s) : s[j] = l[Len(l) - j + 1]
    BY <2>1, <2>2, TruncateLog
  <2> HIDE DEF s, l
  <2>4. /\ store'[r] = s /\ log'[r] = l
        /\ \A x \in Rooms : x # r => store'[x] = store[x] /\ log'[x] = log[x]
    BY <2>1 DEF Types
  <2>5. ASSUME NEW x \in Rooms
        PROVE  /\ Len(store'[x]) = IF Len(log'[x]) <= History THEN Len(log'[x])
                                   ELSE History
               /\ \A j \in 1..Len(store'[x]) :
                    store'[x][j] = log'[x][Len(log'[x]) - j + 1]
    <3>1. CASE x = r
      BY <2>3, <2>4, <3>1
    <3>2. CASE x # r
      BY <2>4, <3>2 DEF Stores
    <3> QED BY <3>1, <3>2
  <2> QED BY <2>5 DEF Stores
<1>3. UNCHANGED <<store, log>> \/ \E t \in Running : Insert(t)
  BY SameStore
<1> QED BY <1>1, <1>2, <1>3

\* What was stored stays in the log.
LEMMA KeptGrows ==
  ASSUME Types, Homes, [Next]_vars
  PROVE  /\ \A m : Kept(m) => Kept(m)'
         /\ \A t \in Running : Insert(t) => Kept(t.emit.msg)'
<1>1. CASE UNCHANGED <<store, log>>
  <2>1. ASSUME NEW t \in Running, Insert(t) PROVE FALSE
    <3> DEFINE r == t.emit.room
               m == t.emit.msg
               p == log[r]
    <3>1. /\ r \in Rooms /\ p \in Seq(Msgs) /\ m \in Msgs
          /\ log' = [log EXCEPT ![r] = Append(p, m)]
      BY <2>1, InsertSteps
    <3>2. log'[r] = Append(p, m) /\ log'[r] = p
      BY <1>1, <3>1 DEF Types
    <3> HIDE DEF r, m, p
    <3>3. Len(Append(p, m)) = Len(p) + 1 /\ Len(p) \in Nat
      BY <3>1
    <3>4. Append(p, m) = p
      BY <3>2
    <3>5. Len(p) = Len(p) + 1
      BY <3>3, <3>4
    <3> QED BY <3>3, <3>5
  <2> QED BY <1>1, <2>1 DEF Kept
<1>2. ASSUME NEW t \in Running, Insert(t)
      PROVE  /\ \A m : Kept(m) => Kept(m)'
             /\ Kept(t.emit.msg)'
  <2> DEFINE r == t.emit.room
             m0 == t.emit.msg
             p == log[r]
  <2>1. /\ r \in Rooms /\ m0 \in Msgs /\ p \in Seq(Msgs) /\ m0[1] = r
        /\ log' = [log EXCEPT ![r] = Append(p, m0)]
    BY <1>2, InsertSteps
  <2> HIDE DEF r, m0, p
  <2>2. ToSet(Append(p, m0)) = ToSet(p) \cup {m0}
    BY <2>1, AppendSet
  <2>3. /\ log'[r] = Append(p, m0) /\ log[r] = p
        /\ \A x \in Rooms : x # r => log'[x] = log[x]
    BY <2>1 DEF Types, p
  <2>4. ASSUME NEW m, Kept(m) PROVE Kept(m)'
    BY <2>2, <2>3, <2>4 DEF Kept
  <2>5. Kept(m0)'
    BY <2>1, <2>2, <2>3 DEF Kept
  <2> QED BY <2>4, <2>5 DEF m0
<1>3. CASE \E t \in Running : Insert(t)
  <2>1. \A m : Kept(m) => Kept(m)'
    BY <1>2, <1>3
  <2>2. \A t \in Running : Insert(t) => Kept(t.emit.msg)'
    BY <1>2
  <2> QED BY <2>1, <2>2
<1> QED BY <1>1, <1>3, SameStore

\* What the store of a room has, was stored.
LEMMA StoreKept ==
  ASSUME Types, Homes, Stores, NEW r \in Rooms, NEW m \in ToSet(store[r])
  PROVE  Kept(m)
<1> DEFINE n == Len(log[r])
<1>1. store[r] \in Seq(Msgs) /\ log[r] \in Seq(Msgs)
  BY DEF Types
<1>2. PICK j \in 1..Len(store[r]) : store[r][j] = m
  BY <1>1, InSeq
<1>3. /\ store[r][j] = log[r][n - j + 1]
      /\ Len(store[r]) = IF n <= History THEN n ELSE History
  BY DEF Stores
<1>4. n - j + 1 \in 1..n
  <2>1. n \in Nat /\ Len(store[r]) <= n /\ j >= 1 /\ j <= Len(store[r]) /\ j \in Nat
    BY <1>1, <1>3, ConstantsOK
  <2> HIDE DEF n
  <2> QED BY <2>1
<1>5. m \in ToSet(log[r])
  BY <1>1, <1>2, <1>3, <1>4, InSeq
<1>6. m[1] = r
  BY DEF Homes
<1> QED BY <1>5, <1>6 DEF Kept

\* What is kept stays kept, when what is new was stored.
LEMMA KeptStep ==
  ASSUME Types, Homes, AllKept, [Next]_vars,
         \A t \in Running' :
           \/ t \in Running
           \/ /\ t.at = "stored" => Kept(t.emit.msg)'
              /\ t.at = "read" => \A m \in ToSet(t.got) : Kept(m)',
         \A c \in Clients : \A m \in ToSet(messages'[c]) : Kept(m),
         \A c \in Clients : \A k \in 1..Len(wire'[c]) :
           \A m \in Brought(wire'[c][k]) : Kept(m)
  PROVE  AllKept'
<1>1. \A m : Kept(m) => Kept(m)'
  BY KeptGrows
<1>2. \A t \in Running : /\ t.at = "stored" => Kept(t.emit.msg)'
                         /\ t.at = "read" => \A m \in ToSet(t.got) : Kept(m)'
  BY <1>1 DEF AllKept
<1> QED BY <1>1, <1>2 DEF AllKept, Brought

\* An event that is put on the wire.
LEMMA WireKept ==
  ASSUME Types, AllKept, NEW c \in Clients, NEW w \in Wires,
         \A m \in Brought(w) : Kept(m), wire'[c] = Append(wire[c], w)
  PROVE  \A k \in 1..Len(wire'[c]) : \A m \in Brought(wire'[c][k]) : Kept(m)
<1>1. wire[c] \in Seq(Wires)
  BY DEF Types
<1>2. \A k \in 1..Len(wire'[c]) :
        \/ wire'[c][k] = w
        \/ k \in 1..Len(wire[c]) /\ wire'[c][k] = wire[c][k]
  BY <1>1
<1> QED BY <1>2 DEF AllKept

\* What a handler emits was stored, and what it reads.
LEMMA ServerKept ==
  ASSUME Types, Homes, Stores, AllKept, NEW t \in Running, Server(t), [Next]_vars
  PROVE  AllKept'
<1>0. /\ t.sid[1] \in Clients /\ t.emit.room \in Rooms /\ t.got \in Seq(Msgs)
      /\ ~IsJoin(t.emit) => t.emit.msg \in Msgs
  BY EmitKinds DEF Types, Handlers, Sids
<1>1. CASE LeaveAll(t)
  <2>1. \A u \in Running' : u \in Running \/ u.at = "left"
    BY <1>1, MoveSteps DEF LeaveAll, Ats
  <2> QED BY <1>1, <2>1, KeptStep DEF LeaveAll, AllKept
<1>2. CASE Join(t)
  <2>1. \A u \in Running' : u \in Running \/ u.at = "joined"
    BY <1>2, MoveSteps DEF Join, Ats
  <2> QED BY <1>2, <2>1, KeptStep DEF Join, AllKept
<1>3. CASE GetMessages(t)
  <2> DEFINE u == [t EXCEPT !.at = "read", !.got = Reverse(store[t.emit.room])]
  <2>1. Running' \subseteq Running \cup {u}
        /\ u.at = "read" /\ ToSet(u.got) = ToSet(store[t.emit.room])
    BY <1>3, GetSteps
  <2> HIDE DEF u
  <2>2. \A m \in ToSet(u.got) : Kept(m)'
    BY <1>0, <2>1, StoreKept, KeptGrows
  <2> QED BY <1>3, <2>1, <2>2, KeptStep DEF GetMessages, AllKept
<1>4. CASE EmitMessages(t)
  <2> DEFINE d == t.sid[1]
             w == <<"messages", t.got>>
  <2>1. Running' \subseteq Running
    BY <1>4, EndSteps DEF EmitMessages, Types
  <2>2. /\ d \in Clients /\ w \in Wires
        /\ wire' = [wire EXCEPT ![d] = Append(@, w)] \/ wire' = wire
    BY <1>4, AnswerSteps
  <2>3. \A m \in Brought(w) : Kept(m)
    BY <1>4 DEF EmitMessages, Brought, AllKept
  <2> HIDE DEF d, w
  <2>4. \A c \in Clients : wire'[c] = wire[c] \/ wire'[c] = Append(wire[c], w)
    BY <2>2 DEF Types
  <2>5. ASSUME NEW c \in Clients
        PROVE  \A k \in 1..Len(wire'[c]) :
                 \A m \in Brought(wire'[c][k]) : Kept(m)
    BY <2>2, <2>3, <2>4, WireKept DEF AllKept
  <2> QED BY <1>4, <2>1, <2>5, KeptStep DEF EmitMessages, AllKept
<1>5. CASE Insert(t)
  <2> DEFINE u == [t EXCEPT !.at = "stored"]
  <2>1. Running' \subseteq Running \cup {u} /\ u.at = "stored"
        /\ u.emit = t.emit
    BY <1>5, MoveSteps DEF Insert, Ats
  <2> HIDE DEF u
  <2>2. Kept(t.emit.msg)'
    BY <1>5, KeptGrows
  <2>3. u.emit.msg = t.emit.msg
    BY <2>1
  <2>4. Kept(u.emit.msg)'
    BY <2>2, <2>3 DEF Kept
  <2> QED BY <1>5, <2>1, <2>4, KeptStep DEF Insert, AllKept
<1>6. CASE Broadcast(t)
  <2> DEFINE w == <<"message", t.emit.msg>>
  <2>1. Running' \subseteq Running
    BY <1>6, EndSteps DEF Broadcast, Types
  <2>2. t.emit.msg \in Msgs /\ t.at = "stored"
    BY <1>0, <1>6 DEF Broadcast, Homes
  <2>3. /\ w \in Wires
        /\ \A c \in Clients : wire'[c] = Append(wire[c], w) \/ wire'[c] = wire[c]
    BY <1>6, <2>2, BroadcastSteps
  <2>4. \A m \in Brought(w) : Kept(m)
    BY <2>2 DEF Brought, AllKept
  <2> HIDE DEF w
  <2>5. ASSUME NEW c \in Clients
        PROVE  \A k \in 1..Len(wire'[c]) :
                 \A m \in Brought(wire'[c][k]) : Kept(m)
    BY <2>3, <2>4, WireKept DEF AllKept
  <2> QED BY <1>6, <2>1, <2>5, KeptStep DEF Broadcast, AllKept
<1> QED BY <1>1, <1>2, <1>3, <1>4, <1>5, <1>6 DEF Server

\* A page shows what it was brought, or less.
LEMMA PageKept ==
  ASSUME Types, Homes, AllKept, [Next]_vars,
         NEW c \in Clients, Page(c) \/ Socket(c) \/ Disconnect(c)
  PROVE  AllKept'
<1>1. CASE Arrive(c)
  <2> DEFINE h == Handler(Sid(c), Head(out[c]))
  <2>1. Running' = Running \cup {h} /\ h.at = "start"
    BY <1>1, ArriveSteps
  <2> HIDE DEF h
  <2> QED BY <1>1, <2>1, KeptStep DEF Arrive, AllKept
<1>2. CASE OnMessage(c) \/ OnMessages(c)
  <2> DEFINE q == wire[c]
             w == Head(wire[c])
  <2>1. /\ UNCHANGED <<store, tasks>> /\ q # <<>>
        /\ wire' = [wire EXCEPT ![c] = Tail(q)]
        /\ \/ /\ w[1] = "message"
              /\ messages' = [messages EXCEPT ![c] = Append(@, w[2])]
           \/ /\ w[1] = "messages"
              /\ messages' = [messages EXCEPT ![c] = w[2]]
    BY <1>2 DEF OnMessage, OnMessages
  <2>2. q \in Seq(Wires) /\ messages[c] \in Seq(Msgs)
    BY DEF Types
  <2>3. /\ w = q[1] /\ 1 \in 1..Len(q) /\ w \in Wires
        /\ Len(Tail(q)) = Len(q) - 1
        /\ \A k \in 1..Len(Tail(q)) :
             k + 1 \in 1..Len(q) /\ Tail(q)[k] = q[k + 1]
    BY <2>1, <2>2
  <2>4. /\ wire'[c] = Tail(q)
        /\ \A d \in Clients : d # c => /\ wire'[d] = wire[d]
                                       /\ messages'[d] = messages[d]
    BY <2>1 DEF Types
  <2>5. \A m \in Brought(w) : Kept(m)
    BY <2>3 DEF AllKept
  <2>6. ToSet(messages'[c]) \subseteq ToSet(messages[c]) \cup Brought(w)
    <3>1. CASE w[1] = "message"
      <4>1. w[2] \in Msgs /\ messages'[c] = Append(messages[c], w[2])
        BY <2>1, <2>3, <3>1 DEF Types, Wires
      <4>2. ToSet(messages'[c]) = ToSet(messages[c]) \cup {w[2]}
        BY <2>2, <4>1, AppendSet
      <4> QED BY <3>1, <4>2 DEF Brought
    <3>2. CASE w[1] = "messages"
      <4>1. messages'[c] = w[2]
        BY <2>1, <3>2 DEF Types
      <4> QED BY <3>2, <4>1 DEF Brought
    <3> QED BY <2>1, <3>1, <3>2
  <2> HIDE DEF w
  <2>7. \A d \in Clients : \A m \in ToSet(messages'[d]) : Kept(m)
    BY <2>4, <2>5, <2>6 DEF AllKept
  <2>8. \A k \in 1..Len(wire'[c]) : \A m \in Brought(wire'[c][k]) : Kept(m)
    BY <2>3, <2>4 DEF AllKept
  <2>9. \A d \in Clients : \A k \in 1..Len(wire'[d]) :
          \A m \in Brought(wire'[d][k]) : Kept(m)
    BY <2>4, <2>8 DEF AllKept
  <2>10. Running' = Running
    BY <2>1 DEF Running
  <2> QED BY <2>7, <2>9, <2>10, KeptStep
<1>3. CASE ~Arrive(c) /\ ~OnMessage(c) /\ ~OnMessages(c)
  <2>1. /\ UNCHANGED tasks
        /\ \A d \in Clients : messages'[d] = messages[d] \/ messages'[d] = <<>>
        /\ \A d \in Clients : wire'[d] = wire[d] \/ wire'[d] = <<>>
    BY <1>3 DEF Page, Socket, ChangeRoom, RoomEffect, Connect, SendMessage,
       Register, Ignore, Disconnect, Types
  <2>2. Running' = Running /\ ToSet(<<>>) = {} /\ Len(<<>>) = 0
    BY <2>1 DEF Running, ToSet
  <2>3. /\ \A d \in Clients : \A m \in ToSet(messages'[d]) : Kept(m)
        /\ \A d \in Clients : \A k \in 1..Len(wire'[d]) :
             \A m \in Brought(wire'[d][k]) : Kept(m)
    BY <2>1, <2>2 DEF AllKept
  <2> QED BY <2>2, <2>3, KeptStep
<1> QED BY <1>1, <1>2, <1>3

\* Every step keeps what is shown, or will be.
LEMMA KeptNext ==
  ASSUME Types, Homes, Stores, AllKept, [Next]_vars
  PROVE  AllKept'
<1>1. CASE UNCHANGED vars
  BY <1>1 DEF vars, AllKept, Kept, Brought, Running
<1> QED BY <1>1, ServerKept, PageKept DEF Next

\* At first nothing is stored, and nothing runs.
LEMMA InitKept == Init => Types /\ Homes /\ Stores /\ AllKept
<1> SUFFICES ASSUME Init PROVE Types /\ Homes /\ Stores /\ AllKept
  OBVIOUS
<1> DEFINE join == [kind |-> "join", room |-> FirstRoom]
<1>1. join \in Emits /\ IsJoin(join) /\ <<join>> \in Seq(Emits)
  BY EmitKinds, ConstantsOK
<1>2. Running = {} /\ IsABag(tasks)
  BY DEF Init, Running, EmptyBag, SetToBag, BagToSet, IsABag
<1>3. /\ <<>> \in Seq(Msgs) /\ <<>> \in Seq(Wires) /\ <<>> \in Seq(Emits)
      /\ Len(<<>>) = 0 /\ ToSet(<<>>) = {}
  BY DEF ToSet
<1>4. buffer = [c \in Clients |-> <<join>>]
  BY DEF Init
<1> HIDE DEF join
<1>5. \A k \in 1..Len(<<join>>) : Sound(<<join>>[k])
  BY <1>1 DEF Sound
<1>6. Types
  BY <1>1, <1>2, <1>3, <1>4, ConstantsOK DEF Init, Types
<1>7. Homes
  BY <1>2, <1>3, <1>4, <1>5 DEF Init, Homes
<1>8. Stores
  BY <1>3, ConstantsOK DEF Init, Stores
<1>9. AllKept
  BY <1>2, <1>3 DEF Init, AllKept
<1> QED BY <1>6, <1>7, <1>8, <1>9

\* What is shown, on its way, read or to be broadcast was stored, and the store
\* of a room is the end of what was stored in it: for any number of clients,
\* rooms and messages, and any length of the history.
THEOREM KeptInvariance == Spec => [](Types /\ Homes /\ Stores /\ AllKept)
  BY InitKept, TypesNext, HomesNext, StoresNext, KeptNext, PTL DEF Spec

\* The types of the state, for any number of clients, rooms and messages.
THEOREM TypeCorrect == Spec => []TypeOK
  BY KeptInvariance, TypesOK, PTL

\* What a page shows, or was broadcast to it, was stored, and is kept until
\* History newer messages took its place, whatever the length of the history.
THEOREM ShownIsKept == Spec => []SeenIsKept
<1>1. Types /\ Stores /\ AllKept => SeenIsKept
  <2> SUFFICES ASSUME Types, Stores, AllKept, NEW c \in Clients,
                      NEW m, \/ m \in ToSet(messages[c])
                             \/ \E k \in 1..Len(wire[c]) :
                                  /\ wire[c][k][1] = "message"
                                  /\ m = wire[c][k][2]
               PROVE  \E i \in 1..Len(log[m[1]]) :
                        /\ log[m[1]][i] = m
                        /\ Len(log[m[1]]) - i < History
                             => m \in ToSet(store[m[1]])
    BY DEF SeenIsKept
  <2> DEFINE r == m[1]
             p == log[r]
             q == store[r]
  <2>1. Kept(m)
    BY DEF AllKept, Brought
  <2>2. /\ r \in Rooms /\ m \in ToSet(p)
        /\ p \in Seq(Msgs) /\ q \in Seq(Msgs)
    BY <2>1 DEF Kept, Types
  <2>3. /\ Len(q) = IF Len(p) <= History THEN Len(p) ELSE History
        /\ \A j \in 1..Len(q) : q[j] = p[Len(p) - j + 1]
    BY <2>2 DEF Stores
  <2> HIDE DEF p, q, r
  <2>4. PICK i \in 1..Len(p) : p[i] = m
    BY <2>2, InSeq
  <2>5. ASSUME Len(p) - i < History PROVE m \in ToSet(q)
    <3> DEFINE j == Len(p) - i + 1
    <3>1. /\ j \in 1..Len(q) /\ Len(p) - j + 1 = i
      BY <2>2, <2>3, <2>5, ConstantsOK
    <3> HIDE DEF j
    <3>2. q[j] = m
      BY <2>3, <2>4, <3>1
    <3> QED BY <2>2, <3>1, <3>2, InSeq
  <2> QED BY <2>4, <2>5 DEF p, q, r
<1> QED BY <1>1, KeptInvariance, PTL

-----------------------------------------------------------------------------
(* What the pages show                                                     *)

\* Where a socket is and what it awaits, when its connection is the same.
LEMMA SameSid ==
  ASSUME NEW c, conns'[c] = conns[c]
  PROVE  /\ Sid(c)' = Sid(c)
         /\ PendingJoins(c)'
              = {t \in Running' : t.sid = Sid(c) /\ IsJoin(t.emit)}
         /\ RoomsOf(c)' = {p[2] : p \in {q \in member' : q[1] = Sid(c)}}
  BY DEF Sid, PendingJoins, RoomsOf, IsJoin

\* A new connection has a socket that is nowhere yet.
LEMMA FreshSid ==
  ASSUME Types, Homes, NEW c \in Clients, Connect(c)
  PROVE  PendingJoins(c)' = {} /\ RoomsOf(c)' = {}
<1> DEFINE sid == <<c, conns[c] + 1>>
<1>1. /\ conns' = [conns EXCEPT ![c] = conns[c] + 1]
      /\ UNCHANGED <<tasks, member>>
  BY DEF Connect
<1>2. Sid(c)' = sid
  BY <1>1 DEF Sid, Types
<1>3. sid[1] = c /\ sid[2] = conns[c] + 1 /\ conns[c] \in Nat
  BY ConstantsOK DEF Types
<1> HIDE DEF sid
<1>4. \A t \in Running : t.sid # sid
  BY <1>3 DEF Homes
<1>5. \A p \in member : p[1] # sid
  BY <1>3 DEF Homes
<1>6. Running' = Running
  BY <1>1 DEF Running
<1>7. PendingJoins(c)' = {}
  BY <1>2, <1>4, <1>6 DEF PendingJoins
<1>8. RoomsOf(c)' = {}
  BY <1>1, <1>2, <1>5 DEF RoomsOf
<1> QED BY <1>7, <1>8

\* A page or a socket acts: the joins that run, and the rooms, of a client.
LEMMA PageSteps ==
  ASSUME Types, Homes, NEW c \in Clients, NEW d \in Clients,
         Page(c) \/ Socket(c) \/ Disconnect(c),
         d # c \/ (~Connect(c) /\ ~Disconnect(c) /\ ~Arrive(c))
  PROVE  /\ PendingJoins(d)' = PendingJoins(d) /\ RoomsOf(d)' = RoomsOf(d)
         /\ Sid(d)' = Sid(d)
<1>1. conns'[d] = conns[d]
  <2>1. CASE Connect(c)
    BY <2>1 DEF Connect, Types
  <2>2. CASE ~Connect(c)
    <3>1. conns' = conns
      BY <2>2 DEF Page, Socket, ChangeRoom, SendMessage, OnMessage, OnMessages,
         Register, Arrive, Ignore, Disconnect
    <3> QED BY <3>1
  <2> QED BY <2>1, <2>2
<1>2. /\ Sid(d)' = Sid(d)
      /\ PendingJoins(d)' = {t \in Running' : t.sid = Sid(d) /\ IsJoin(t.emit)}
      /\ RoomsOf(d)' = {p[2] : p \in {q \in member' : q[1] = Sid(d)}}
  BY <1>1, SameSid
<1>3. d # c => Sid(d) # Sid(c)
  BY DEF Sid
<1>4. PendingJoins(d)' = PendingJoins(d)
  <2>1. CASE Arrive(c)
    <3> DEFINE h == Handler(Sid(c), Head(out[c]))
    <3>1. Running' = Running \cup {h} /\ h.sid = Sid(c)
      BY <2>1, ArriveSteps
    <3> HIDE DEF h
    <3> QED BY <1>2, <1>3, <2>1, <3>1 DEF PendingJoins
  <2>2. CASE ~Arrive(c)
    <3>1. tasks' = tasks
      BY <2>2 DEF Page, Socket, ChangeRoom, Connect, SendMessage, OnMessage,
         OnMessages, Register, Ignore, Disconnect
    <3> QED BY <1>2, <3>1 DEF PendingJoins, Running
  <2> QED BY <2>1, <2>2
<1>5. RoomsOf(d)' = RoomsOf(d)
  <2>1. CASE Disconnect(c)
    <3>1. member' = {p \in member : p[1] # Sid(c)} /\ d # c
      BY <2>1 DEF Disconnect
    <3> QED BY <1>2, <1>3, <3>1 DEF RoomsOf
  <2>2. CASE ~Disconnect(c)
    <3>1. member' = member
      BY <2>2 DEF Page, Socket, ChangeRoom, Connect, SendMessage, OnMessage,
         OnMessages, Register, Arrive, Ignore
    <3> QED BY <1>2, <3>1 DEF RoomsOf
  <2> QED BY <2>1, <2>2
<1> QED BY <1>2, <1>4, <1>5

\* A handler that is not of a join of d goes on.
LEMMA OtherSteps ==
  ASSUME Types, Homes, NEW d \in Clients, NEW t \in Running,
         t \notin PendingJoins(d), Server(t)
  PROVE  /\ PendingJoins(d)' = PendingJoins(d) /\ RoomsOf(d)' = RoomsOf(d)
         /\ \A x \in Running : x.at = "stored" /\ x # t => x \in Running'
         /\ Insert(t) => \E u \in Running' : u.at = "stored" /\ u.emit = t.emit
<1>1. UNCHANGED conns
  BY DEF Server, LeaveAll, Join, GetMessages, EmitMessages, Insert, Broadcast
<1>2. /\ Sid(d)' = Sid(d)
      /\ PendingJoins(d)' = {x \in Running' : x.sid = Sid(d) /\ IsJoin(x.emit)}
      /\ RoomsOf(d)' = {p[2] : p \in {q \in member' : q[1] = Sid(d)}}
  BY <1>1, SameSid
<1>3. PICK u : /\ Running' \subseteq Running \cup {u}
               /\ Running \ {t} \subseteq Running'
               /\ u.sid = t.sid /\ u.emit = t.emit
               /\ Insert(t) => u \in Running' /\ u.at = "stored"
  <2>1. CASE LeaveAll(t)
    BY <2>1, MoveSteps DEF LeaveAll, Ats, Insert
  <2>2. CASE Join(t)
    BY <2>2, MoveSteps DEF Join, Ats, Insert
  <2>3. CASE GetMessages(t)
    BY <2>3, GetSteps DEF GetMessages, Insert
  <2>4. CASE EmitMessages(t)
    BY <2>4, EndSteps DEF EmitMessages, Types, Insert
  <2>5. CASE Broadcast(t)
    BY <2>5, EndSteps DEF Broadcast, Types, Insert
  <2>6. CASE Insert(t)
    <3> DEFINE u == [t EXCEPT !.at = "stored"]
    <3>1. Move(t, "stored")
      BY <2>6 DEF Insert
    <3>2. /\ u \in Running' /\ Running' \subseteq Running \cup {u}
          /\ Running \ {t} \subseteq Running'
          /\ u.sid = t.sid /\ u.emit = t.emit /\ u.at = "stored"
      BY <3>1, MoveSteps DEF Ats
    <3> HIDE DEF u
    <3> QED BY <3>2
  <2> QED BY <2>1, <2>2, <2>3, <2>4, <2>5, <2>6 DEF Server
<1>4. ~(t.sid = Sid(d) /\ IsJoin(t.emit))
  BY DEF PendingJoins
<1>5. PendingJoins(d)' = PendingJoins(d)
  BY <1>2, <1>3, <1>4 DEF PendingJoins
<1>6. RoomsOf(d)' = RoomsOf(d)
  <2>1. CASE LeaveAll(t)
    BY <1>2, <1>4, <2>1 DEF LeaveAll, RoomsOf
  <2>2. CASE Join(t)
    BY <1>2, <1>4, <2>2 DEF Join, RoomsOf, Homes
  <2>3. CASE ~LeaveAll(t) /\ ~Join(t)
    <3>1. member' = member
      BY <2>3 DEF Server, GetMessages, EmitMessages, Insert, Broadcast
    <3> QED BY <1>2, <3>1 DEF RoomsOf
  <2> QED BY <2>1, <2>2, <2>3
<1> QED BY <1>3, <1>5, <1>6

\* A socket is in no room before its first handler is registered.
LEMMA DeafNext ==
  ASSUME Types, Homes, Deaf, [Next]_vars
  PROVE  Deaf'
<1>1. ASSUME NEW c \in Clients, Page(c) \/ Socket(c) \/ Disconnect(c),
             NEW d \in up', listening'[d] = 0
      PROVE  PendingJoins(d)' = {} /\ RoomsOf(d)' = {}
  <2>1. CASE Connect(c) /\ d = c
    BY <2>1, FreshSid
  <2>2. CASE Connect(c) /\ d # c
    <3>1. d \in up /\ d \in Clients /\ listening[d] = 0
      BY <1>1, <2>2 DEF Connect, Types
    <3> QED BY <1>1, <2>2, <3>1, PageSteps DEF Deaf
  <2>3. CASE ~Connect(c)
    <3>1. d \in up /\ d \in Clients
      BY <1>1, <2>3 DEF Page, Socket, ChangeRoom, SendMessage, OnMessage,
         OnMessages, Register, Arrive, Ignore, Disconnect, Types
    <3>2. listening[d] = 0
      <4>1. CASE Register(c)
        <5>1. listening' = [listening EXCEPT ![c] = listening[c] + 1]
              /\ listening \in [Clients -> 0..2]
          BY <4>1 DEF Register, Types
        <5>2. d # c
          BY <1>1, <5>1
        <5> QED BY <1>1, <3>1, <5>1, <5>2
      <4>2. CASE ~Register(c)
        <5>1. listening' = listening
          BY <1>1, <2>3, <4>2 DEF Page, Socket, ChangeRoom, SendMessage,
             OnMessage, OnMessages, Arrive, Ignore, Disconnect
        <5> QED BY <1>1, <5>1
      <4> QED BY <4>1, <4>2
    <3>3. ~(Arrive(c) /\ d = c)
      BY <3>2 DEF Arrive, Listens
    <3>4. ~(Disconnect(c) /\ d = c)
      BY <1>1 DEF Disconnect
    <3> QED BY <1>1, <2>3, <3>1, <3>2, <3>3, <3>4, PageSteps DEF Deaf
  <2> QED BY <2>1, <2>2, <2>3
<1>2. ASSUME NEW t \in Running, Server(t), NEW d \in up', listening'[d] = 0
      PROVE  PendingJoins(d)' = {} /\ RoomsOf(d)' = {}
  <2>1. UNCHANGED <<up, listening>>
    BY <1>2 DEF Server, LeaveAll, Join, GetMessages, EmitMessages, Insert,
       Broadcast
  <2>2. d \in up /\ d \in Clients /\ PendingJoins(d) = {} /\ RoomsOf(d) = {}
    BY <1>2, <2>1 DEF Deaf, Types
  <2> QED BY <1>2, <2>2, OtherSteps
<1>3. CASE UNCHANGED vars
  <2>1. \A d : PendingJoins(d)' = PendingJoins(d) /\ RoomsOf(d)' = RoomsOf(d)
    BY <1>3 DEF vars, PendingJoins, RoomsOf, Sid, Running, IsJoin
  <2> QED BY <1>3, <2>1 DEF vars, Deaf
<1>4. CASE Next
  <2>1. \A d \in up' : listening'[d] = 0
          => PendingJoins(d)' = {} /\ RoomsOf(d)' = {}
    BY <1>1, <1>2, <1>4 DEF Next
  <2> QED BY <2>1 DEF Deaf
<1> QED BY <1>3, <1>4

\* A step that c sees nothing of.
LEMMA ViewFrame ==
  ASSUME NEW c, View(c),
         currentRoom'[c] = currentRoom[c], messages'[c] = messages[c],
         wire'[c] = wire[c], reached'[c] = reached[c],
         JoinsIn(out'[c]) = JoinsIn(out[c]),
         RoomsOf(c)' = RoomsOf(c), PendingJoins(c)' = PendingJoins(c),
         \A m \in ToSet(store'[currentRoom[c]]) :
           m \in ToSet(store[currentRoom[c]]) \/ ToCome(m)',
         \A m : <<c, m>> \in raced \cup refused => <<c, m>> \in raced' \cup refused',
         \A t \in Running : t.at = "stored" => t \in Running'
  PROVE  View(c)'
<1>1. \A m : WillShow(c, m)' <=> WillShow(c, m)
  BY DEF WillShow, Stays, Brought
<1>2. JoinsIn(out[c])' = JoinsIn(out[c])
  BY DEF JoinsIn, IsJoin
<1>3. HasLeft(c)' <=> HasLeft(c)
  BY DEF HasLeft
<1>4. OneRoom(c)'
  BY <1>2, <1>3 DEF View, OneRoom
<1>5. CleanView(c)'
  BY <1>1 DEF View, CleanView
<1>6. \A m : ToCome(m) => ToCome(m)'
  BY DEF ToCome
<1>7. \A m : Found(c, m) => Found(c, m)'
  BY <1>1, <1>6 DEF Found
<1>8. reached'[c] # "nothing"
        => \A m \in ToSet(store'[currentRoom'[c]]) : Found(c, m)'
  BY <1>7 DEF View, Found
<1> QED BY <1>4, <1>5, <1>8 DEF View

\* After a click or a connection no join has found a handler yet, and one of the
\* room that is shown is on its way.
LEMMA ViewReset ==
  ASSUME NEW c, reached'[c] = "nothing", PendingJoins(c)' = {},
         JoinsIn(out'[c]) # {},
         \A e \in JoinsIn(out'[c]) : e.room = currentRoom'[c]
  PROVE  View(c)'
<1>1. JoinsIn(out[c])' = JoinsIn(out'[c])
  BY DEF JoinsIn, IsJoin
<1>2. OneRoom(c)'
  BY <1>1 DEF OneRoom, HasLeft
<1>3. CleanView(c)'
  BY DEF CleanView
<1> QED BY <1>2, <1>3 DEF View

\* What a page does with its own view leaves those of the others.
LEMMA ElseView ==
  ASSUME Types, Homes, Views, NEW c \in Clients, NEW d \in up' \ mixed', d # c,
         Page(c) \/ Socket(c) \/ Disconnect(c)
  PROVE  View(d)'
<1>1. /\ d \in Clients /\ d \in up \ mixed /\ store' = store
      /\ raced' = raced /\ refused' = refused
      /\ \A t \in Running : t.at = "stored" => t \in Running'
  <2>1. d \in up \ mixed /\ store' = store /\ raced' = raced /\ refused' = refused
    BY DEF Page, Socket, ChangeRoom, Connect, SendMessage, OnMessage,
       OnMessages, Register, Arrive, Ignore, Disconnect
  <2>2. CASE Arrive(c)
    BY <2>1, <2>2, ArriveSteps DEF Types
  <2>3. CASE ~Arrive(c)
    <3>1. tasks' = tasks
      BY <2>3 DEF Page, Socket, ChangeRoom, Connect, SendMessage, OnMessage,
         OnMessages, Register, Ignore, Disconnect
    <3> QED BY <2>1, <3>1 DEF Types, Running
  <2> QED BY <2>2, <2>3
<1>2. /\ PendingJoins(d)' = PendingJoins(d) /\ RoomsOf(d)' = RoomsOf(d)
  BY <1>1, PageSteps
<1>3. /\ currentRoom'[d] = currentRoom[d] /\ messages'[d] = messages[d]
      /\ wire'[d] = wire[d] /\ reached'[d] = reached[d]
  BY <1>1 DEF Types, Page, Socket, ChangeRoom, RoomEffect, Connect, SendMessage,
     OnMessage, OnMessages, Register, Arrive, Ignore, Disconnect
<1>4. out'[d] = out[d]
  <2>1. CASE \E r \in Rooms : ChangeRoom(c, r)
    <3>1. PICK r \in Rooms : ChangeRoom(c, r)
      BY <2>1
    <3>2. out' = out \/ \E q : out' = [out EXCEPT ![c] = q]
      BY <3>1 DEF ChangeRoom, RoomEffect, Emit
    <3> QED BY <1>1, <3>2 DEF Types
  <2>2. CASE SendMessage(c)
    <3>2. out' = out \/ \E q : out' = [out EXCEPT ![c] = q]
      BY <2>2 DEF SendMessage, Emit
    <3> QED BY <1>1, <3>2 DEF Types
  <2>3. CASE Connect(c) \/ Arrive(c) \/ Ignore(c) \/ Disconnect(c)
    BY <1>1, <2>3 DEF Types, Connect, Arrive, Ignore, Disconnect
  <2>4. CASE OnMessage(c) \/ OnMessages(c) \/ Register(c)
    BY <2>4 DEF OnMessage, OnMessages, Register
  <2> QED BY <2>1, <2>2, <2>3, <2>4 DEF Page, Socket
<1>5. View(d)
  BY <1>1 DEF Views
<1> QED BY <1>1, <1>2, <1>3, <1>4, <1>5, ViewFrame

\* A click: the view is emptied, and its join is the last.
LEMMA ChangeRoomView ==
  ASSUME Types, Homes, Views, NEW c \in Clients, NEW r \in Rooms, ChangeRoom(c, r)
  PROVE  Views'
<1> SUFFICES ASSUME NEW d \in up' \ mixed' PROVE View(d)'
  BY DEF Views
<1>1. CASE d # c
  BY <1>1, ElseView DEF Page
<1>2. CASE d = c
  <2> DEFINE join == [kind |-> "join", room |-> r]
  <2>1. join \in Emits /\ IsJoin(join) /\ join.room = r
    BY EmitKinds
  <2>2. Emit(c, join) /\ c \in up /\ ~Connect(c) /\ ~Disconnect(c) /\ ~Arrive(c)
    BY <1>2 DEF ChangeRoom, RoomEffect, Connect, Disconnect, Arrive, Types
  <2>3. PendingJoins(c) = {} /\ JoinsIn(out[c]) = {}
    BY <1>2 DEF ChangeRoom
  <2>4. PendingJoins(c)' = {}
    BY <2>2, <2>3, PageSteps DEF Page
  <2>5. currentRoom'[c] = r /\ reached'[c] = "nothing"
    BY DEF ChangeRoom, Types
  <2> HIDE DEF join
  <2>6. out'[c] = Append(out[c], join) /\ out[c] \in Seq(Emits)
    BY <2>1, <2>2, EmitSteps DEF Types
  <2>7. JoinsIn(out'[c]) = {join}
    BY <2>1, <2>3, <2>6, JoinsAppend
  <2> QED BY <1>2, <2>1, <2>4, <2>5, <2>7, ViewReset
<1> QED BY <1>1, <1>2

\* A connection: its joins are of the room that is shown, or it is mixed.
LEMMA ConnectView ==
  ASSUME Types, Homes, Views, NEW c \in Clients, Connect(c)
  PROVE  Views'
<1> SUFFICES ASSUME NEW d \in up' \ mixed' PROVE View(d)'
  BY DEF Views
<1>1. CASE d # c
  BY <1>1, ElseView DEF Page
<1>2. CASE d = c
  <2> DEFINE join == [kind |-> "join", room |-> FirstRoom]
             events == Append(buffer[c], join)
  <2>1. /\ out' = [out EXCEPT ![c] = events]
        /\ JoinsIn(events) = JoinsIn(buffer[c]) \cup {join}
        /\ \/ mixed' = mixed \cup {c}
           \/ \A e \in JoinsIn(events) : e.room = currentRoom[c]
    BY ConnectFacts
  <2> HIDE DEF join, events
  <2>2. out'[c] = events /\ currentRoom'[c] = currentRoom[c]
        /\ reached'[c] = "nothing"
    BY <2>1 DEF Connect, Types
  <2>3. PendingJoins(c)' = {}
    BY FreshSid
  <2> QED BY <1>2, <2>1, <2>2, <2>3, ViewReset
<1> QED BY <1>1, <1>2

\* A message is sent: nothing is stored yet.
LEMMA SendMessageView ==
  ASSUME Types, Homes, Views, NEW c \in Clients, SendMessage(c)
  PROVE  Views'
<1> SUFFICES ASSUME NEW d \in up' \ mixed' PROVE View(d)'
  BY DEF Views
<1>1. CASE d # c
  BY <1>1, ElseView DEF Page
<1>2. CASE d = c
  <2> DEFINE e == [kind |-> "message", room |-> currentRoom[c],
                   msg |-> <<currentRoom[c], sent + 1>>]
  <2>1. e \in Emits /\ ~IsJoin(e)
    <3>1. currentRoom[c] \in Rooms /\ sent + 1 \in 1..MaxMsgs
      BY ConstantsOK DEF SendMessage, Types
    <3>2. <<currentRoom[c], sent + 1>> \in Msgs
      BY <3>1 DEF Msgs
    <3> QED BY <3>1, <3>2, EmitKinds
  <2>2. /\ Emit(c, e) /\ ~Connect(c) /\ ~Disconnect(c) /\ ~Arrive(c)
        /\ UNCHANGED <<currentRoom, messages, up, wire, store, tasks, mixed,
                       reached, raced, refused>>
    BY <1>2 DEF SendMessage, Connect, Disconnect, Arrive, Types
  <2> HIDE DEF e
  <2>3. PendingJoins(c)' = PendingJoins(c) /\ RoomsOf(c)' = RoomsOf(c)
    BY <2>2, PageSteps DEF Page
  <2>4. c \in up /\ View(c) /\ Running' = Running
    BY <1>2, <2>2 DEF Views, Running
  <2>5. out'[c] = Append(out[c], e) /\ out[c] \in Seq(Emits)
    BY <2>1, <2>2, <2>4, EmitSteps DEF Types
  <2>6. JoinsIn(out'[c]) = JoinsIn(out[c])
    <3>1. JoinsIn(Append(out[c], e)) = JoinsIn(out[c]) \cup {x \in {e} : IsJoin(x)}
      BY <2>1, <2>5, JoinsAppend
    <3>2. {x \in {e} : IsJoin(x)} = {}
      BY <2>1
    <3> QED BY <2>5, <3>1, <3>2
  <2>7. /\ currentRoom'[c] = currentRoom[c] /\ messages'[c] = messages[c]
        /\ wire'[c] = wire[c] /\ reached'[c] = reached[c]
        /\ store' = store /\ raced' = raced /\ refused' = refused
    BY <2>2
  <2>8. View(c)'
    BY <2>3, <2>4, <2>6, <2>7, ViewFrame
  <2> QED BY <1>2, <2>8
<1> QED BY <1>1, <1>2

\* An event arrives at the page: what it will show is the same.
LEMMA OnEventView ==
  ASSUME Types, Homes, Views, NEW c \in Clients, OnMessage(c) \/ OnMessages(c)
  PROVE  Views'
<1> SUFFICES ASSUME NEW d \in up' \ mixed' PROVE View(d)'
  BY DEF Views
<1>1. /\ UNCHANGED <<currentRoom, conns, up, out, member, store, tasks, mixed,
                      reached, raced, refused>>
      /\ wire[c] # <<>> /\ wire' = [wire EXCEPT ![c] = Tail(@)]
      /\ \/ /\ Head(wire[c])[1] = "message"
            /\ messages' = [messages EXCEPT ![c] = Append(@, Head(wire[c])[2])]
         \/ /\ Head(wire[c])[1] = "messages"
            /\ messages' = [messages EXCEPT ![c] = Head(wire[c])[2]]
  BY DEF OnMessage, OnMessages
<1>2. CASE d # c
  BY <1>2, ElseView DEF Page
<1>3. CASE d = c
  <2>1. View(c)
    BY <1>1, <1>3 DEF Views
  <2>2. /\ PendingJoins(c)' = PendingJoins(c) /\ RoomsOf(c)' = RoomsOf(c)
        /\ Running' = Running /\ JoinsIn(out[c])' = JoinsIn(out[c])
    BY <1>1 DEF PendingJoins, RoomsOf, Sid, Running, JoinsIn, IsJoin
  <2>3. ASSUME NEW m PROVE WillShow(c, m)' <=> WillShow(c, m)
    <3>1. wire[c] \in Seq(Wires) /\ messages[c] \in Seq(Msgs)
      BY DEF Types
    <3>2. /\ wire'[c] = Tail(wire[c])
          /\ \/ /\ Head(wire[c])[1] = "message"
                /\ messages'[c] = Append(messages[c], Head(wire[c])[2])
             \/ /\ Head(wire[c])[1] = "messages"
                /\ messages'[c] = Head(wire[c])[2]
      BY <1>1 DEF Types
    <3> QED BY <1>1, <3>1, <3>2, ShowHead
  <2>4. HasLeft(c)' <=> HasLeft(c)
    BY <1>1, <2>2 DEF HasLeft
  <2>5. OneRoom(c)'
    BY <1>1, <2>1, <2>2, <2>4 DEF View, OneRoom
  <2>6. CleanView(c)'
    BY <1>1, <2>1, <2>3 DEF View, CleanView
  <2>7. \A m : ToCome(m) => ToCome(m)'
    BY <2>2 DEF ToCome
  <2>8. \A m : Found(c, m) => Found(c, m)'
    BY <1>1, <2>2, <2>3, <2>7 DEF Found
  <2> QED BY <1>1, <1>3, <2>1, <2>5, <2>6, <2>8 DEF View
<1> QED BY <1>2, <1>3

\* A connection breaks: its page is no longer spoken of.
LEMMA DisconnectView ==
  ASSUME Types, Homes, Views, NEW c \in Clients, Disconnect(c)
  PROVE  Views'
<1> SUFFICES ASSUME NEW d \in up' \ mixed' PROVE View(d)'
  BY DEF Views
<1>1. d # c
  BY DEF Disconnect
<1> QED BY <1>1, ElseView

\* The handler of a join of c starts: it will take the socket out of its rooms.
LEMMA ArriveView ==
  ASSUME Types, Homes, Views, NEW c \in Clients, Arrive(c), c \in up \ mixed
  PROVE  View(c)'
<1> DEFINE e == Head(out[c])
           h == Handler(Sid(c), e)
<1>1. /\ UNCHANGED <<currentRoom, messages, conns, up, wire, member, store, mixed,
                      raced, refused>>
      /\ out[c] # <<>> /\ out' = [out EXCEPT ![c] = Tail(@)]
      /\ reached' = [reached EXCEPT ![c] =
           IF IsJoin(e) /\ reached[c] = "nothing" THEN "handler" ELSE reached[c]]
  BY DEF Arrive
<1>2. /\ Running' = Running \cup {h} /\ h.sid = Sid(c) /\ h.emit = e
      /\ h.at = "start"
  BY ArriveSteps
<1>3. /\ out'[c] = Tail(out[c]) /\ out[c] \in Seq(Emits)
      /\ reached[c] \in {"nothing", "handler", "answer"}
      /\ reached'[c] = IF IsJoin(e) /\ reached[c] = "nothing" THEN "handler"
                       ELSE reached[c]
  BY <1>1 DEF Types
<1>4. JoinsIn(out[c]) = JoinsIn(out'[c]) \cup {x \in {e} : IsJoin(x)}
  BY <1>1, <1>3, JoinsTail
<1> HIDE DEF e, h
<1>5. View(c)
  BY DEF Views
<1>6. /\ RoomsOf(c)' = RoomsOf(c)
      /\ PendingJoins(c)' = {t \in Running' : t.sid = Sid(c) /\ IsJoin(t.emit)}
  BY <1>1, SameSid DEF RoomsOf
<1>7. \A t \in Running : t.at = "stored" => t \in Running'
  BY <1>2
<1>8. CASE ~IsJoin(e)
  <2>1. PendingJoins(c)' = PendingJoins(c)
    BY <1>2, <1>6, <1>8 DEF PendingJoins
  <2>2. JoinsIn(out'[c]) = JoinsIn(out[c]) /\ reached'[c] = reached[c]
    BY <1>3, <1>4, <1>8
  <2> QED BY <1>1, <1>5, <1>6, <1>7, <2>1, <2>2, ViewFrame
<1>9. CASE IsJoin(e)
  <2>1. PendingJoins(c)' = PendingJoins(c) \cup {h}
    BY <1>2, <1>6, <1>9 DEF PendingJoins
  <2>2. JoinsIn(out[c])' = JoinsIn(out'[c])
    BY DEF JoinsIn, IsJoin
  <2>3. e.room = currentRoom[c] /\ \A x \in JoinsIn(out'[c]) : x.room = currentRoom[c]
    BY <1>4, <1>5, <1>9 DEF View, OneRoom
  <2>4. reached'[c] # "nothing" /\ (reached'[c] = "answer" => reached[c] = "answer")
    BY <1>3, <1>9
  <2>5. HasLeft(c)' => HasLeft(c)
    <3>1. ASSUME HasLeft(c)', reached'[c] # "answer" PROVE HasLeft(c)
      <4>1. PICK t \in PendingJoins(c)' : t.at # "start"
        BY <2>1, <3>1 DEF HasLeft
      <4>2. t \in PendingJoins(c)
        BY <1>2, <2>1, <4>1
      <4>3. reached[c] # "nothing"
        BY <1>5, <4>2 DEF View, OneRoom
      <4> QED BY <1>3, <4>1, <4>2, <4>3 DEF HasLeft
    <3>2. reached'[c] = "answer" => HasLeft(c)
      BY <2>4 DEF HasLeft
    <3> QED BY <3>1, <3>2
  <2>6. OneRoom(c)'
    <3>1. \A t \in PendingJoins(c)' : t.emit.room = currentRoom[c]
      BY <1>2, <1>5, <2>1, <2>3 DEF View, OneRoom
    <3>2. HasLeft(c)' => RoomsOf(c) \subseteq {currentRoom[c]}
      BY <1>5, <2>5 DEF View, OneRoom
    <3>3. h \in PendingJoins(c)' /\ h.at = "start"
      BY <1>2, <2>1
    <3> QED BY <1>1, <1>6, <2>2, <2>3, <2>4, <3>1, <3>2, <3>3 DEF OneRoom
  <2>7. CleanView(c)'
    <3>1. \A m : WillShow(c, m)' <=> WillShow(c, m)
      BY <1>1 DEF WillShow, Stays, Brought
    <3> QED BY <1>1, <1>5, <2>4, <3>1 DEF View, CleanView
  <2>8. \A m : Found(c, m)'
    <3>1. h \in PendingJoins(c)' /\ h.at # "read"
      BY <1>2, <2>1
    <3> QED BY <3>1 DEF Found
  <2> QED BY <2>6, <2>7, <2>8 DEF View
<1> QED BY <1>8, <1>9

\* An event of c is dropped: with a join no handler was registered yet, and c is
\* in no room.
LEMMA IgnoreView ==
  ASSUME Types, Homes, Deaf, Views, NEW c \in Clients, Ignore(c), c \in up \ mixed
  PROVE  View(c)'
<1> DEFINE e == Head(out[c])
<1>1. /\ UNCHANGED <<currentRoom, messages, conns, up, wire, member, store, tasks,
                      mixed, reached, raced, refused>>
      /\ out[c] # <<>> /\ out' = [out EXCEPT ![c] = Tail(@)] /\ ~Listens(c, e)
  BY DEF Ignore
<1>2. out'[c] = Tail(out[c]) /\ out[c] \in Seq(Emits) /\ listening[c] \in 0..2
  BY <1>1 DEF Types
<1>3. JoinsIn(out[c]) = JoinsIn(out'[c]) \cup {x \in {e} : IsJoin(x)}
  BY <1>1, <1>2, JoinsTail
<1> HIDE DEF e
<1>4. View(c)
  BY DEF Views
<1>5. /\ RoomsOf(c)' = RoomsOf(c) /\ PendingJoins(c)' = PendingJoins(c)
      /\ Running' = Running
  BY <1>1, SameSid DEF RoomsOf, PendingJoins, Running
<1>6. CASE ~IsJoin(e)
  <2>1. JoinsIn(out'[c]) = JoinsIn(out[c])
    BY <1>3, <1>6
  <2> QED BY <1>1, <1>4, <1>5, <2>1, ViewFrame
<1>7. CASE IsJoin(e)
  <2>1. listening[c] = 0
    BY <1>1, <1>2, <1>7 DEF Listens
  <2>2. PendingJoins(c) = {} /\ RoomsOf(c) = {}
    BY <2>1 DEF Deaf
  <2>3. reached[c] = "nothing"
    BY <1>4, <2>2 DEF View, OneRoom
  <2>4. JoinsIn(out[c])' = JoinsIn(out'[c])
    BY DEF JoinsIn, IsJoin
  <2>5. OneRoom(c)'
    <3>1. \A x \in JoinsIn(out'[c]) : x.room = currentRoom[c]
      BY <1>3, <1>4 DEF View, OneRoom
    <3> QED BY <1>1, <1>5, <2>2, <2>3, <2>4, <3>1 DEF OneRoom, HasLeft
  <2>6. CleanView(c)'
    BY <1>1, <2>3 DEF CleanView
  <2> QED BY <1>1, <2>3, <2>5, <2>6 DEF View
<1> QED BY <1>6, <1>7

\* A socket takes an event, or registers a handler.
LEMMA SocketView ==
  ASSUME Types, Homes, Deaf, Views, NEW c \in Clients, Socket(c)
  PROVE  Views'
<1> SUFFICES ASSUME NEW d \in up' \ mixed' PROVE View(d)'
  BY DEF Views
<1>1. CASE d # c
  BY <1>1, ElseView
<1>2. CASE d = c
  <2>1. c \in up \ mixed
    BY <1>2 DEF Socket, Register, Arrive, Ignore
  <2>2. CASE Register(c)
    <3>1. UNCHANGED <<currentRoom, messages, conns, up, out, wire, member, store,
                      tasks, mixed, reached, raced, refused>>
      BY <2>2 DEF Register
    <3>2. /\ PendingJoins(c)' = PendingJoins(c) /\ RoomsOf(c)' = RoomsOf(c)
          /\ Running' = Running
      BY <3>1 DEF PendingJoins, RoomsOf, Sid, Running, IsJoin
    <3>3. View(c)
      BY <2>1 DEF Views
    <3> QED BY <1>2, <3>1, <3>2, <3>3, ViewFrame
  <2>3. CASE Arrive(c)
    BY <1>2, <2>1, <2>3, ArriveView
  <2>4. CASE Ignore(c)
    BY <1>2, <2>1, <2>4, IgnoreView
  <2> QED BY <2>2, <2>3, <2>4 DEF Socket
<1> QED BY <1>1, <1>2

\* The handler of a join of d goes on.
LEMMA JoinView ==
  ASSUME Types, Homes, NEW d \in up, View(d), NEW t \in PendingJoins(d),
         LeaveAll(t) \/ Join(t) \/ GetMessages(t) \/ EmitMessages(t)
  PROVE  View(d)'
<1>1. /\ t \in Running /\ t.sid = Sid(d) /\ IsJoin(t.emit) /\ d \in Clients
      /\ t.emit.room = currentRoom[d]
      /\ \A x \in PendingJoins(d) : x.emit.room = currentRoom[d]
      /\ \A e \in JoinsIn(out[d]) : e.room = currentRoom[d]
      /\ reached[d] \in {"handler", "answer"}
      /\ t.at # "start" => HasLeft(d)
      /\ HasLeft(d) => RoomsOf(d) \subseteq {currentRoom[d]}
  <2>1. /\ t \in Running /\ t.sid = Sid(d) /\ IsJoin(t.emit) /\ d \in Clients
        /\ reached[d] \in {"nothing", "handler", "answer"}
    BY DEF PendingJoins, Types
  <2>2. /\ \A x \in PendingJoins(d) : x.emit.room = currentRoom[d]
        /\ \A e \in JoinsIn(out[d]) : e.room = currentRoom[d]
        /\ reached[d] # "nothing"
        /\ HasLeft(d) => RoomsOf(d) \subseteq {currentRoom[d]}
    BY DEF View, OneRoom
  <2>3. t.at # "start" => HasLeft(d)
    BY <2>1, <2>2 DEF HasLeft
  <2> QED BY <2>1, <2>2, <2>3
<1>2. /\ UNCHANGED <<currentRoom, messages, conns, up, out, store, mixed>>
      /\ JoinsIn(out[d])' = JoinsIn(out[d])
  BY DEF LeaveAll, Join, GetMessages, EmitMessages, JoinsIn, IsJoin
<1>3. /\ Sid(d)' = Sid(d)
      /\ PendingJoins(d)' = {x \in Running' : x.sid = Sid(d) /\ IsJoin(x.emit)}
      /\ RoomsOf(d)' = {p[2] : p \in {q \in member' : q[1] = Sid(d)}}
  BY <1>2, SameSid
<1>4. ASSUME NEW u \in Running', Running' \subseteq Running \cup {u},
             Running \ {t} \subseteq Running', u.sid = t.sid, u.emit = t.emit
      PROVE  /\ u \in PendingJoins(d)'
             /\ PendingJoins(d)' \subseteq PendingJoins(d) \cup {u}
             /\ PendingJoins(d) \ {t} \subseteq PendingJoins(d)'
             /\ \A x \in PendingJoins(d)' : x.emit.room = currentRoom'[d]
  <2>1. /\ u \in PendingJoins(d)'
        /\ PendingJoins(d)' \subseteq PendingJoins(d) \cup {u}
        /\ PendingJoins(d) \ {t} \subseteq PendingJoins(d)'
    BY <1>1, <1>3, <1>4 DEF PendingJoins
  <2> QED BY <1>1, <1>2, <1>4, <2>1
<1>5. ~EmitMessages(t) => CleanView(d)' /\ reached' = reached
  <2>1. ASSUME ~EmitMessages(t) PROVE wire' = wire /\ reached' = reached
    BY <2>1 DEF LeaveAll, Join, GetMessages
  <2>2. ASSUME ~EmitMessages(t) PROVE \A m : WillShow(d, m)' <=> WillShow(d, m)
    BY <1>2, <2>1, <2>2 DEF WillShow, Stays, Brought
  <2> QED BY <1>2, <2>1, <2>2 DEF View, CleanView
<1>6. CASE LeaveAll(t)
  <2> DEFINE u == [t EXCEPT !.at = "left"]
  <2>1. /\ u \in Running' /\ Running' \subseteq Running \cup {u}
        /\ Running \ {t} \subseteq Running' /\ u.sid = t.sid
        /\ u.emit = t.emit /\ u.at = "left" /\ t.at = "start"
    BY <1>1, <1>6, MoveSteps DEF LeaveAll, Ats
  <2> HIDE DEF u
  <2>2. /\ u \in PendingJoins(d)'
        /\ \A x \in PendingJoins(d)' : x.emit.room = currentRoom'[d]
    BY <1>4, <2>1
  <2>3. RoomsOf(d)' = {}
    BY <1>1, <1>3, <1>6 DEF LeaveAll
  <2>4. ~EmitMessages(t)
    BY <2>1 DEF EmitMessages
  <2>5. OneRoom(d)'
    BY <1>1, <1>2, <1>5, <2>1, <2>2, <2>3, <2>4 DEF OneRoom
  <2>6. \A m : Found(d, m)'
    BY <2>1, <2>2 DEF Found
  <2> QED BY <1>5, <2>4, <2>5, <2>6 DEF View
<1>7. CASE Join(t)
  <2> DEFINE u == [t EXCEPT !.at = "joined"]
  <2>1. /\ u \in Running' /\ Running' \subseteq Running \cup {u}
        /\ Running \ {t} \subseteq Running' /\ u.sid = t.sid
        /\ u.emit = t.emit /\ u.at = "joined" /\ t.at = "left"
    BY <1>1, <1>7, MoveSteps DEF Join, Ats
  <2> HIDE DEF u
  <2>2. /\ u \in PendingJoins(d)'
        /\ PendingJoins(d) \ {t} \subseteq PendingJoins(d)'
        /\ \A x \in PendingJoins(d)' : x.emit.room = currentRoom'[d]
    BY <1>4, <2>1
  <2>3. RoomsOf(d)' = RoomsOf(d) \cup {currentRoom[d]}
    <3>1. member' = member \cup {<<Sid(d), currentRoom[d]>>}
      BY <1>1, <1>7 DEF Join
    <3>2. \A r : r \in RoomsOf(d)' <=> <<Sid(d), r>> \in member'
      <4>1. \A q \in member' : q = <<q[1], q[2]>>
        BY <1>1, <1>7, <3>1 DEF Types, Homes
      <4> QED BY <1>3, <4>1
    <3>3. \A r : r \in RoomsOf(d) <=> <<Sid(d), r>> \in member
      <4>1. \A q \in member : q = <<q[1], q[2]>>
        BY DEF Types
      <4> QED BY <4>1 DEF RoomsOf
    <3> QED BY <3>1, <3>2, <3>3
  <2>4. RoomsOf(d)' = {currentRoom[d]}
    BY <1>1, <2>1, <2>3
  <2>5. ~EmitMessages(t)
    BY <2>1 DEF EmitMessages
  <2>6. OneRoom(d)'
    BY <1>1, <1>2, <1>5, <2>2, <2>4, <2>5 DEF OneRoom
  <2>7. \A m : Found(d, m)'
    BY <2>1, <2>2 DEF Found
  <2> QED BY <1>5, <2>5, <2>6, <2>7 DEF View
<1>8. CASE GetMessages(t)
  <2> DEFINE u == [t EXCEPT !.at = "read", !.got = Reverse(store[t.emit.room])]
  <2>1. /\ u \in Running' /\ Running' \subseteq Running \cup {u}
        /\ Running \ {t} \subseteq Running' /\ u.sid = t.sid
        /\ u.emit = t.emit /\ u.at = "read" /\ t.at = "joined"
        /\ ToSet(u.got) = ToSet(store[t.emit.room])
    BY <1>1, <1>8, GetSteps DEF GetMessages
  <2>2. \A v : v = u => /\ v \in PendingJoins(d)'
                       /\ ToSet(v.got) = ToSet(store[t.emit.room])
    BY <1>1, <1>3, <2>1
  <2>3. PICK v : /\ v \in PendingJoins(d)' /\ v.at = "read"
                 /\ ToSet(v.got) = ToSet(store[t.emit.room])
    BY <2>1, <2>2
  <2> HIDE DEF u
  <2>4. /\ PendingJoins(d) \ {t} \subseteq PendingJoins(d)'
        /\ \A x \in PendingJoins(d)' : x.emit.room = currentRoom'[d]
    BY <1>4, <2>1
  <2>5. RoomsOf(d)' = RoomsOf(d) /\ ~EmitMessages(t)
    BY <1>3, <1>8, <2>1 DEF GetMessages, EmitMessages, RoomsOf
  <2>6. OneRoom(d)'
    <3>1. (\A x \in PendingJoins(d)' : x.at \notin {"start", "left"})
            => currentRoom[d] \in RoomsOf(d)
      <4>1. (\A x \in PendingJoins(d)' : x.at \notin {"start", "left"})
              => \A x \in PendingJoins(d) : x.at \notin {"start", "left"}
        BY <2>1, <2>4
      <4> QED BY <1>1, <4>1 DEF OneRoom, View
    <3>2. RoomsOf(d) \subseteq {currentRoom[d]}
      BY <1>1, <2>1
    <3> QED BY <1>1, <1>2, <1>5, <2>4, <2>5, <3>1, <3>2 DEF OneRoom
  <2>7. \A m \in ToSet(store'[currentRoom'[d]]) : Found(d, m)'
    BY <1>1, <1>2, <2>3 DEF Found
  <2> QED BY <1>5, <2>5, <2>6, <2>7 DEF View
<1>9. CASE EmitMessages(t)
  <2>1. Running' \subseteq Running /\ Running \ {t} \subseteq Running'
        /\ t.at = "read"
    BY <1>1, <1>9, EndSteps DEF EmitMessages, Types
  <2>2. /\ PendingJoins(d)' \subseteq PendingJoins(d)
        /\ PendingJoins(d) \ {t} \subseteq PendingJoins(d)'
    BY <1>3, <2>1 DEF PendingJoins
  <2> DEFINE w == <<"messages", t.got>>
             read == ToSet(t.got)
  <2>3. Live(t.sid) /\ t.sid[1] = d
    BY <1>1 DEF Live, Sid
  <2>4. /\ w \in Wires
        /\ \/ /\ wire' = [wire EXCEPT ![d] = Append(@, w)]
              /\ reached' = [reached EXCEPT ![d] = "answer"]
              /\ \A m \in ToSet(store[t.emit.room]) \ read : <<d, m>> \in raced'
           \/ /\ wire' = wire /\ reached' = reached /\ raced' = raced
              /\ refused \subseteq refused'
              /\ \A m \in read : <<d, m>> \in refused'
    BY <1>1, <1>9, <2>3, AnswerSteps
  <2>5. w[1] = "messages" /\ Brought(w) = read
    BY DEF Brought
  <2>6. wire[d] \in Seq(Wires) /\ messages'[d] = messages[d]
    BY <1>1, <1>2 DEF Types
  <2>7. RoomsOf(d)' = RoomsOf(d) /\ RoomsOf(d) \subseteq {currentRoom[d]}
    <3>1. RoomsOf(d)' = RoomsOf(d)
      BY <1>3, <1>9 DEF EmitMessages, RoomsOf
    <3> QED BY <1>1, <2>1, <3>1
  <2> HIDE DEF w, read
  <2>8. reached'[d] # "nothing"
    BY <1>1, <2>4 DEF Types
  <2>9. OneRoom(d)'
    <3>1. (\A x \in PendingJoins(d)' : x.at \notin {"start", "left"})
            => currentRoom[d] \in RoomsOf(d)
      <4>1. (\A x \in PendingJoins(d)' : x.at \notin {"start", "left"})
              => \A x \in PendingJoins(d) : x.at \notin {"start", "left"}
        BY <2>1, <2>2
      <4> QED BY <1>1, <4>1 DEF OneRoom, View
    <3>2. \A x \in PendingJoins(d)' : x.emit.room = currentRoom'[d]
      BY <1>1, <1>2, <2>2
    <3> QED BY <1>1, <1>2, <2>7, <2>8, <3>1, <3>2 DEF OneRoom
  <2>10. CASE wire' = [wire EXCEPT ![d] = Append(@, w)]
    <3>1. wire'[d] = Append(wire[d], w)
      BY <1>1, <2>10 DEF Types
    <3>2. ASSUME NEW m PROVE WillShow(d, m)' <=> m \in read
      <4>1. WillShow(d, m)'
              <=> m \in Brought(w) \/ (WillShow(d, m) /\ w[1] = "message")
        BY <2>4, <2>5, <2>6, <3>1, ShowAppend
      <4> QED BY <2>5, <4>1
    <3>3. CleanView(d)'
      <4>1. \A m \in read : m[1] = currentRoom[d]
        BY <1>1, <2>1 DEF Homes, read
      <4> QED BY <1>2, <3>2, <4>1 DEF CleanView
    <3>4. wire' # wire
      <4>1. Len(wire'[d]) = Len(wire[d]) + 1 /\ Len(wire[d]) \in Nat
        BY <2>4, <2>6, <3>1
      <4> QED BY <4>1
    <3>5. \A m \in ToSet(store[currentRoom[d]]) : Found(d, m)'
      BY <1>1, <2>4, <3>2, <3>4 DEF Found
    <3> QED BY <1>2, <2>9, <3>3, <3>5 DEF View
  <2>11. CASE /\ wire' = wire /\ reached' = reached /\ raced' = raced
              /\ refused \subseteq refused'
              /\ \A m \in read : <<d, m>> \in refused'
    <3>1. \A m : WillShow(d, m)' <=> WillShow(d, m)
      BY <1>2, <2>11 DEF WillShow, Stays, Brought
    <3>2. CleanView(d)'
      BY <1>2, <2>11, <3>1 DEF View, CleanView
    <3>3. \A m : ToCome(m) => ToCome(m)'
      BY <2>1 DEF ToCome
    <3>4. ASSUME NEW m, Found(d, m) PROVE Found(d, m)'
      <4>1. CASE \E x \in PendingJoins(d) : x.at # "read" \/ m \in ToSet(x.got)
        <5>1. PICK x \in PendingJoins(d) : x.at # "read" \/ m \in ToSet(x.got)
          BY <4>1
        <5>2. CASE x = t
          BY <2>1, <2>11, <5>1, <5>2 DEF Found, read
        <5>3. CASE x # t
          BY <2>2, <5>1, <5>3 DEF Found
        <5> QED BY <5>2, <5>3
      <4>2. CASE ~\E x \in PendingJoins(d) : x.at # "read" \/ m \in ToSet(x.got)
        BY <2>11, <3>1, <3>3, <3>4, <4>2 DEF Found
      <4> QED BY <4>1, <4>2
    <3>5. \A m \in ToSet(store[currentRoom[d]]) : Found(d, m)'
      BY <1>1, <3>4 DEF View
    <3> QED BY <1>2, <2>9, <3>2, <3>5 DEF View
  <2> QED BY <2>4, <2>10, <2>11
<1> QED BY <1>6, <1>7, <1>8, <1>9

\* A handler of another socket goes on with a join, or a message is stored.
LEMMA OtherView ==
  ASSUME Types, Homes, NEW d \in up, View(d), NEW t \in Running,
         t \notin PendingJoins(d), Server(t), ~Broadcast(t)
  PROVE  View(d)'
<1>1. /\ UNCHANGED <<currentRoom, messages, conns, up, out>>
      /\ d \in Clients /\ t.at # "stored"
  BY DEF Server, LeaveAll, Join, GetMessages, EmitMessages, Insert, Types
<1>2. /\ PendingJoins(d)' = PendingJoins(d) /\ RoomsOf(d)' = RoomsOf(d)
      /\ \A x \in Running : x.at = "stored" => x \in Running'
      /\ Insert(t) => \E u \in Running' : u.at = "stored" /\ u.emit = t.emit
  BY <1>1, OtherSteps
<1>3. /\ wire'[d] = wire[d] /\ reached'[d] = reached[d]
      /\ \A m : <<d, m>> \in raced \cup refused => <<d, m>> \in raced' \cup refused'
  <2>1. CASE EmitMessages(t)
    <3>1. ~IsJoin(t.emit) \/ t.sid # Sid(d)
      BY DEF PendingJoins
    <3>2. IsJoin(t.emit)
      BY <2>1 DEF EmitMessages, Homes
    <3>3. Live(t.sid) => t.sid[1] # d
      BY <3>1, <3>2 DEF Live
    <3>4. CASE Live(t.sid)
      <4>1. /\ \A m : <<d, m>> \in raced => <<d, m>> \in raced'
            /\ \A m : <<d, m>> \in refused => <<d, m>> \in refused'
        BY <2>1, <3>3, <3>4, AnswerSteps
      <4>2. wire'[d] = wire[d] /\ reached'[d] = reached[d]
        BY <1>1, <2>1, <3>3, <3>4 DEF EmitMessages, Types
      <4> QED BY <4>1, <4>2
    <3>5. CASE ~Live(t.sid)
      BY <2>1, <3>5 DEF EmitMessages
    <3> QED BY <3>4, <3>5
  <2>2. CASE ~EmitMessages(t)
    <3>1. UNCHANGED <<wire, reached, raced, refused>>
      BY <2>2 DEF Server, LeaveAll, Join, GetMessages, Insert
    <3> QED BY <3>1
  <2> QED BY <2>1, <2>2
<1>4. \A m \in ToSet(store'[currentRoom[d]]) :
        m \in ToSet(store[currentRoom[d]]) \/ ToCome(m)'
  <2>1. CASE Insert(t)
    <3> DEFINE q == store[t.emit.room]
               s == Truncate(<<t.emit.msg>> \o q)
    <3>1. /\ q \in Seq(Msgs) /\ Len(q) <= History /\ t.emit.msg \in Msgs
          /\ t.emit.room \in Rooms
      BY <2>1, EmitKinds DEF Insert, Types, Handlers
    <3>2. store' = [store EXCEPT ![t.emit.room] = s]
      BY <2>1 DEF Insert
    <3> HIDE DEF q
    <3>3. ToSet(s) \subseteq ToSet(q) \cup {t.emit.msg}
      BY <3>1, TruncateSet
    <3> HIDE DEF s
    <3>4. /\ store'[t.emit.room] = s
          /\ currentRoom[d] # t.emit.room
               => store'[currentRoom[d]] = store[currentRoom[d]]
      BY <1>1, <3>1, <3>2 DEF Types
    <3>5. ToCome(t.emit.msg)'
      BY <1>2, <2>1 DEF ToCome
    <3> QED BY <3>3, <3>4, <3>5 DEF q
  <2>2. CASE ~Insert(t)
    <3>1. store' = store
      BY <2>2 DEF Server, LeaveAll, Join, GetMessages, EmitMessages
    <3> QED BY <3>1
  <2> QED BY <2>1, <2>2
<1>5. currentRoom'[d] = currentRoom[d] /\ messages'[d] = messages[d]
      /\ JoinsIn(out'[d]) = JoinsIn(out[d])
  BY <1>1
<1> QED BY <1>2, <1>3, <1>4, <1>5, ViewFrame

\* A message is broadcast: a page whose joins are done is in the room it shows,
\* and gets the message unless its channel is full.
LEMMA BroadcastView ==
  ASSUME Types, Homes, NEW d \in up, View(d), NEW t \in Running, Broadcast(t)
  PROVE  View(d)'
<1> DEFINE m0 == t.emit.msg
           w == <<"message", m0>>
<1>1. /\ UNCHANGED <<currentRoom, messages, conns, up, out, member, store, reached,
                      raced>>
      /\ d \in Clients /\ t.at = "stored" /\ ~IsJoin(t.emit)
      /\ m0 \in Msgs /\ m0[1] = t.emit.room
      /\ JoinsIn(out[d])' = JoinsIn(out[d])
  BY EmitKinds DEF Broadcast, Types, Homes, Handlers, Sound, JoinsIn, IsJoin
<1>2. Running' \subseteq Running /\ Running \ {t} \subseteq Running'
  BY EndSteps DEF Broadcast, Types
<1>3. /\ PendingJoins(d)' = PendingJoins(d) /\ RoomsOf(d)' = RoomsOf(d)
  BY <1>1, <1>2, SameSid DEF PendingJoins, RoomsOf
<1>4. d \in Receivers(t) <=> t.emit.room \in RoomsOf(d)
  <2>1. t.emit.room \in RoomsOf(d) <=> <<Sid(d), t.emit.room>> \in member
    <3>1. \A p \in member : p = <<p[1], p[2]>>
      BY DEF Types
    <3> QED BY <3>1 DEF RoomsOf
  <2> QED BY <2>1 DEF Receivers
<1>5. /\ w \in Wires /\ refused \subseteq refused'
      /\ \/ t.emit.room \in RoomsOf(d) /\ wire'[d] = Append(wire[d], w)
         \/ /\ wire'[d] = wire[d]
            /\ t.emit.room \in RoomsOf(d) => <<d, m0>> \in refused'
  BY <1>1, <1>4, BroadcastSteps
<1>6. w[1] = "message" /\ Brought(w) = {m0}
  BY DEF Brought
<1>7. wire[d] \in Seq(Wires) /\ messages'[d] = messages[d]
  BY <1>1 DEF Types
<1> HIDE DEF w, m0
<1>8. \/ /\ t.emit.room \in RoomsOf(d)
         /\ \A m : WillShow(d, m)' <=> WillShow(d, m) \/ m = m0
      \/ /\ \A m : WillShow(d, m)' <=> WillShow(d, m)
         /\ t.emit.room \in RoomsOf(d) => <<d, m0>> \in refused'
  <2>1. CASE t.emit.room \in RoomsOf(d) /\ wire'[d] = Append(wire[d], w)
    <3>1. ASSUME NEW m PROVE WillShow(d, m)' <=> WillShow(d, m) \/ m = m0
      <4>1. WillShow(d, m)' <=>
              m \in Brought(w) \/ (WillShow(d, m) /\ w[1] = "message")
        BY <1>5, <1>7, <2>1, ShowAppend
      <4> QED BY <1>6, <4>1
    <3> QED BY <2>1, <3>1
  <2>2. CASE /\ wire'[d] = wire[d]
             /\ t.emit.room \in RoomsOf(d) => <<d, m0>> \in refused'
    <3>1. \A m : WillShow(d, m)' <=> WillShow(d, m)
      BY <1>7, <2>2 DEF WillShow, Stays, Brought
    <3> QED BY <2>2, <3>1
  <2> QED BY <1>5, <2>1, <2>2
<1>9. OneRoom(d)'
  <2>1. HasLeft(d)' <=> HasLeft(d)
    BY <1>1, <1>3 DEF HasLeft
  <2> QED BY <1>1, <1>3, <2>1 DEF View, OneRoom
<1>10. CleanView(d)'
  <2>1. reached[d] = "answer" => RoomsOf(d) \subseteq {currentRoom[d]}
    BY DEF View, OneRoom, HasLeft
  <2>2. ASSUME reached[d] = "answer", NEW m \in Msgs, WillShow(d, m)'
        PROVE  m[1] = currentRoom[d]
    <3>1. CASE WillShow(d, m)
      BY <2>2, <3>1 DEF View, CleanView
    <3>2. CASE m = m0 /\ t.emit.room \in RoomsOf(d)
      BY <1>1, <2>1, <2>2, <3>2
    <3> QED BY <1>8, <2>2, <3>1, <3>2
  <2> QED BY <1>1, <2>2 DEF CleanView
<1>11. ASSUME NEW m \in ToSet(store[currentRoom[d]]), reached[d] # "nothing"
       PROVE  Found(d, m)'
  <2>1. Found(d, m) /\ m[1] = currentRoom[d]
    <3>1. currentRoom[d] \in Rooms
      BY <1>1 DEF Types
    <3> QED BY <1>11, <3>1 DEF View, Homes
  <2>2. CASE m = m0 /\ \A x \in PendingJoins(d) : x.at = "read"
    <3>1. currentRoom[d] \in RoomsOf(d)
      BY <1>11, <2>2 DEF View, OneRoom
    <3>2. WillShow(d, m)' \/ <<d, m>> \in refused'
      BY <1>1, <1>8, <2>1, <2>2, <3>1
    <3> QED BY <3>2 DEF Found
  <2>3. CASE \E x \in PendingJoins(d) : x.at # "read"
    BY <1>3, <2>3 DEF Found
  <2>4. CASE m # m0
    <3>1. ToCome(m) => ToCome(m)'
      BY <1>2, <2>4 DEF ToCome, m0
    <3>2. WillShow(d, m) => WillShow(d, m)'
      BY <1>8
    <3> QED BY <1>1, <1>3, <1>5, <2>1, <3>1, <3>2 DEF Found
  <2> QED BY <2>2, <2>3, <2>4
<1> QED BY <1>1, <1>9, <1>10, <1>11 DEF View

\* The steps of the handlers, for one page.
LEMMA ServerView ==
  ASSUME Types, Homes, Views, NEW t \in Running, Server(t)
  PROVE  Views'
<1>1. UNCHANGED <<up, mixed>>
  BY DEF Server, LeaveAll, Join, GetMessages, EmitMessages, Insert, Broadcast
<1>2. ASSUME NEW d \in up \ mixed PROVE View(d)'
  <2>1. View(d) /\ d \in up
    BY DEF Views
  <2>2. CASE Broadcast(t)
    BY <2>1, <2>2, BroadcastView
  <2>3. CASE t \notin PendingJoins(d) /\ ~Broadcast(t)
    BY <2>1, <2>3, OtherView
  <2>4. CASE t \in PendingJoins(d) /\ ~Broadcast(t)
    <3>1. ~Insert(t)
      BY <2>4 DEF Insert, PendingJoins
    <3> QED BY <2>1, <2>4, <3>1, JoinView DEF Server
  <2> QED BY <2>2, <2>3, <2>4
<1> QED BY <1>1, <1>2 DEF Views

\* Every step, for all the pages.
LEMMA ViewsNext ==
  ASSUME Types, Homes, Deaf, Views, [Next]_vars
  PROVE  Views'
<1>1. CASE UNCHANGED vars
  <2>1. \A d : View(d)' <=> View(d)
    BY <1>1 DEF vars, View, OneRoom, HasLeft, CleanView, Found, ToCome, JoinsIn,
       PendingJoins, RoomsOf, Sid, WillShow, Stays, Brought, Running, IsJoin
  <2> QED BY <1>1, <2>1 DEF vars, Views
<1>2. ASSUME NEW c \in Clients, Page(c) \/ Socket(c) \/ Disconnect(c) PROVE Views'
  BY <1>2, ChangeRoomView, ConnectView, SendMessageView, OnEventView, SocketView,
     DisconnectView DEF Page
<1>3. ASSUME NEW t \in Running, Server(t) PROVE Views'
  BY <1>3, ServerView
<1> QED BY <1>1, <1>2, <1>3 DEF Next

\* At first no page is connected.
LEMMA ViewsInit == Init => Deaf /\ Views
  BY DEF Init, Deaf, Views

\* The invariant holds: what a page that is not mixed shows, or will, is of its
\* room once a join was answered, and nothing of that room is missed unless it
\* raced with an answer or a full channel refused it.
THEOREM ChatInvariance == Spec => []ChatInv
<1>1. Init => ChatInv
  BY InitKept, ViewsInit DEF ChatInv
<1>2. ChatInv /\ [Next]_vars => ChatInv'
  BY TypesNext, HomesNext, StoresNext, KeptNext, DeafNext, ViewsNext DEF ChatInv
<1> QED BY <1>1, <1>2, PTL DEF Spec

\* The socket of a settled page is in the room whose name it shows and in no
\* other, or in none when its joins were dropped; an answered page shows messages
\* of that room only.
THEOREM ShowsItsRoom == Spec => []RightRoom
<1>1. ChatInv => RightRoom
  <2> SUFFICES ASSUME ChatInv, NEW c \in Clients, Settled(c)
               PROVE  /\ RoomsOf(c) = IF reached[c] = "nothing" THEN {}
                                      ELSE {currentRoom[c]}
                      /\ reached[c] = "answer"
                           => \A m \in ToSet(messages[c]) : m[1] = currentRoom[c]
    BY DEF RightRoom
  <2>1. View(c) /\ PendingJoins(c) = {} /\ wire[c] = <<>> /\ out[c] = <<>>
    BY DEF ChatInv, Views, Settled
  <2>2. JoinsIn(out[c]) = {}
    <3>1. Len(out[c]) = 0
      BY <2>1
    <3> QED BY <3>1 DEF JoinsIn
  <2>3. ASSUME reached[c] = "answer", NEW m \in ToSet(messages[c])
        PROVE  m[1] = currentRoom[c]
    <3>1. WillShow(c, m)
      BY <2>1, ShowSettled
    <3>2. m \in Msgs
      <4>1. messages[c] \in Seq(Msgs)
        BY DEF ChatInv, Types
      <4> QED BY <4>1, InSeq
    <3> QED BY <2>1, <2>3, <3>1, <3>2 DEF View, CleanView
  <2>4. RoomsOf(c) = IF reached[c] = "nothing" THEN {} ELSE {currentRoom[c]}
    <3>1. CASE reached[c] = "nothing"
      BY <2>1, <2>2, <3>1 DEF View, OneRoom
    <3>2. CASE reached[c] # "nothing"
      <4>1. HasLeft(c)
        BY <2>1, <3>2 DEF HasLeft, ChatInv, Types
      <4> QED BY <2>1, <3>2, <4>1 DEF View, OneRoom
    <3> QED BY <3>1, <3>2
  <2> QED BY <2>3, <2>4
<1> QED BY <1>1, ChatInvariance, PTL

\* A settled page that a handler let into its room misses only what is still to be
\* broadcast, what was stored between the reading of the messages and the emission
\* of an answer, and what a full channel refused.
THEOREM NothingElseLost == Spec => []LostOnlyIfMissed
<1>1. ChatInv => LostOnlyIfMissed
  <2> SUFFICES ASSUME ChatInv, NEW c \in Clients, Settled(c),
                      reached[c] # "nothing",
                      NEW m \in ToSet(store[currentRoom[c]])
               PROVE  \/ m \in ToSet(messages[c]) \/ ToCome(m)
                      \/ <<c, m>> \in raced \cup refused
    BY DEF LostOnlyIfMissed
  <2>1. View(c) /\ PendingJoins(c) = {} /\ wire[c] = <<>>
    BY DEF ChatInv, Views, Settled
  <2>2. Found(c, m)
    BY <2>1 DEF View
  <2>3. WillShow(c, m) <=> m \in ToSet(messages[c])
    BY <2>1, ShowSettled
  <2> QED BY <2>1, <2>2, <2>3 DEF Found
<1> QED BY <1>1, ChatInvariance, PTL
=============================================================================
