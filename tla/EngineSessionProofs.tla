------------------------- MODULE EngineSessionProofs -------------------------
(***************************************************************************)
(* Proofs about EngineSession, for any number of polling requests,         *)
(* websockets and messages: the lock of internal_rx is held and awaited by *)
(* the tasks whose stage says so, an open session is watched, the session  *)
(* implements EngineLife, messages arrive in order, an upgrade does not    *)
(* starve behind a polling request, and the channel keeps its capacity.    *)
(***************************************************************************)
EXTENDS EngineSession, SequenceTheorems, FiniteSetTheorems, TLAPS

-----------------------------------------------------------------------------
(* The queue of the lock                                                   *)

\* A task is in the queue once; the first holds the lock.
NoDup(q) == \A i, j \in 1..Len(q) : q[i] = q[j] => i = j
AtHead(q, o) == q # <<>> /\ Head(q) = o

\* The members of a sequence, by their places.
LEMMA RangeIndex ==
  ASSUME NEW S, NEW q \in Seq(S), NEW x
  PROVE  x \in Range(q) <=> \E i \in 1..Len(q) : q[i] = x
  BY DEF Range

\* A task that comes last takes no one's place.
LEMMA AppendQueue ==
  ASSUME NEW S, NEW q \in Seq(S), NEW o \in S, NoDup(q), o \notin Range(q)
  PROVE  /\ Append(q, o) \in Seq(S) /\ NoDup(Append(q, o))
         /\ Range(Append(q, o)) = Range(q) \cup {o}
         /\ \A x : x # o => (AtHead(Append(q, o), x) <=> AtHead(q, x))
<1> DEFINE r == Append(q, o)
<1>1. r \in Seq(S) /\ Len(r) = Len(q) + 1
  OBVIOUS
<1>2. /\ \A i \in 1..Len(q) : r[i] = q[i]
      /\ r[Len(q) + 1] = o
  OBVIOUS
<1> HIDE DEF r
<1>3. NoDup(r)
  BY <1>1, <1>2, RangeIndex DEF NoDup
<1>4. ASSUME NEW x PROVE x \in Range(r) <=> x \in Range(q) \cup {o}
  <2>1. x \in Range(r) <=> \E i \in 1..Len(r) : r[i] = x
    BY <1>1, RangeIndex
  <2>2. x \in Range(q) <=> \E i \in 1..Len(q) : q[i] = x
    BY RangeIndex
  <2>3. 1..Len(r) = 1..Len(q) \cup {Len(q) + 1}
    BY <1>1
  <2> QED BY <1>2, <2>1, <2>2, <2>3
<1>5. \A x : x # o => (AtHead(r, x) <=> AtHead(q, x))
  <2>1. CASE q = <<>>
    BY <2>1, <1>1, <1>2 DEF AtHead
  <2>2. CASE q # <<>>
    <3>1. Len(q) > 0 /\ r # <<>> /\ Head(r) = Head(q)
      BY <2>2 DEF r
    <3>2. Head(q) # o
      BY <2>2, <3>1, RangeIndex
    <3> QED BY <2>2, <3>1, <3>2 DEF AtHead
  <2> QED BY <2>1, <2>2
<1> QED BY <1>1, <1>3, <1>4, <1>5 DEF r

\* A task that leaves moves those behind it up, and nobody else.
LEMMA RemoveQueue ==
  ASSUME NEW S, NEW q \in Seq(S), NoDup(q), NEW o, NEW i \in 1..Len(q),
         q[i] = o, NEW r, r = RemoveAt(q, i)
  PROVE  /\ r \in Seq(S) /\ NoDup(r)
         /\ Range(r) = Range(q) \ {o}
         /\ \A x : x # o /\ AtHead(q, x) => AtHead(r, x)
         /\ \A x : AtHead(r, x) => x \in Range(r)
<1> DEFINE a == SubSeq(q, 1, i - 1)
           b == SubSeq(q, i + 1, Len(q))
<1>a. /\ a \in Seq(S) /\ Len(a) = i - 1
      /\ \A k \in 1..(i - 1) : a[k] = q[k]
  <2>1. \A k \in 1..(i - 1) : q[k] \in S
    OBVIOUS
  <2> QED BY <2>1, SubSeqProperties
<1>b. /\ b \in Seq(S) /\ Len(b) = Len(q) - i
      /\ \A k \in 1..(Len(q) - i) : b[k] = q[i + k]
  <2>1. \A k \in (i + 1)..Len(q) : q[k] \in S
    OBVIOUS
  <2>2. /\ b \in Seq(S)
        /\ Len(b) = IF i + 1 <= Len(q) THEN Len(q) - (i + 1) + 1 ELSE 0
        /\ \A k \in 1..(Len(q) - (i + 1) + 1) : b[k] = q[i + 1 + k - 1]
    BY <2>1, SubSeqProperties
  <2> QED BY <2>2
<1>1. r \in Seq(S) /\ Len(r) = Len(q) - 1
  <2> HIDE DEF a, b
  <2>1. r = a \o b
    BY DEF RemoveAt, a, b
  <2> QED BY <1>a, <1>b, <2>1, ConcatProperties
<1>2. \A k \in 1..Len(r) : r[k] = IF k < i THEN q[k] ELSE q[k + 1]
  <2> HIDE DEF a, b
  <2>1. r = a \o b
    BY DEF RemoveAt, a, b
  <2>2. \A k \in 1..Len(r) : r[k] = IF k <= Len(a) THEN a[k] ELSE b[k - Len(a)]
    BY <1>a, <1>b, <1>1, <2>1, ConcatProperties
  <2>3. ASSUME NEW k \in 1..Len(r)
        PROVE  r[k] = IF k < i THEN q[k] ELSE q[k + 1]
    <3>1. CASE k < i
      BY <1>a, <2>2, <2>3, <3>1
    <3>2. CASE k >= i
      <4>1. k - (i - 1) \in 1..(Len(q) - i)
        BY <1>1, <2>3, <3>2
      <4>2. b[k - (i - 1)] = q[k + 1]
        BY <1>b, <4>1
      <4> QED BY <1>a, <2>2, <2>3, <3>2, <4>2
    <3> QED BY <3>1, <3>2
  <2> QED BY <2>3
<1> HIDE DEF a, b
<1>3. NoDup(r)
  BY <1>1, <1>2 DEF NoDup
<1>4. ASSUME NEW x PROVE x \in Range(r) <=> x \in Range(q) \ {o}
  <2>1. ASSUME x \in Range(r) PROVE x \in Range(q) \ {o}
    <3>1. PICK k \in 1..Len(r) : r[k] = x
      BY <1>1, <2>1, RangeIndex
    <3>2. PICK j \in 1..Len(q) : q[j] = x /\ j # i
      <4>1. CASE k < i
        BY <1>1, <1>2, <3>1, <4>1
      <4>2. CASE k >= i
        <5>1. k + 1 \in 1..Len(q) /\ q[k + 1] = x /\ k + 1 # i
          BY <1>1, <1>2, <3>1, <4>2
        <5> QED BY <5>1
      <4> QED BY <4>1, <4>2
    <3> QED BY <3>2, RangeIndex DEF NoDup
  <2>2. ASSUME x \in Range(q) \ {o} PROVE x \in Range(r)
    <3>1. PICK j \in 1..Len(q) : q[j] = x /\ j # i
      BY <2>2, RangeIndex
    <3>2. CASE j < i
      <4>1. j \in 1..Len(r) /\ r[j] = x
        BY <1>1, <1>2, <3>1, <3>2
      <4> QED BY <1>1, <4>1, RangeIndex
    <3>3. CASE j > i
      <4>1. j - 1 \in 1..Len(r) /\ r[j - 1] = x
        BY <1>1, <1>2, <3>1, <3>3
      <4> QED BY <1>1, <4>1, RangeIndex
    <3> QED BY <3>1, <3>2, <3>3
  <2> QED BY <2>1, <2>2
<1>5. ASSUME NEW x, x # o, AtHead(q, x) PROVE AtHead(r, x)
  <2>1. Head(q) = q[1] /\ i # 1 /\ Len(r) >= 1
    BY <1>1, <1>5 DEF AtHead
  <2>2. r[1] = q[1]
    BY <1>2, <2>1
  <2> QED BY <1>1, <1>5, <2>1, <2>2 DEF AtHead
<1>6. ASSUME NEW x, AtHead(r, x) PROVE x \in Range(r)
  BY <1>1, <1>6, RangeIndex DEF AtHead
<1> QED BY <1>1, <1>3, <1>4, <1>5, <1>6

-----------------------------------------------------------------------------
(* The inductive invariant                                                 *)

USE DEF rxVars, closeVars, hbVars

\* The types of what the lock and the closing of the session depend on.
Types ==
  /\ open \in BOOLEAN /\ upgrading \in BOOLEAN /\ rxClosed \in BOOLEAN
  /\ poll \in [Polls -> PollStage]
  /\ ws \in [Conns -> WsStage]
  /\ writer \in [Conns -> WriterStage]
  /\ heartbeat \in HbStage /\ closer \in CloserStage

\* close_session spawns one closer, which closes the channel; a websocket gets
\* one writer, when its task starts to read.
Ordered ==
  /\ open <=> closer = "none"
  /\ rxClosed <=> closer \in {"closed", "gone"}
  /\ \A u \in Conns : writer[u] # "none" => ws[u] \in {"reading", "done"}

\* The lock is a queue of tasks.
Queue == lockq \in Seq(Owner) /\ LockOK

IInv == Types /\ Ordered /\ Queue

\* Nobody holds the lock of a new session.
LEMMA InitInv == Init => IInv
<1> SUFFICES ASSUME Init PROVE IInv
  OBVIOUS
<1> USE DEF Init
<1>1. Types /\ Ordered
  BY DEF Types, Ordered, PollStage, WsStage, WriterStage, HbStage, CloserStage
<1>2. Len(lockq) = 0 /\ Range(lockq) = {} /\ \A o : ~Holds(o)
  BY DEF Range, Holds
<1>3. Queue
  BY <1>2 DEF Queue, LockOK
<1> QED BY <1>1, <1>3 DEF IInv

\* The tasks that use the lock are different.
LEMMA Distinct ==
  /\ Closer \in Owner
  /\ \A p \in Polls : PollOf(p) \in Owner /\ PollOf(p) # Closer
  /\ \A u \in Conns : /\ WsOf(u) \in Owner /\ WriterOf(u) \in Owner
                      /\ WsOf(u) # Closer /\ WriterOf(u) # Closer
  /\ \A p \in Polls, u \in Conns :
       PollOf(p) # WsOf(u) /\ PollOf(p) # WriterOf(u)
  /\ \A u, v \in Conns : WsOf(u) # WriterOf(v)
  /\ \A p, q \in Polls : PollOf(p) = PollOf(q) => p = q
  /\ \A u, v \in Conns : /\ WsOf(u) = WsOf(v) => u = v
                         /\ WriterOf(u) = WriterOf(v) => u = v
  BY DEF Owner, PollOf, WsOf, WriterOf, Closer

\* The holder is the head of the queue, before and after a step.
LEMMA HoldsAtHead ==
  /\ \A x : Holds(x) <=> AtHead(lockq, x)
  /\ \A x : Holds(x)' <=> AtHead(lockq', x)
  BY DEF Holds, AtHead

\* What the four things that can happen to the queue leave behind.
LEMMA KeepQueue ==
  ASSUME Queue, UNCHANGED lockq
  PROVE  /\ lockq' \in Seq(Owner) /\ NoDup(lockq)'
         /\ Range(lockq') = Range(lockq)
         /\ \A x : Holds(x)' <=> Holds(x)
<1>1. NoDup(lockq)
  BY DEF Queue, LockOK, NoDup
<1>2. NoDup(lockq)'
  BY <1>1
<1>3. \A x : Holds(x)' <=> Holds(x)
  BY HoldsAtHead
<1> QED BY <1>2, <1>3 DEF Queue

LEMMA EnqueueQueue ==
  ASSUME Queue, NEW o \in Owner, o \notin Range(lockq), Enqueue(o)
  PROVE  /\ lockq' \in Seq(Owner) /\ NoDup(lockq)'
         /\ Range(lockq') = Range(lockq) \cup {o}
         /\ \A x : x # o => (Holds(x)' <=> Holds(x))
<1>1. NoDup(lockq) /\ lockq \in Seq(Owner)
  BY DEF Queue, LockOK, NoDup
<1>2. lockq' = Append(lockq, o)
  BY DEF Enqueue
<1>3. /\ lockq' \in Seq(Owner) /\ NoDup(lockq')
      /\ Range(lockq') = Range(lockq) \cup {o}
      /\ \A x : x # o => (AtHead(lockq', x) <=> AtHead(lockq, x))
  BY <1>1, <1>2, AppendQueue
<1> QED BY <1>3, HoldsAtHead

LEMMA TryQueue ==
  ASSUME Queue, NEW o \in Owner, TryLock(o)
  PROVE  /\ lockq' \in Seq(Owner) /\ NoDup(lockq)' /\ Holds(o)'
         /\ Range(lockq) = {} /\ Range(lockq') = {o}
         /\ \A x : ~Holds(x)
         /\ \A x : x # o => ~Holds(x)'
<1>1. Range(lockq) = {} /\ \A x : ~Holds(x)
  BY DEF TryLock, Range, Holds
<1>2. lockq' = Append(lockq, o) /\ NoDup(lockq) /\ lockq \in Seq(Owner)
  BY DEF TryLock, NoDup, Queue
<1>3. /\ lockq' \in Seq(Owner) /\ NoDup(lockq')
      /\ Range(lockq') = Range(lockq) \cup {o}
      /\ \A x : x # o => (AtHead(lockq', x) <=> AtHead(lockq, x))
  <2>1. o \notin Range(lockq)
    BY <1>1
  <2> QED BY <1>2, <2>1, AppendQueue
<1>4. AtHead(lockq', o)
  BY DEF TryLock, AtHead
<1> QED BY <1>1, <1>3, <1>4, HoldsAtHead

LEMMA UnlockQueue ==
  ASSUME Queue, NEW o, Unlock(o)
  PROVE  /\ lockq' \in Seq(Owner) /\ NoDup(lockq)'
         /\ Range(lockq') = Range(lockq) \ {o}
         /\ \A x : x # o /\ Holds(x) => Holds(x)'
         /\ \A x : Holds(x)' => x \in Range(lockq')
<1>1. NoDup(lockq) /\ lockq \in Seq(Owner)
  BY DEF Queue, LockOK, NoDup
<1>2. CASE o \notin Range(lockq) /\ UNCHANGED lockq
  <2>1. ASSUME NEW x, Holds(x) PROVE x \in Range(lockq)
    <3>1. Len(lockq) > 0 /\ lockq[1] = x
      BY <1>1, <2>1 DEF Holds
    <3> QED BY <1>1, <3>1, RangeIndex
  <2> QED BY <1>2, <2>1, KeepQueue
<1>3. CASE \E i \in 1..Len(lockq) : lockq[i] = o /\ lockq' = RemoveAt(lockq, i)
  <2>1. /\ lockq' \in Seq(Owner) /\ NoDup(lockq')
        /\ Range(lockq') = Range(lockq) \ {o}
        /\ \A x : x # o /\ AtHead(lockq, x) => AtHead(lockq', x)
        /\ \A x : AtHead(lockq', x) => x \in Range(lockq')
    BY <1>1, <1>3, RemoveQueue
  <2> QED BY <2>1, HoldsAtHead
<1> QED BY <1>2, <1>3 DEF Unlock

\* Every stage is followed by a stage.
LEMMA TypesNext ==
  ASSUME Types, [Next]_vars
  PROVE  Types'
<1> USE DEF Types, PollStage, WsStage, WriterStage, HbStage, CloserStage
<1>1. CASE Emit
  BY <1>1 DEF Emit, Room
<1>2. CASE ServerClose
  BY <1>2 DEF ServerClose, SocketClose, CloseSession
<1>3. ASSUME NEW p \in Polls, PollGet(p) PROVE Types'
  BY <1>3 DEF PollGet, PollTo
<1>4. ASSUME NEW p \in Polls, PollCheck(p) PROVE Types'
  BY <1>4 DEF PollCheck, PollTo
<1>5. ASSUME NEW p \in Polls, PollLock(p) PROVE Types'
  BY <1>5 DEF PollLock, PollTo
<1>6. ASSUME NEW p \in Polls, PollMultiple(p) PROVE Types'
  BY <1>6 DEF PollMultiple, PollTo, SocketClose, CloseSession
<1>7. ASSUME NEW p \in Polls, PollRespond(p) PROVE Types'
  BY <1>7 DEF PollRespond, PollTo
<1>8. ASSUME NEW p \in Polls, PollCancelled(p) PROVE Types'
  BY <1>8 DEF PollCancelled, PollTo
<1>9. ASSUME NEW p \in Polls, PollDropped(p) PROVE Types'
  BY <1>9 DEF PollDropped, PollTo
<1>10. CASE PostStart
  BY <1>10 DEF PostStart
<1>11. CASE PostPong
  BY <1>11 DEF PostPong, PongReceived
<1>12. CASE PostClose
  BY <1>12 DEF PostClose, CloseSession
<1>13. CASE PostMalformed
  BY <1>13 DEF PostMalformed, CloseSession
<1>14. CASE PostEnd
  BY <1>14 DEF PostEnd
<1>15. ASSUME NEW u \in Conns, WsGet(u) PROVE Types'
  BY <1>15 DEF WsGet, WsTo
<1>16. ASSUME NEW u \in Conns, WsStart(u) PROVE Types'
  BY <1>16 DEF WsStart, WsTo
<1>17. ASSUME NEW u \in Conns, WsNoop(u) PROVE Types'
  BY <1>17 DEF WsNoop, WsTo
<1>18. ASSUME NEW u \in Conns, WsLock(u) PROVE Types'
  BY <1>18 DEF WsLock, WsTo
<1>19. ASSUME NEW u \in Conns, WsHandshake(u) PROVE Types'
  BY <1>19 DEF WsHandshake, WsTo
<1>20. ASSUME NEW u \in Conns, WsClearUpgrading(u) PROVE Types'
  BY <1>20 DEF WsClearUpgrading, WsTo
<1>21. ASSUME NEW u \in Conns, WsSetTransport(u) PROVE Types'
  BY <1>21 DEF WsSetTransport, WsTo
<1>22. ASSUME NEW u \in Conns, WsSpawn(u) PROVE Types'
  BY <1>22 DEF WsSpawn, WsTo
<1>23. ASSUME NEW u \in Conns, WsCancelled(u) PROVE Types'
  BY <1>23 DEF WsCancelled, WsTo, Interruptible
<1>24. ASSUME NEW u \in Conns, WsTimeout(u) PROVE Types'
  BY <1>24 DEF WsTimeout, WsTo, Interruptible, CloseSession
<1>25. ASSUME NEW u \in Conns, WsFail(u) PROVE Types'
  BY <1>25 DEF WsFail, WsTo
<1>26. ASSUME NEW u \in Conns, WsFailed(u) PROVE Types'
  BY <1>26 DEF WsFailed, WsTo, CloseSession
<1>27. ASSUME NEW u \in Conns, WsOpened(u) PROVE Types'
  BY <1>27 DEF WsOpened, WsTo
<1>28. ASSUME NEW u \in Conns, WsNotOpened(u) PROVE Types'
  BY <1>28 DEF WsNotOpened, WsTo
<1>29. ASSUME NEW u \in Conns, ReadPong(u) PROVE Types'
  BY <1>29 DEF ReadPong, PongReceived
<1>30. ASSUME NEW u \in Conns, ReadEnd(u) PROVE Types'
  BY <1>30 DEF ReadEnd, WsTo, CloseSession
<1>31. ASSUME NEW u \in Conns, ReadCancelled(u) PROVE Types'
  BY <1>31 DEF ReadCancelled, WsTo
<1>32. ASSUME NEW u \in Conns, WriterLock(u) PROVE Types'
  BY <1>32 DEF WriterLock, WriterTo
<1>33. ASSUME NEW u \in Conns, WriterLocked(u) PROVE Types'
  BY <1>33 DEF WriterLocked, WriterTo
<1>34. ASSUME NEW u \in Conns, WriterCancelled(u) PROVE Types'
  BY <1>34 DEF WriterCancelled, WriterTo
<1>35. ASSUME NEW u \in Conns, WriterRecv(u) PROVE Types'
  BY <1>35 DEF WriterRecv, WriterTo
<1>36. ASSUME NEW u \in Conns, WriterFeed(u) PROVE Types'
  BY <1>36 DEF WriterFeed, WriterTo
<1>37. ASSUME NEW u \in Conns, WriterEnd(u) PROVE Types'
  BY <1>37 DEF WriterEnd, WriterTo
<1>38. ASSUME NEW u \in Conns, PeerStalls(u) PROVE Types'
  BY <1>38 DEF PeerStalls
<1>39. CASE HbStart
  BY <1>39 DEF HbStart, HbTo
<1>40. CASE HbCheck
  BY <1>40 DEF HbCheck, HbTo
<1>41. CASE HbPing
  BY <1>41 DEF HbPing, HbTo
<1>42. CASE HbFull
  BY <1>42 DEF HbFull, HbTo, SocketClose, CloseSession
<1>43. CASE HbPong
  BY <1>43 DEF HbPong, HbTo
<1>44. CASE HbTimeout
  BY <1>44 DEF HbTimeout, HbTo, SocketClose, CloseSession
<1>45. CASE HbCancelled
  BY <1>45 DEF HbCancelled, HbTo
<1>46. CASE CloserLock
  BY <1>46 DEF CloserLock
<1>47. CASE CloserClose
  BY <1>47 DEF CloserClose
<1>48. CASE Notify
  BY <1>48 DEF Notify
<1>49. CASE UNCHANGED vars
  BY <1>49 DEF vars
<1> QED BY <1>1, <1>2, <1>3, <1>4, <1>5, <1>6, <1>7, <1>8, <1>9, <1>10, <1>11,
   <1>12, <1>13, <1>14, <1>15, <1>16, <1>17, <1>18, <1>19, <1>20, <1>21, <1>22,
   <1>23, <1>24, <1>25, <1>26, <1>27, <1>28, <1>29, <1>30, <1>31, <1>32, <1>33,
   <1>34, <1>35, <1>36, <1>37, <1>38, <1>39, <1>40, <1>41, <1>42, <1>43, <1>44,
   <1>45, <1>46, <1>47, <1>48, <1>49 DEF Next, ClientStep, HeartbeatStep,
   CloserStep, PollStep, WsStep, WriterStep

\* Only the first close_session spawns a closer; stages of a websocket that end
\* before it reads have no writer.
LEMMA OrderedNext ==
  ASSUME Types, Ordered, [Next]_vars
  PROVE  Ordered'
<1> USE DEF Types, CloserStage, WsStage, WriterStage, Ordered
<1>1. CASE Emit
  BY <1>1 DEF Emit, Room
<1>2. CASE ServerClose
  BY <1>2 DEF ServerClose, SocketClose, CloseSession
<1>3. ASSUME NEW p \in Polls, PollGet(p) PROVE Ordered'
  BY <1>3 DEF PollGet, PollTo
<1>4. ASSUME NEW p \in Polls, PollCheck(p) PROVE Ordered'
  BY <1>4 DEF PollCheck, PollTo
<1>5. ASSUME NEW p \in Polls, PollLock(p) PROVE Ordered'
  BY <1>5 DEF PollLock, PollTo
<1>6. ASSUME NEW p \in Polls, PollMultiple(p) PROVE Ordered'
  BY <1>6 DEF PollMultiple, PollTo, SocketClose, CloseSession
<1>7. ASSUME NEW p \in Polls, PollRespond(p) PROVE Ordered'
  BY <1>7 DEF PollRespond, PollTo
<1>8. ASSUME NEW p \in Polls, PollCancelled(p) PROVE Ordered'
  BY <1>8 DEF PollCancelled, PollTo
<1>9. ASSUME NEW p \in Polls, PollDropped(p) PROVE Ordered'
  BY <1>9 DEF PollDropped, PollTo
<1>10. CASE PostStart
  BY <1>10 DEF PostStart
<1>11. CASE PostPong
  BY <1>11 DEF PostPong, PongReceived
<1>12. CASE PostClose
  BY <1>12 DEF PostClose, CloseSession
<1>13. CASE PostMalformed
  BY <1>13 DEF PostMalformed, CloseSession
<1>14. CASE PostEnd
  BY <1>14 DEF PostEnd
<1>15. ASSUME NEW u \in Conns, WsGet(u) PROVE Ordered'
  BY <1>15 DEF WsGet, WsTo
<1>16. ASSUME NEW u \in Conns, WsStart(u) PROVE Ordered'
  BY <1>16 DEF WsStart, WsTo
<1>17. ASSUME NEW u \in Conns, WsNoop(u) PROVE Ordered'
  BY <1>17 DEF WsNoop, WsTo
<1>18. ASSUME NEW u \in Conns, WsLock(u) PROVE Ordered'
  BY <1>18 DEF WsLock, WsTo
<1>19. ASSUME NEW u \in Conns, WsHandshake(u) PROVE Ordered'
  BY <1>19 DEF WsHandshake, WsTo
<1>20. ASSUME NEW u \in Conns, WsClearUpgrading(u) PROVE Ordered'
  BY <1>20 DEF WsClearUpgrading, WsTo
<1>21. ASSUME NEW u \in Conns, WsSetTransport(u) PROVE Ordered'
  BY <1>21 DEF WsSetTransport, WsTo
<1>22. ASSUME NEW u \in Conns, WsSpawn(u) PROVE Ordered'
  BY <1>22 DEF WsSpawn, WsTo
<1>23. ASSUME NEW u \in Conns, WsCancelled(u) PROVE Ordered'
  BY <1>23 DEF WsCancelled, WsTo, Interruptible
<1>24. ASSUME NEW u \in Conns, WsTimeout(u) PROVE Ordered'
  BY <1>24 DEF WsTimeout, WsTo, Interruptible, CloseSession
<1>25. ASSUME NEW u \in Conns, WsFail(u) PROVE Ordered'
  BY <1>25 DEF WsFail, WsTo
<1>26. ASSUME NEW u \in Conns, WsFailed(u) PROVE Ordered'
  BY <1>26 DEF WsFailed, WsTo, CloseSession
<1>27. ASSUME NEW u \in Conns, WsOpened(u) PROVE Ordered'
  BY <1>27 DEF WsOpened, WsTo
<1>28. ASSUME NEW u \in Conns, WsNotOpened(u) PROVE Ordered'
  BY <1>28 DEF WsNotOpened, WsTo
<1>29. ASSUME NEW u \in Conns, ReadPong(u) PROVE Ordered'
  BY <1>29 DEF ReadPong, PongReceived
<1>30. ASSUME NEW u \in Conns, ReadEnd(u) PROVE Ordered'
  BY <1>30 DEF ReadEnd, WsTo, CloseSession
<1>31. ASSUME NEW u \in Conns, ReadCancelled(u) PROVE Ordered'
  BY <1>31 DEF ReadCancelled, WsTo
<1>32. ASSUME NEW u \in Conns, WriterLock(u) PROVE Ordered'
  BY <1>32 DEF WriterLock, WriterTo
<1>33. ASSUME NEW u \in Conns, WriterLocked(u) PROVE Ordered'
  BY <1>33 DEF WriterLocked, WriterTo
<1>34. ASSUME NEW u \in Conns, WriterCancelled(u) PROVE Ordered'
  BY <1>34 DEF WriterCancelled, WriterTo
<1>35. ASSUME NEW u \in Conns, WriterRecv(u) PROVE Ordered'
  BY <1>35 DEF WriterRecv, WriterTo
<1>36. ASSUME NEW u \in Conns, WriterFeed(u) PROVE Ordered'
  BY <1>36 DEF WriterFeed, WriterTo
<1>37. ASSUME NEW u \in Conns, WriterEnd(u) PROVE Ordered'
  BY <1>37 DEF WriterEnd, WriterTo
<1>38. ASSUME NEW u \in Conns, PeerStalls(u) PROVE Ordered'
  BY <1>38 DEF PeerStalls
<1>39. CASE HbStart
  BY <1>39 DEF HbStart, HbTo
<1>40. CASE HbCheck
  BY <1>40 DEF HbCheck, HbTo
<1>41. CASE HbPing
  BY <1>41 DEF HbPing, HbTo
<1>42. CASE HbFull
  BY <1>42 DEF HbFull, HbTo, SocketClose, CloseSession
<1>43. CASE HbPong
  BY <1>43 DEF HbPong, HbTo
<1>44. CASE HbTimeout
  BY <1>44 DEF HbTimeout, HbTo, SocketClose, CloseSession
<1>45. CASE HbCancelled
  BY <1>45 DEF HbCancelled, HbTo
<1>46. CASE CloserLock
  BY <1>46 DEF CloserLock
<1>47. CASE CloserClose
  BY <1>47 DEF CloserClose
<1>48. CASE Notify
  BY <1>48 DEF Notify
<1>49. CASE UNCHANGED vars
  BY <1>49 DEF vars
<1> QED BY <1>1, <1>2, <1>3, <1>4, <1>5, <1>6, <1>7, <1>8, <1>9, <1>10, <1>11,
   <1>12, <1>13, <1>14, <1>15, <1>16, <1>17, <1>18, <1>19, <1>20, <1>21, <1>22,
   <1>23, <1>24, <1>25, <1>26, <1>27, <1>28, <1>29, <1>30, <1>31, <1>32, <1>33,
   <1>34, <1>35, <1>36, <1>37, <1>38, <1>39, <1>40, <1>41, <1>42, <1>43, <1>44,
   <1>45, <1>46, <1>47, <1>48, <1>49 DEF Next, ClientStep, HeartbeatStep,
   CloserStep, PollStep, WsStep, WriterStep

\* The steps that have nothing to do with the lock.
LEMMA KeepAll ==
  ASSUME Queue, UNCHANGED <<lockq, poll, ws, writer>>,
         closer' = "waiting" <=> closer = "waiting"
  PROVE  Queue'
<1>1. NoDup(lockq')
  BY KeepQueue
<1> QED BY <1>1, KeepQueue DEF Queue, LockOK, NoDup

\* A task enters the queue at the stage that says so, and leaves it with its
\* guard; the lock is handed over to a task that waits, never to a poll.
LEMMA LockNext ==
  ASSUME Types, Ordered, Queue, [Next]_vars
  PROVE  Queue'
<1> USE DEF Types, Ordered, Queue, LockOK, NoDup
<1>1. CASE Emit
  BY <1>1, KeepAll DEF Emit, Room
<1>2. CASE ServerClose
  BY <1>2, KeepAll DEF ServerClose, SocketClose, CloseSession
<1>3. ASSUME NEW p \in Polls, PollGet(p) PROVE Queue'
  BY <1>3, KeepQueue DEF PollGet, PollTo
<1>4. ASSUME NEW p \in Polls, PollCheck(p) PROVE Queue'
  BY <1>4, KeepQueue DEF PollCheck, PollTo
<1>5. ASSUME NEW p \in Polls, PollLock(p) PROVE Queue'
  BY <1>5, TryQueue, Distinct DEF PollLock, PollTo
<1>6. ASSUME NEW p \in Polls, PollMultiple(p) PROVE Queue'
  BY <1>6, KeepQueue DEF PollMultiple, PollTo, SocketClose, CloseSession
<1>7. ASSUME NEW p \in Polls, PollRespond(p) PROVE Queue'
  BY <1>7, UnlockQueue, Distinct DEF PollRespond, PollTo
<1>8. ASSUME NEW p \in Polls, PollCancelled(p) PROVE Queue'
  BY <1>8, UnlockQueue, Distinct DEF PollCancelled, PollTo
<1>9. ASSUME NEW p \in Polls, PollDropped(p) PROVE Queue'
  BY <1>9, UnlockQueue, Distinct DEF PollDropped, PollTo
<1>10. CASE PostStart
  BY <1>10, KeepAll DEF PostStart
<1>11. CASE PostPong
  BY <1>11, KeepAll DEF PostPong, PongReceived
<1>12. CASE PostClose
  BY <1>12, KeepAll DEF PostClose, CloseSession
<1>13. CASE PostMalformed
  BY <1>13, KeepAll DEF PostMalformed, CloseSession
<1>14. CASE PostEnd
  BY <1>14, KeepAll DEF PostEnd
<1>15. ASSUME NEW u \in Conns, WsGet(u) PROVE Queue'
  BY <1>15, KeepQueue DEF WsGet, WsTo
<1>16. ASSUME NEW u \in Conns, WsStart(u) PROVE Queue'
  BY <1>16, KeepQueue DEF WsStart, WsTo
<1>17. ASSUME NEW u \in Conns, WsNoop(u) PROVE Queue'
  BY <1>17, KeepQueue DEF WsNoop, WsTo
<1>18. ASSUME NEW u \in Conns, WsLock(u) PROVE Queue'
  BY <1>18, EnqueueQueue, Distinct DEF WsLock, WsTo
<1>19. ASSUME NEW u \in Conns, WsHandshake(u) PROVE Queue'
  BY <1>19, KeepQueue DEF WsHandshake, WsTo
<1>20. ASSUME NEW u \in Conns, WsClearUpgrading(u) PROVE Queue'
  BY <1>20, KeepQueue DEF WsClearUpgrading, WsTo
<1>21. ASSUME NEW u \in Conns, WsSetTransport(u) PROVE Queue'
  BY <1>21, KeepQueue DEF WsSetTransport, WsTo
<1>22. ASSUME NEW u \in Conns, WsSpawn(u) PROVE Queue'
  BY <1>22, UnlockQueue, Distinct DEF WsSpawn, WsTo
<1>23. ASSUME NEW u \in Conns, WsCancelled(u) PROVE Queue'
  BY <1>23, UnlockQueue, Distinct DEF WsCancelled, WsTo, Interruptible
<1>24. ASSUME NEW u \in Conns, WsTimeout(u) PROVE Queue'
  BY <1>24, UnlockQueue, Distinct DEF WsTimeout, WsTo, Interruptible,
     CloseSession
<1>25. ASSUME NEW u \in Conns, WsFail(u) PROVE Queue'
  BY <1>25, UnlockQueue, Distinct DEF WsFail, WsTo
<1>26. ASSUME NEW u \in Conns, WsFailed(u) PROVE Queue'
  BY <1>26, KeepQueue DEF WsFailed, WsTo, CloseSession
<1>27. ASSUME NEW u \in Conns, WsOpened(u) PROVE Queue'
  BY <1>27, KeepQueue DEF WsOpened, WsTo
<1>28. ASSUME NEW u \in Conns, WsNotOpened(u) PROVE Queue'
  BY <1>28, KeepQueue DEF WsNotOpened, WsTo
<1>29. ASSUME NEW u \in Conns, ReadPong(u) PROVE Queue'
  BY <1>29, KeepAll DEF ReadPong, PongReceived
<1>30. ASSUME NEW u \in Conns, ReadEnd(u) PROVE Queue'
  BY <1>30, KeepQueue DEF ReadEnd, WsTo, CloseSession
<1>31. ASSUME NEW u \in Conns, ReadCancelled(u) PROVE Queue'
  BY <1>31, KeepQueue DEF ReadCancelled, WsTo
<1>32. ASSUME NEW u \in Conns, WriterLock(u) PROVE Queue'
  BY <1>32, EnqueueQueue, Distinct DEF WriterLock, WriterTo
<1>33. ASSUME NEW u \in Conns, WriterLocked(u) PROVE Queue'
  BY <1>33, KeepQueue DEF WriterLocked, WriterTo
<1>34. ASSUME NEW u \in Conns, WriterCancelled(u) PROVE Queue'
  BY <1>34, UnlockQueue, Distinct DEF WriterCancelled, WriterTo
<1>35. ASSUME NEW u \in Conns, WriterRecv(u) PROVE Queue'
  BY <1>35, KeepQueue DEF WriterRecv, WriterTo
<1>36. ASSUME NEW u \in Conns, WriterFeed(u) PROVE Queue'
  BY <1>36, KeepQueue DEF WriterFeed, WriterTo
<1>37. ASSUME NEW u \in Conns, WriterEnd(u) PROVE Queue'
  BY <1>37, UnlockQueue, Distinct DEF WriterEnd, WriterTo
<1>38. ASSUME NEW u \in Conns, PeerStalls(u) PROVE Queue'
  BY <1>38, KeepAll DEF PeerStalls
<1>39. CASE HbStart
  BY <1>39, KeepAll DEF HbStart, HbTo
<1>40. CASE HbCheck
  BY <1>40, KeepAll DEF HbCheck, HbTo
<1>41. CASE HbPing
  BY <1>41, KeepAll DEF HbPing, HbTo
<1>42. CASE HbFull
  BY <1>42, KeepAll DEF HbFull, HbTo, SocketClose, CloseSession
<1>43. CASE HbPong
  BY <1>43, KeepAll DEF HbPong, HbTo
<1>44. CASE HbTimeout
  BY <1>44, KeepAll DEF HbTimeout, HbTo, SocketClose, CloseSession
<1>45. CASE HbCancelled
  BY <1>45, KeepAll DEF HbCancelled, HbTo
<1>46. CASE CloserLock
  BY <1>46, EnqueueQueue, Distinct DEF CloserLock
<1>47. CASE CloserClose
  BY <1>47, UnlockQueue, Distinct DEF CloserClose
<1>48. CASE Notify
  BY <1>48, KeepAll DEF Notify
<1>49. CASE UNCHANGED vars
  BY <1>49, KeepAll DEF vars
<1> QED BY <1>1, <1>2, <1>3, <1>4, <1>5, <1>6, <1>7, <1>8, <1>9, <1>10, <1>11,
   <1>12, <1>13, <1>14, <1>15, <1>16, <1>17, <1>18, <1>19, <1>20, <1>21, <1>22,
   <1>23, <1>24, <1>25, <1>26, <1>27, <1>28, <1>29, <1>30, <1>31, <1>32, <1>33,
   <1>34, <1>35, <1>36, <1>37, <1>38, <1>39, <1>40, <1>41, <1>42, <1>43, <1>44,
   <1>45, <1>46, <1>47, <1>48, <1>49 DEF Next, ClientStep, HeartbeatStep,
   CloserStep, PollStep, WsStep, WriterStep

\* The parts together.
LEMMA Consecution == IInv /\ [Next]_vars => IInv'
  BY TypesNext, OrderedNext, LockNext DEF IInv

\* The invariant of the lock and of the closing of the session.
THEOREM Invariance == Spec => []IInv
  BY InitInv, Consecution, PTL DEF Spec

\* The tasks that hold or await the lock of internal_rx are those whose stage
\* says so, each once, for any number of polling requests, websockets and
\* messages: a guard dropped in any way of ending a request or a handshake is
\* released.
THEOREM LockHeld == Spec => []LockOK
<1>1. IInv => LockOK
  BY DEF IInv, Queue
<1> QED BY Invariance, <1>1, PTL

-----------------------------------------------------------------------------
(* The heartbeat watches the session                                       *)

\* Whatever ends the heartbeat job closes the session, and so does every way of
\* abandoning an upgrade that keeps the heartbeat paused.
LEMMA WatchedNext ==
  ASSUME Types, Ordered, Watched, "stream" \notin Entries,
         [Next]_vars
  PROVE  Watched'
<1> USE DEF Types, WsStage, HbStage, Ordered, Watched
<1>1. CASE Emit
  BY <1>1 DEF Emit, Room
<1>2. CASE ServerClose
  BY <1>2 DEF ServerClose, SocketClose, CloseSession
<1>3. ASSUME NEW p \in Polls, PollGet(p) PROVE Watched'
  BY <1>3 DEF PollGet, PollTo
<1>4. ASSUME NEW p \in Polls, PollCheck(p) PROVE Watched'
  BY <1>4 DEF PollCheck, PollTo
<1>5. ASSUME NEW p \in Polls, PollLock(p) PROVE Watched'
  BY <1>5 DEF PollLock, PollTo
<1>6. ASSUME NEW p \in Polls, PollMultiple(p) PROVE Watched'
  BY <1>6 DEF PollMultiple, PollTo, SocketClose, CloseSession
<1>7. ASSUME NEW p \in Polls, PollRespond(p) PROVE Watched'
  BY <1>7 DEF PollRespond, PollTo
<1>8. ASSUME NEW p \in Polls, PollCancelled(p) PROVE Watched'
  BY <1>8 DEF PollCancelled, PollTo
<1>9. ASSUME NEW p \in Polls, PollDropped(p) PROVE Watched'
  BY <1>9 DEF PollDropped, PollTo
<1>10. CASE PostStart
  BY <1>10 DEF PostStart
<1>11. CASE PostPong
  BY <1>11 DEF PostPong, PongReceived
<1>12. CASE PostClose
  BY <1>12 DEF PostClose, CloseSession
<1>13. CASE PostMalformed
  BY <1>13 DEF PostMalformed, CloseSession
<1>14. CASE PostEnd
  BY <1>14 DEF PostEnd
<1>15. ASSUME NEW u \in Conns, WsGet(u) PROVE Watched'
  BY <1>15 DEF WsGet, WsTo
<1>16. ASSUME NEW u \in Conns, WsStart(u) PROVE Watched'
  BY <1>16 DEF WsStart, WsTo
<1>17. ASSUME NEW u \in Conns, WsNoop(u) PROVE Watched'
  BY <1>17 DEF WsNoop, WsTo
<1>18. ASSUME NEW u \in Conns, WsLock(u) PROVE Watched'
  BY <1>18 DEF WsLock, WsTo
<1>19. ASSUME NEW u \in Conns, WsHandshake(u) PROVE Watched'
  BY <1>19 DEF WsHandshake, WsTo
<1>20. ASSUME NEW u \in Conns, WsClearUpgrading(u) PROVE Watched'
  BY <1>20 DEF WsClearUpgrading, WsTo
<1>21. ASSUME NEW u \in Conns, WsSetTransport(u) PROVE Watched'
  BY <1>21 DEF WsSetTransport, WsTo
<1>22. ASSUME NEW u \in Conns, WsSpawn(u) PROVE Watched'
  BY <1>22 DEF WsSpawn, WsTo
<1>23. ASSUME NEW u \in Conns, WsCancelled(u) PROVE Watched'
  BY <1>23 DEF WsCancelled, WsTo, Interruptible
<1>24. ASSUME NEW u \in Conns, WsTimeout(u) PROVE Watched'
  BY <1>24 DEF WsTimeout, WsTo, Interruptible, CloseSession
<1>25. ASSUME NEW u \in Conns, WsFail(u) PROVE Watched'
  BY <1>25 DEF WsFail, WsTo
<1>26. ASSUME NEW u \in Conns, WsFailed(u) PROVE Watched'
  BY <1>26 DEF WsFailed, WsTo, CloseSession
<1>27. ASSUME NEW u \in Conns, WsOpened(u) PROVE Watched'
  BY <1>27 DEF WsOpened, WsTo
<1>28. ASSUME NEW u \in Conns, WsNotOpened(u) PROVE Watched'
  BY <1>28 DEF WsNotOpened, WsTo
<1>29. ASSUME NEW u \in Conns, ReadPong(u) PROVE Watched'
  BY <1>29 DEF ReadPong, PongReceived
<1>30. ASSUME NEW u \in Conns, ReadEnd(u) PROVE Watched'
  BY <1>30 DEF ReadEnd, WsTo, CloseSession
<1>31. ASSUME NEW u \in Conns, ReadCancelled(u) PROVE Watched'
  BY <1>31 DEF ReadCancelled, WsTo
<1>32. ASSUME NEW u \in Conns, WriterLock(u) PROVE Watched'
  BY <1>32 DEF WriterLock, WriterTo
<1>33. ASSUME NEW u \in Conns, WriterLocked(u) PROVE Watched'
  BY <1>33 DEF WriterLocked, WriterTo
<1>34. ASSUME NEW u \in Conns, WriterCancelled(u) PROVE Watched'
  BY <1>34 DEF WriterCancelled, WriterTo
<1>35. ASSUME NEW u \in Conns, WriterRecv(u) PROVE Watched'
  BY <1>35 DEF WriterRecv, WriterTo
<1>36. ASSUME NEW u \in Conns, WriterFeed(u) PROVE Watched'
  BY <1>36 DEF WriterFeed, WriterTo
<1>37. ASSUME NEW u \in Conns, WriterEnd(u) PROVE Watched'
  BY <1>37 DEF WriterEnd, WriterTo
<1>38. ASSUME NEW u \in Conns, PeerStalls(u) PROVE Watched'
  BY <1>38 DEF PeerStalls
<1>39. CASE HbStart
  BY <1>39 DEF HbStart, HbTo
<1>40. CASE HbCheck
  BY <1>40 DEF HbCheck, HbTo
<1>41. CASE HbPing
  BY <1>41 DEF HbPing, HbTo
<1>42. CASE HbFull
  BY <1>42 DEF HbFull, HbTo, SocketClose, CloseSession
<1>43. CASE HbPong
  BY <1>43 DEF HbPong, HbTo
<1>44. CASE HbTimeout
  BY <1>44 DEF HbTimeout, HbTo, SocketClose, CloseSession
<1>45. CASE HbCancelled
  BY <1>45 DEF HbCancelled, HbTo
<1>46. CASE CloserLock
  BY <1>46 DEF CloserLock
<1>47. CASE CloserClose
  BY <1>47 DEF CloserClose
<1>48. CASE Notify
  BY <1>48 DEF Notify
<1>49. CASE UNCHANGED vars
  BY <1>49, KeepAll DEF vars
<1> QED BY <1>1, <1>2, <1>3, <1>4, <1>5, <1>6, <1>7, <1>8, <1>9, <1>10, <1>11,
   <1>12, <1>13, <1>14, <1>15, <1>16, <1>17, <1>18, <1>19, <1>20, <1>21, <1>22,
   <1>23, <1>24, <1>25, <1>26, <1>27, <1>28, <1>29, <1>30, <1>31, <1>32, <1>33,
   <1>34, <1>35, <1>36, <1>37, <1>38, <1>39, <1>40, <1>41, <1>42, <1>43, <1>44,
   <1>45, <1>46, <1>47, <1>48, <1>49 DEF Next, ClientStep, HeartbeatStep,
   CloserStep, PollStep, WsStep, WriterStep

\* A session opened by polling, upgraded by websockets of its own, is watched
\* while it is open: by its heartbeat, or by the upgrade that pauses it.
THEOREM AlwaysWatched ==
  ASSUME Transports = {"polling"}, "stream" \notin Entries
  PROVE  Spec => []Watched
<1>1. Init => Watched
  BY DEF Init, Watched
<1>2. IInv /\ Watched /\ [Next]_vars => Watched'
  BY WatchedNext DEF IInv
<1> QED BY Invariance, <1>1, <1>2, PTL DEF Spec

-----------------------------------------------------------------------------
(* Refinement of EngineLife                                                *)

LifeStep == [Life!Next]_(<<Stage, sent>>) /\ (sent \in Nat)'

\* Only Emit, the first close_session and the closer are more than a stutter.
LEMMA RefineStep ==
  ASSUME Types, Ordered, sent \in Nat, [Next]_vars
  PROVE  LifeStep
<1> USE DEF LifeStep, Types, CloserStage, Ordered, Stage, Life!Next,
            Life!Send, Life!StartClosing, Life!CloseChannel, Life!OnDisconnect
<1>1. CASE Emit
  BY <1>1 DEF Emit, Room
<1>2. CASE ServerClose
  BY <1>2 DEF ServerClose, SocketClose, CloseSession
<1>3. ASSUME NEW p \in Polls, PollGet(p) PROVE LifeStep
  BY <1>3 DEF PollGet, PollTo
<1>4. ASSUME NEW p \in Polls, PollCheck(p) PROVE LifeStep
  BY <1>4 DEF PollCheck, PollTo
<1>5. ASSUME NEW p \in Polls, PollLock(p) PROVE LifeStep
  BY <1>5 DEF PollLock, PollTo
<1>6. ASSUME NEW p \in Polls, PollMultiple(p) PROVE LifeStep
  BY <1>6 DEF PollMultiple, PollTo, SocketClose, CloseSession
<1>7. ASSUME NEW p \in Polls, PollRespond(p) PROVE LifeStep
  BY <1>7 DEF PollRespond, PollTo
<1>8. ASSUME NEW p \in Polls, PollCancelled(p) PROVE LifeStep
  BY <1>8 DEF PollCancelled, PollTo
<1>9. ASSUME NEW p \in Polls, PollDropped(p) PROVE LifeStep
  BY <1>9 DEF PollDropped, PollTo
<1>10. CASE PostStart
  BY <1>10 DEF PostStart
<1>11. CASE PostPong
  BY <1>11 DEF PostPong, PongReceived
<1>12. CASE PostClose
  BY <1>12 DEF PostClose, CloseSession
<1>13. CASE PostMalformed
  BY <1>13 DEF PostMalformed, CloseSession
<1>14. CASE PostEnd
  BY <1>14 DEF PostEnd
<1>15. ASSUME NEW u \in Conns, WsGet(u) PROVE LifeStep
  BY <1>15 DEF WsGet, WsTo
<1>16. ASSUME NEW u \in Conns, WsStart(u) PROVE LifeStep
  BY <1>16 DEF WsStart, WsTo
<1>17. ASSUME NEW u \in Conns, WsNoop(u) PROVE LifeStep
  BY <1>17 DEF WsNoop, WsTo
<1>18. ASSUME NEW u \in Conns, WsLock(u) PROVE LifeStep
  BY <1>18 DEF WsLock, WsTo
<1>19. ASSUME NEW u \in Conns, WsHandshake(u) PROVE LifeStep
  BY <1>19 DEF WsHandshake, WsTo
<1>20. ASSUME NEW u \in Conns, WsClearUpgrading(u) PROVE LifeStep
  BY <1>20 DEF WsClearUpgrading, WsTo
<1>21. ASSUME NEW u \in Conns, WsSetTransport(u) PROVE LifeStep
  BY <1>21 DEF WsSetTransport, WsTo
<1>22. ASSUME NEW u \in Conns, WsSpawn(u) PROVE LifeStep
  BY <1>22 DEF WsSpawn, WsTo
<1>23. ASSUME NEW u \in Conns, WsCancelled(u) PROVE LifeStep
  BY <1>23 DEF WsCancelled, WsTo, Interruptible
<1>24. ASSUME NEW u \in Conns, WsTimeout(u) PROVE LifeStep
  BY <1>24 DEF WsTimeout, WsTo, Interruptible, CloseSession
<1>25. ASSUME NEW u \in Conns, WsFail(u) PROVE LifeStep
  BY <1>25 DEF WsFail, WsTo
<1>26. ASSUME NEW u \in Conns, WsFailed(u) PROVE LifeStep
  BY <1>26 DEF WsFailed, WsTo, CloseSession
<1>27. ASSUME NEW u \in Conns, WsOpened(u) PROVE LifeStep
  BY <1>27 DEF WsOpened, WsTo
<1>28. ASSUME NEW u \in Conns, WsNotOpened(u) PROVE LifeStep
  BY <1>28 DEF WsNotOpened, WsTo
<1>29. ASSUME NEW u \in Conns, ReadPong(u) PROVE LifeStep
  BY <1>29 DEF ReadPong, PongReceived
<1>30. ASSUME NEW u \in Conns, ReadEnd(u) PROVE LifeStep
  BY <1>30 DEF ReadEnd, WsTo, CloseSession
<1>31. ASSUME NEW u \in Conns, ReadCancelled(u) PROVE LifeStep
  BY <1>31 DEF ReadCancelled, WsTo
<1>32. ASSUME NEW u \in Conns, WriterLock(u) PROVE LifeStep
  BY <1>32 DEF WriterLock, WriterTo
<1>33. ASSUME NEW u \in Conns, WriterLocked(u) PROVE LifeStep
  BY <1>33 DEF WriterLocked, WriterTo
<1>34. ASSUME NEW u \in Conns, WriterCancelled(u) PROVE LifeStep
  BY <1>34 DEF WriterCancelled, WriterTo
<1>35. ASSUME NEW u \in Conns, WriterRecv(u) PROVE LifeStep
  BY <1>35 DEF WriterRecv, WriterTo
<1>36. ASSUME NEW u \in Conns, WriterFeed(u) PROVE LifeStep
  BY <1>36 DEF WriterFeed, WriterTo
<1>37. ASSUME NEW u \in Conns, WriterEnd(u) PROVE LifeStep
  BY <1>37 DEF WriterEnd, WriterTo
<1>38. ASSUME NEW u \in Conns, PeerStalls(u) PROVE LifeStep
  BY <1>38 DEF PeerStalls
<1>39. CASE HbStart
  BY <1>39 DEF HbStart, HbTo
<1>40. CASE HbCheck
  BY <1>40 DEF HbCheck, HbTo
<1>41. CASE HbPing
  BY <1>41 DEF HbPing, HbTo
<1>42. CASE HbFull
  BY <1>42 DEF HbFull, HbTo, SocketClose, CloseSession
<1>43. CASE HbPong
  BY <1>43 DEF HbPong, HbTo
<1>44. CASE HbTimeout
  BY <1>44 DEF HbTimeout, HbTo, SocketClose, CloseSession
<1>45. CASE HbCancelled
  BY <1>45 DEF HbCancelled, HbTo
<1>46. CASE CloserLock
  BY <1>46 DEF CloserLock
<1>47. CASE CloserClose
  BY <1>47 DEF CloserClose
<1>48. CASE Notify
  BY <1>48 DEF Notify
<1>49. CASE UNCHANGED vars
  BY <1>49, KeepAll DEF vars
<1> QED BY <1>1, <1>2, <1>3, <1>4, <1>5, <1>6, <1>7, <1>8, <1>9, <1>10, <1>11,
   <1>12, <1>13, <1>14, <1>15, <1>16, <1>17, <1>18, <1>19, <1>20, <1>21, <1>22,
   <1>23, <1>24, <1>25, <1>26, <1>27, <1>28, <1>29, <1>30, <1>31, <1>32, <1>33,
   <1>34, <1>35, <1>36, <1>37, <1>38, <1>39, <1>40, <1>41, <1>42, <1>43, <1>44,
   <1>45, <1>46, <1>47, <1>48, <1>49 DEF Next, ClientStep, HeartbeatStep,
   CloserStep, PollStep, WsStep, WriterStep

\* EngineSession implements EngineLife: it is closed once, stops taking
\* packets, then reports the disconnection, once, and takes none afterwards.
THEOREM Refinement == Spec => RefinesLife
<1>1. Init => Life!Init /\ sent \in Nat
  BY DEF Init, Life!Init, Stage
<1>2. IInv /\ sent \in Nat /\ [Next]_vars
        => [Life!Next]_(<<Stage, sent>>) /\ (sent \in Nat)'
  BY RefineStep DEF IInv, LifeStep
<1> QED BY Invariance, <1>1, <1>2, PTL DEF Spec, RefinesLife, Life!Spec

-----------------------------------------------------------------------------
(* Induction.  The induction theorems of the library take an operator as a  *)
(* parameter; over a set of numbers, induction follows from the pigeonhole  *)
(* principle: adding one maps 0..n into itself but for 0.                   *)

\* A set with 0 and all successors has all numbers.
LEMMA NatSetInduction ==
  ASSUME NEW S \in SUBSET Nat, 0 \in S, \A n \in S : n + 1 \in S
  PROVE  S = Nat
<1> SUFFICES ASSUME NEW n \in Nat, n \notin S PROVE FALSE
  OBVIOUS
<1> DEFINE B == {k \in 0..n : 0..k \subseteq S}
           f == [k \in B |-> k + 1]
<1>1. IsFiniteSet(B)
  <2>1. IsFiniteSet(0..n) /\ B \in SUBSET (0..n)
    BY FS_Interval
  <2> HIDE DEF B
  <2> QED BY <2>1, FS_Subset
<1>2. 0 \in B
  OBVIOUS
<1>3. f \in [B -> B \ {0}]
  <2>1. ASSUME NEW k \in B PROVE k + 1 \in B \ {0}
    <3>1. k \in 0..n /\ k \in S /\ k # n
      OBVIOUS
    <3>2. 0..(k+1) = (0..k) \cup {k+1}
      OBVIOUS
    <3> QED BY <3>1, <3>2
  <2> HIDE DEF B
  <2> QED BY <2>1
<1>4. /\ Cardinality(B \ {0}) = Cardinality(B) - 1 /\ IsFiniteSet(B \ {0})
      /\ Cardinality(B) \in Nat
  BY <1>1, <1>2, FS_RemoveElement, FS_CardinalityType
<1>5. \A x, y \in B : f[x] = f[y] => x = y
  OBVIOUS
<1> HIDE DEF B, f
<1> QED BY <1>1, <1>3, <1>4, <1>5, FS_PigeonHole

\* What holds of the empty sequence and survives an Append holds of every
\* sequence.
LEMMA SeqSetInduction ==
  ASSUME NEW S, NEW P \in SUBSET Seq(S), <<>> \in P,
         \A s \in P, x \in S : Append(s, x) \in P
  PROVE  P = Seq(S)
<1> DEFINE N == {k \in Nat : \A s \in Seq(S) : Len(s) = k => s \in P}
<1>1. 0 \in N
  OBVIOUS
<1>2. ASSUME NEW k \in N PROVE k + 1 \in N
  <2> SUFFICES ASSUME NEW s \in Seq(S), Len(s) = k + 1 PROVE s \in P
    OBVIOUS
  <2>1. s # <<>>
    OBVIOUS
  <2>2. PICK t \in Seq(S), x \in S : s = Append(t, x)
    BY <2>1, SequenceEmptyOrAppend
  <2>3. Len(t) = k
    BY <2>2, AppendProperties
  <2>4. t \in P
    BY <2>3
  <2> QED BY <2>2, <2>4
<1>3. N = Nat
  <2> HIDE DEF N
  <2>1. N \in SUBSET Nat
    BY DEF N
  <2> QED BY <1>1, <1>2, <2>1, NatSetInduction
<1>4. ASSUME NEW s \in Seq(S) PROVE s \in P
  <2>1. Len(s) \in N
    BY <1>3
  <2> QED BY <2>1
<1> QED BY <1>4

-----------------------------------------------------------------------------
(* What Only returns                                                       *)

\* f[n] is what is taken of the first n elements of s.
Taken(s, T, f, k) ==
  /\ f[0] = <<>>
  /\ \A n \in 1..k : f[n] = IF s[n] \in T THEN Append(f[n - 1], s[n])
                            ELSE f[n - 1]

\* The recursion of Only has a solution, and it is what Only returns.
LEMMA OnlyTaken ==
  ASSUME NEW S, NEW s \in Seq(S), NEW T
  PROVE  \E f \in [0..Len(s) -> Seq(S \cap T)] :
           Taken(s, T, f, Len(s)) /\ Only(s, T) = f[Len(s)]
<1> DEFINE N == {k \in Nat : k <= Len(s) =>
                   \E f \in [0..k -> Seq(S \cap T)] : Taken(s, T, f, k)}
<1>1. 0 \in N
  <2>1. [n \in 0..0 |-> <<>>] \in [0..0 -> Seq(S \cap T)]
    OBVIOUS
  <2>2. Taken(s, T, [n \in 0..0 |-> <<>>], 0)
    BY DEF Taken
  <2> QED BY <2>1, <2>2
<1>2. ASSUME NEW k \in N PROVE k + 1 \in N
  <2> SUFFICES ASSUME k + 1 <= Len(s)
               PROVE  \E f \in [0..(k + 1) -> Seq(S \cap T)] :
                        Taken(s, T, f, k + 1)
    OBVIOUS
  <2>1. PICK f \in [0..k -> Seq(S \cap T)] : Taken(s, T, f, k)
    OBVIOUS
  <2> DEFINE a == IF s[k + 1] \in T THEN Append(f[k], s[k + 1]) ELSE f[k]
             g == [n \in 0..(k + 1) |-> IF n <= k THEN f[n] ELSE a]
  <2>2. a \in Seq(S \cap T)
    <3>1. s[k + 1] \in S
      OBVIOUS
    <3>2. f[k] \in Seq(S \cap T)
      OBVIOUS
    <3> QED BY <3>1, <3>2
  <2>3. g \in [0..(k + 1) -> Seq(S \cap T)]
    <3> HIDE DEF a
    <3> QED BY <2>2
  <2>4. Taken(s, T, g, k + 1)
    <3>1. /\ \A n \in 0..k : g[n] = f[n]
          /\ g[k + 1] = a
      OBVIOUS
    <3>2. g[0] = <<>>
      BY <2>1, <3>1 DEF Taken
    <3>3. ASSUME NEW n \in 1..(k + 1)
          PROVE  g[n] = IF s[n] \in T THEN Append(g[n - 1], s[n])
                        ELSE g[n - 1]
      <4> HIDE DEF g
      <4>1. CASE n = k + 1
        BY <3>1, <4>1
      <4>2. CASE n \in 1..k
        <5> HIDE DEF a
        <5>1. n \in 0..k /\ n - 1 \in 0..k
          BY <4>2
        <5> QED BY <2>1, <3>1, <4>2, <5>1 DEF Taken
      <4> QED BY <4>1, <4>2
    <3> QED BY <3>2, <3>3 DEF Taken
  <2> QED BY <2>3, <2>4
<1>3. PICK f \in [0..Len(s) -> Seq(S \cap T)] : Taken(s, T, f, Len(s))
  <2>1. N = Nat
    <3> HIDE DEF N
    <3>1. N \in SUBSET Nat
      BY DEF N
    <3> QED BY <1>1, <1>2, <3>1, NatSetInduction
  <2> QED BY <2>1
<1> DEFINE R(g) == [n \in 0..Len(s) |->
                      IF n = 0 THEN <<>>
                      ELSE IF s[n] \in T THEN Append(g[n - 1], s[n])
                           ELSE g[n - 1]]
           h == CHOOSE g : g = R(g)
<1>4. f = R(f)
  <2>1. ASSUME NEW n \in 0..Len(s) PROVE f[n] = R(f)[n]
    <3>1. CASE n = 0
      BY <1>3, <3>1 DEF Taken
    <3>2. CASE n \in 1..Len(s)
      BY <1>3, <3>2 DEF Taken
    <3> QED BY <3>1, <3>2
  <2> QED BY <2>1
<1>5. h = R(h)
  <2> HIDE DEF R
  <2> QED BY <1>4
<1>6. Only(s, T) = h[Len(s)]
  BY Zenon DEF Only
<1> HIDE DEF h
<1>7. ASSUME NEW n \in 0..Len(s) PROVE h[n] = f[n]
  <2> DEFINE E == {k \in Nat : k <= Len(s) => h[k] = f[k]}
  <2>1. 0 \in E
    BY <1>4, <1>5
  <2>2. ASSUME NEW k \in E PROVE k + 1 \in E
    <3> SUFFICES ASSUME k + 1 <= Len(s) PROVE h[k + 1] = f[k + 1]
      OBVIOUS
    <3>1. h[k] = f[k] /\ k + 1 \in 0..Len(s) /\ k + 1 # 0 /\ (k + 1) - 1 = k
      OBVIOUS
    <3>2. R(h)[k + 1] = R(f)[k + 1]
      BY <3>1
    <3> QED BY <1>4, <1>5, <3>2
  <2>3. E = Nat
    <3> HIDE DEF E
    <3>1. E \in SUBSET Nat
      BY DEF E
    <3> QED BY <2>1, <2>2, <3>1, NatSetInduction
  <2> QED BY <2>3
<1> QED BY <1>3, <1>6, <1>7

\* Only returns elements of the sequence that are in T.
LEMMA OnlyType ==
  ASSUME NEW S, NEW s \in Seq(S), NEW T
  PROVE  Only(s, T) \in Seq(S \cap T) /\ Only(s, T) \in Seq(S)
<1>1. Only(s, T) \in Seq(S \cap T)
  BY OnlyTaken
<1> QED BY <1>1

\* One element after the other.
LEMMA OnlyEmpty == ASSUME NEW T PROVE Only(<<>>, T) = <<>>
<1>1. <<>> \in Seq({}) /\ Len(<<>>) = 0
  OBVIOUS
<1>2. \E f : Taken(<<>>, T, f, Len(<<>>)) /\ Only(<<>>, T) = f[Len(<<>>)]
  BY <1>1, OnlyTaken
<1> QED BY <1>1, <1>2 DEF Taken

LEMMA OnlyAppend ==
  ASSUME NEW S, NEW s \in Seq(S), NEW x \in S, NEW T
  PROVE  Only(Append(s, x), T) = IF x \in T THEN Append(Only(s, T), x)
                                 ELSE Only(s, T)
<1> DEFINE r == Append(s, x)
           n == Len(s)
<1>1. /\ r \in Seq(S) /\ Len(r) = n + 1 /\ n \in Nat
      /\ \A k \in 1..n : r[k] = s[k]
      /\ r[n + 1] = x
  OBVIOUS
<1>2. PICK f \in [0..n -> Seq(S \cap T)] :
        Taken(s, T, f, n) /\ Only(s, T) = f[n]
  BY OnlyTaken
<1> HIDE DEF r
<1>3. PICK g \in [0..(n + 1) -> Seq(S \cap T)] :
        Taken(r, T, g, n + 1) /\ Only(r, T) = g[n + 1]
  <2>1. \E g \in [0..Len(r) -> Seq(S \cap T)] :
           Taken(r, T, g, Len(r)) /\ Only(r, T) = g[Len(r)]
    BY <1>1, OnlyTaken
  <2> QED BY <1>1, <2>1
<1> HIDE DEF n
<1>4. g[n] = f[n]
  <2> DEFINE E == {k \in Nat : k <= n => g[k] = f[k]}
  <2>1. 0 \in E
    BY <1>2, <1>3 DEF Taken
  <2>2. ASSUME NEW k \in E PROVE k + 1 \in E
    <3> SUFFICES ASSUME k + 1 <= n PROVE g[k + 1] = f[k + 1]
      OBVIOUS
    <3>a. k \in Nat /\ k <= n /\ g[k] = f[k]
      BY <1>1
    <3>1. /\ g[k] = f[k] /\ (k + 1) - 1 = k
          /\ k + 1 \in 1..n /\ k + 1 \in 1..(n + 1)
      <4> HIDE DEF E
      <4> QED BY <1>1, <3>a
    <3>2. r[k + 1] = s[k + 1]
      BY <1>1, <3>1
    <3> QED BY <1>2, <1>3, <3>1, <3>2 DEF Taken
  <2>3. E = Nat
    <3> HIDE DEF E
    <3>1. E \in SUBSET Nat
      BY DEF E
    <3> QED BY <2>1, <2>2, <3>1, NatSetInduction
  <2>4. n \in E
    BY <1>1, <2>3
  <2> QED BY <2>4
<1>5. g[n + 1] = IF r[n + 1] \in T THEN Append(g[n], r[n + 1]) ELSE g[n]
  <2>1. n + 1 \in 1..(n + 1) /\ (n + 1) - 1 = n
    BY <1>1
  <2> QED BY <1>3, <2>1 DEF Taken
<1> QED BY <1>1, <1>2, <1>3, <1>4, <1>5 DEF r

\* Only takes from two parts what it takes from each.
LEMMA OnlyConcat ==
  ASSUME NEW S, NEW s \in Seq(S), NEW t \in Seq(S), NEW T
  PROVE  Only(s \o t, T) = Only(s, T) \o Only(t, T)
<1> DEFINE P == {u \in Seq(S) : Only(s \o u, T) = Only(s, T) \o Only(u, T)}
<1>1. <<>> \in P
  <2>1. s \o <<>> = s
    BY ConcatEmptySeq
  <2>2. Only(s, T) \in Seq(S)
    BY OnlyType
  <2>3. Only(s, T) \o <<>> = Only(s, T)
    BY <2>2, ConcatEmptySeq
  <2>4. <<>> \in Seq(S)
    OBVIOUS
  <2> QED BY <2>1, <2>3, <2>4, OnlyEmpty
<1>2. ASSUME NEW u \in P, NEW x \in S PROVE Append(u, x) \in P
  <2>1. s \o Append(u, x) = Append(s \o u, x) /\ s \o u \in Seq(S)
    OBVIOUS
  <2>2. Only(Append(u, x), T) = IF x \in T THEN Append(Only(u, T), x)
                                ELSE Only(u, T)
    BY OnlyAppend
  <2>3. Only(Append(s \o u, x), T) = IF x \in T THEN Append(Only(s \o u, T), x)
                                     ELSE Only(s \o u, T)
    <3> DEFINE v == s \o u
    <3>1. v \in Seq(S)
      BY <2>1
    <3> HIDE DEF v
    <3>2. Only(Append(v, x), T) = IF x \in T THEN Append(Only(v, T), x)
                                  ELSE Only(v, T)
      BY <3>1, OnlyAppend
    <3> QED BY <3>2 DEF v
  <2>4. Only(s, T) \in Seq(S) /\ Only(u, T) \in Seq(S)
    BY OnlyType
  <2>5. Append(Only(s, T) \o Only(u, T), x) = Only(s, T) \o Append(Only(u, T), x)
    <3>1. ASSUME NEW a \in Seq(S), NEW b \in Seq(S)
          PROVE  Append(a \o b, x) = a \o Append(b, x)
      <4>1. <<x>> \in Seq(S) /\ a \o b \in Seq(S)
        BY ConcatProperties
      <4>2. Append(a \o b, x) = (a \o b) \o <<x>>
        BY <4>1, AppendIsConcat
      <4>3. Append(b, x) = b \o <<x>>
        BY AppendIsConcat
      <4>4. (a \o b) \o <<x>> = a \o (b \o <<x>>)
        BY <4>1, ConcatAssociative
      <4> QED BY <4>2, <4>3, <4>4
    <3> QED BY <2>4, <3>1, Zenon
  <2>6. Append(u, x) \in Seq(S) /\ Only(s \o u, T) = Only(s, T) \o Only(u, T)
    OBVIOUS
  <2>7. Only(s \o Append(u, x), T) = Only(s, T) \o Only(Append(u, x), T)
    <3>1. CASE x \in T
      BY <2>1, <2>2, <2>3, <2>5, <2>6, <3>1
    <3>2. CASE x \notin T
      BY <2>1, <2>2, <2>3, <2>6, <3>2
    <3> QED BY <3>1, <3>2
  <2> QED BY <2>6, <2>7
<1>3. P = Seq(S)
  <2> HIDE DEF P
  <2>1. P \in SUBSET Seq(S)
    BY DEF P
  <2> QED BY <1>1, <1>2, <2>1, SeqSetInduction
<1> QED BY <1>3

\* Taking twice.
LEMMA OnlyOnly ==
  ASSUME NEW S, NEW s \in Seq(S), NEW T, NEW U
  PROVE  Only(Only(s, T), U) = Only(s, T \cap U)
<1> DEFINE P == {u \in Seq(S) : Only(Only(u, T), U) = Only(u, T \cap U)}
<1>1. <<>> \in P
  BY OnlyEmpty
<1>2. ASSUME NEW u \in P, NEW x \in S PROVE Append(u, x) \in P
  <2>1. Only(Append(u, x), T) = IF x \in T THEN Append(Only(u, T), x)
                                ELSE Only(u, T)
    BY OnlyAppend
  <2>2. Only(Append(u, x), T \cap U)
          = IF x \in T \cap U THEN Append(Only(u, T \cap U), x)
            ELSE Only(u, T \cap U)
    BY OnlyAppend
  <2>3. Only(u, T) \in Seq(S)
    BY OnlyType
  <2>4. Only(Append(Only(u, T), x), U)
          = IF x \in U THEN Append(Only(Only(u, T), U), x)
            ELSE Only(Only(u, T), U)
    BY <2>3, OnlyAppend
  <2>5. Append(u, x) \in Seq(S) /\ Only(Only(u, T), U) = Only(u, T \cap U)
    OBVIOUS
  <2>6. Only(Only(Append(u, x), T), U) = Only(Append(u, x), T \cap U)
    <3>1. CASE x \in T
      <4>1. (x \in U) <=> (x \in T \cap U)
        BY <3>1
      <4>2. Only(Append(u, x), T) = Append(Only(u, T), x)
        BY <2>1, <3>1
      <4> QED BY <2>2, <2>4, <2>5, <4>1, <4>2
    <3>2. CASE x \notin T
      BY <2>1, <2>2, <2>5, <3>2
    <3> QED BY <3>1, <3>2
  <2> QED BY <2>5, <2>6
<1>3. P = Seq(S)
  <2> HIDE DEF P
  <2>1. P \in SUBSET Seq(S)
    BY DEF P
  <2> QED BY <1>1, <1>2, <2>1, SeqSetInduction
<1> QED BY <1>3

-----------------------------------------------------------------------------
(* Messages are delivered in order                                         *)

\* The types of the packets on their way.
DataTypes ==
  /\ chan \in Seq(Packet) /\ peeked \in Packet \cup {None}
  /\ got \in Seq(Message) /\ sent \in 0..MaxMsg

\* What the writers leave aside: while one reads the channel the peeked packet
\* is one of those that may be overtaken.
WriterAside ==
  \A u \in Conns : writer[u] \in {"writing", "feeding"} => peeked \in aside \cup {None}

FifoInv == DataTypes /\ WriterAside /\ Fifo

\* What ParametersOK says of packets.
LEMMA PacketTypes ==
  /\ Message \subseteq Packet /\ Packet \cap Message = Message
  /\ Seq(Message) \subseteq Seq(Packet)
  /\ MaxMsg \in Nat
  /\ None \notin Packet
  /\ Ping \in Packet \ Message /\ Noop \in Packet \ Message
  /\ Close \in Packet \ Message
<1>1. /\ Message \subseteq Packet /\ MaxMsg \in Nat /\ None \notin Packet
      /\ Ping \in Packet \ Message /\ Noop \in Packet \ Message
      /\ Close \in Packet \ Message
  BY ParametersOK DEF Message, Packet
<1>2. ASSUME NEW s \in Seq(Message) PROVE s \in Seq(Packet)
  BY <1>1
<1> QED BY <1>1, <1>2

\* What Messages does to sequences of packets.
LEMMA MessagesOf ==
  ASSUME NEW s \in Seq(Packet)
  PROVE  /\ Messages(s) \in Seq(Message) /\ Messages(s) \in Seq(Packet)
         /\ Messages(Messages(s)) = Messages(s)
<1>1. Messages(s) \in Seq(Packet \cap Message)
  BY OnlyType DEF Messages
<1>2. Only(Only(s, Message), Message) = Only(s, Message \cap Message)
  BY OnlyOnly
<1>3. Message \cap Message = Message
  OBVIOUS
<1> QED BY <1>1, <1>2, <1>3, PacketTypes DEF Messages

\* Messages of two parts, and of one more packet.
LEMMA MessagesConcat ==
  ASSUME NEW s \in Seq(Packet), NEW t \in Seq(Packet)
  PROVE  Messages(s \o t) = Messages(s) \o Messages(t)
  BY OnlyConcat DEF Messages

LEMMA MessagesAppend ==
  ASSUME NEW s \in Seq(Packet), NEW x \in Packet
  PROVE  Messages(Append(s, x)) = IF x \in Message THEN Append(Messages(s), x)
                                  ELSE Messages(s)
  BY OnlyAppend DEF Messages

\* Appending to what is pending.
LEMMA PendingAppend ==
  ASSUME DataTypes, NEW x \in Packet, chan' = Append(chan, x),
         UNCHANGED <<peeked, got>>
  PROVE  /\ got \o Pending \in Seq(Packet)
         /\ chan' \in Seq(Packet)
         /\ (got \o Pending)' = Append(got \o Pending, x)
<1>1. got \in Seq(Packet) /\ chan \in Seq(Packet) /\ <<x>> \in Seq(Packet)
  BY PacketTypes DEF DataTypes
<1>2. chan' = chan \o <<x>> /\ chan' \in Seq(Packet)
  BY <1>1, AppendIsConcat
<1>3. Pending \in Seq(Packet) /\ Pending' = Pending \o <<x>>
  <2>1. CASE peeked = None
    <3>1. Pending = <<>> \o chan /\ Pending' = <<>> \o (chan \o <<x>>)
      BY <1>2, <2>1 DEF Pending
    <3>2. <<>> \o chan = chan
      BY <1>1, ConcatEmptySeq
    <3>3. <<>> \o (chan \o <<x>>) = chan \o <<x>>
      BY <1>2, ConcatEmptySeq
    <3> QED BY <1>1, <3>1, <3>2, <3>3
  <2>2. CASE peeked # None
    <3>1. <<peeked>> \in Seq(Packet)
      BY <2>2 DEF DataTypes
    <3>2. Pending = <<peeked>> \o chan /\ Pending' = <<peeked>> \o (chan \o <<x>>)
      BY <1>2, <2>2 DEF Pending
    <3>3. <<peeked>> \o (chan \o <<x>>) = (<<peeked>> \o chan) \o <<x>>
      BY <1>1, <3>1, ConcatAssociative
    <3>4. <<peeked>> \o chan \in Seq(Packet)
      BY <1>1, <3>1, ConcatProperties
    <3> QED BY <3>2, <3>3, <3>4
  <2> QED BY <2>1, <2>2
<1> DEFINE p == Pending
           h == got \o p
<1>4. h \in Seq(Packet)
  BY <1>1, <1>3, ConcatProperties
<1>5. got \o (p \o <<x>>) = h \o <<x>>
  <2> HIDE DEF p
  <2>1. p \in Seq(Packet)
    BY <1>3 DEF p
  <2> QED BY <1>1, <2>1, ConcatAssociative
<1>6. h \o <<x>> = Append(h, x)
  <2> HIDE DEF h
  <2> QED BY <1>4, AppendIsConcat
<1> QED BY <1>2, <1>3, <1>4, <1>5, <1>6

\* What Fifo says of the packets h given or pending, in order, when n messages
\* were accepted and the packets a may be overtaken.
InOrder(h, n, a) ==
  /\ Len(Messages(h)) = n
  /\ Only(Messages(h), Message \ a) = Only([m \in 1..n |-> m], Message \ a)

\* Fifo is InOrder of the given and the pending.
LEMMA FifoInOrder ==
  /\ Fifo <=> InOrder(got \o Pending, sent, aside)
  /\ Fifo' <=> InOrder((got \o Pending)', sent', aside')
  BY DEF Fifo, InOrder

\* The next message comes last on both sides.
LEMMA InOrderEmit ==
  ASSUME NEW h \in Seq(Packet), NEW n \in 0..MaxMsg, n + 1 \in Message, NEW a,
         InOrder(h, n, a)
  PROVE  InOrder(Append(h, n + 1), n + 1, a)
<1> DEFINE e == [i \in 1..n |-> i]
           K == Message \ a
<1>1. Messages(h) \in Seq(Message) /\ n + 1 \in Packet
  BY MessagesOf, PacketTypes
<1>2. Messages(Append(h, n + 1)) = Append(Messages(h), n + 1)
  BY <1>1, MessagesAppend
<1>3. /\ e \in Seq(Message)
      /\ [i \in 1..(n + 1) |-> i] = Append(e, n + 1)
  <2>1. n \in Nat /\ 1..n \subseteq Message
    BY PacketTypes DEF Message
  <2>2. e \in Seq(Message) /\ Len(e) = n
    BY <2>1
  <2>3. [i \in 1..(n + 1) |-> i] = Append(e, n + 1)
    BY <2>1
  <2> QED BY <2>2, <2>3
<1>4. ASSUME NEW q \in Seq(Message), NEW x \in Message
      PROVE  Only(Append(q, x), K) = IF x \in K THEN Append(Only(q, K), x)
                                     ELSE Only(q, K)
  <2> HIDE DEF K
  <2> QED BY OnlyAppend
<1>5. Only(Messages(h), K) = Only(e, K) /\ Len(Messages(h)) = n
  BY DEF InOrder
<1>6. Only(Append(Messages(h), n + 1), K) = Only(Append(e, n + 1), K)
  <2> HIDE DEF e, K
  <2>1. Only(Append(Messages(h), n + 1), K)
          = IF n + 1 \in K THEN Append(Only(Messages(h), K), n + 1)
            ELSE Only(Messages(h), K)
    BY <1>1, <1>4
  <2>2. Only(Append(e, n + 1), K)
          = IF n + 1 \in K THEN Append(Only(e, K), n + 1) ELSE Only(e, K)
    BY <1>3, <1>4
  <2> QED BY <1>5, <2>1, <2>2
<1>7. Len(Append(Messages(h), n + 1)) = n + 1
  BY <1>1, <1>5
<1> QED BY <1>2, <1>3, <1>6, <1>7 DEF InOrder

\* More packets may be overtaken.
LEMMA InOrderAside ==
  ASSUME NEW h \in Seq(Packet), NEW n \in 0..MaxMsg, NEW a, NEW b, a \subseteq b,
         InOrder(h, n, a)
  PROVE  InOrder(h, n, b)
<1> DEFINE e == [i \in 1..n |-> i]
           m == Messages(h)
<1>1. m \in Seq(Message)
  BY MessagesOf
<1>2. e \in Seq(Message)
  BY PacketTypes DEF Message
<1>3. Only(m, Message \ a) = Only(e, Message \ a)
  BY DEF InOrder
<1>4. (Message \ a) \cap (Message \ b) = Message \ b
  OBVIOUS
<1>5. ASSUME NEW q \in Seq(Message)
      PROVE  Only(Only(q, Message \ a), Message \ b) = Only(q, Message \ b)
  BY <1>4, OnlyOnly
<1>6. Only(m, Message \ b) = Only(e, Message \ b)
  <2> HIDE DEF m, e
  <2> QED BY <1>1, <1>2, <1>3, <1>5
<1> QED BY <1>6 DEF InOrder

\* A packet that may be overtaken is.
LEMMA InOrderOvertaken ==
  ASSUME NEW g \in Seq(Packet), NEW x \in Packet, NEW c \in Seq(Packet),
         NEW n \in 0..MaxMsg, NEW a, x \in a,
         InOrder(g \o (<<x>> \o c), n, a)
  PROVE  InOrder((g \o c) \o <<x>>, n, a)
<1> DEFINE K == Message \ a
           X == <<x>>
<1>1. X \in Seq(Packet) /\ X \o c \in Seq(Packet) /\ g \o c \in Seq(Packet)
  BY ConcatProperties
<1>2. g \o (X \o c) \in Seq(Packet) /\ (g \o c) \o X \in Seq(Packet)
  BY <1>1, ConcatProperties
<1> HIDE DEF X
<1>c. ASSUME NEW s \in Seq(Packet), NEW t \in Seq(Packet), NEW T
      PROVE  Only(s \o t, T) = Only(s, T) \o Only(t, T)
  <2> HIDE DEF K
  <2> QED BY OnlyConcat
<1>3. ASSUME NEW T
      PROVE  /\ Only(g \o (X \o c), T) = Only(g, T) \o (Only(X, T) \o Only(c, T))
             /\ Only((g \o c) \o X, T) = (Only(g, T) \o Only(c, T)) \o Only(X, T)
  <2>1. Only(g \o (X \o c), T) = Only(g, T) \o Only(X \o c, T)
    BY <1>1, <1>c
  <2>2. Only(X \o c, T) = Only(X, T) \o Only(c, T)
    BY <1>1, <1>c
  <2>3. Only((g \o c) \o X, T) = Only(g \o c, T) \o Only(X, T)
    <3> DEFINE gc == g \o c
    <3>1. gc \in Seq(Packet)
      BY <1>1
    <3> HIDE DEF gc
    <3>2. Only(gc \o X, T) = Only(gc, T) \o Only(X, T)
      BY <1>1, <1>c, <3>1
    <3> QED BY <3>2 DEF gc
  <2>4. Only(g \o c, T) = Only(g, T) \o Only(c, T)
    BY <1>c
  <2> QED BY <2>1, <2>2, <2>3, <2>4
<1>4. Len(Messages((g \o c) \o X)) = Len(Messages(g \o (X \o c)))
  <2> DEFINE G == Only(g, Message)
             C == Only(c, Message)
             Y == Only(X, Message)
  <2>1. G \in Seq(Packet) /\ C \in Seq(Packet) /\ Y \in Seq(Packet)
    BY <1>1, OnlyType
  <2>2. Len(G \o (Y \o C)) = Len((G \o C) \o Y)
    <3> HIDE DEF G, C, Y
    <3>1. /\ Y \o C \in Seq(Packet) /\ Len(Y \o C) = Len(Y) + Len(C)
          /\ G \o C \in Seq(Packet) /\ Len(G \o C) = Len(G) + Len(C)
      BY <2>1, ConcatProperties
    <3>2. /\ Len(G \o (Y \o C)) = Len(G) + Len(Y \o C)
          /\ Len((G \o C) \o Y) = Len(G \o C) + Len(Y)
      BY <2>1, <3>1, ConcatProperties
    <3>3. Len(G) \in Nat /\ Len(C) \in Nat /\ Len(Y) \in Nat
      BY <2>1, LenProperties
    <3> QED BY <3>1, <3>2, <3>3
  <2> QED BY <1>3, <2>2 DEF Messages
<1>5. Only(X, K) = <<>>
  <2>1. <<>> \in Seq(Packet) /\ Append(<<>>, x) = X
    BY DEF X
  <2>2. Only(Append(<<>>, x), K) = Only(<<>>, K)
    BY <2>1, OnlyAppend
  <2> QED BY <2>1, <2>2, OnlyEmpty
<1>6. Only((g \o c) \o X, K) = Only(g \o (X \o c), K)
  <2> HIDE DEF K
  <2> DEFINE G == Only(g, K)
             C == Only(c, K)
  <2>1. G \in Seq(Packet) /\ C \in Seq(Packet)
    BY OnlyType
  <2>2. G \o (<<>> \o C) = (G \o C) \o <<>>
    <3> HIDE DEF G, C
    <3>1. G \o C \in Seq(Packet)
      BY <2>1, ConcatProperties
    <3>2. <<>> \o C = C /\ (G \o C) \o <<>> = G \o C
      BY <2>1, <3>1, ConcatEmptySeq
    <3> QED BY <3>2
  <2> QED BY <1>3, <1>5, <2>2
<1>7. ASSUME NEW q \in Seq(Packet) PROVE Only(Messages(q), K) = Only(q, K)
  <2>1. Message \cap K = K
    OBVIOUS
  <2> QED BY <2>1, OnlyOnly DEF Messages
<1>8. Only(Messages((g \o c) \o X), K) = Only(Messages(g \o (X \o c)), K)
  BY <1>2, <1>6, <1>7
<1> QED BY <1>4, <1>8 DEF InOrder, X

\* The parts of what is given and pending can be regrouped.
LEMMA PacketsAssociative ==
  ASSUME NEW q \in Seq(Packet), NEW r \in Seq(Packet), NEW t \in Seq(Packet)
  PROVE  q \o (r \o t) = (q \o r) \o t
  BY ConcatAssociative

\* Packets given to the client leave what is pending.
LEMMA InOrderGiven ==
  ASSUME NEW g \in Seq(Packet), NEW c \in Seq(Packet), NEW d \in Seq(Packet),
         NEW n, NEW a, InOrder(g \o (c \o d), n, a)
  PROVE  InOrder((g \o Messages(c)) \o d, n, a)
<1> DEFINE mc == Messages(c)
<1>1. mc \in Seq(Packet) /\ Messages(mc) = mc
  BY MessagesOf
<1> HIDE DEF mc
<1>2. g \o mc \in Seq(Packet) /\ c \o d \in Seq(Packet)
  BY <1>1, ConcatProperties
<1>3. ASSUME NEW s \in Seq(Packet), NEW t \in Seq(Packet)
      PROVE  /\ Messages(s \o t) = Messages(s) \o Messages(t)
             /\ Messages(s) \in Seq(Packet)
  BY MessagesConcat, MessagesOf
<1>4. Messages((g \o mc) \o d) = (Messages(g) \o mc) \o Messages(d)
  <2> DEFINE gm == g \o mc
  <2>1. gm \in Seq(Packet)
    BY <1>2
  <2>2. Messages(g \o mc) = Messages(g) \o Messages(mc)
    BY <1>1, <1>3
  <2> HIDE DEF gm
  <2>3. Messages(gm \o d) = Messages(gm) \o Messages(d)
    BY <1>3, <2>1
  <2> QED BY <1>1, <2>2, <2>3 DEF gm
<1>5. Messages(g \o (c \o d)) = Messages(g) \o (mc \o Messages(d))
  <2> DEFINE cd == c \o d
  <2>1. cd \in Seq(Packet)
    BY <1>2
  <2>2. Messages(cd) = mc \o Messages(d)
    BY <1>3 DEF mc
  <2> HIDE DEF cd
  <2>3. Messages(g \o cd) = Messages(g) \o Messages(cd)
    BY <1>3, <2>1
  <2> QED BY <2>2, <2>3 DEF cd
<1>6. Messages(g) \o (mc \o Messages(d)) = (Messages(g) \o mc) \o Messages(d)
  <2> DEFINE mg == Messages(g)
             md == Messages(d)
  <2>1. mg \in Seq(Packet) /\ mc \in Seq(Packet) /\ md \in Seq(Packet)
    BY <1>1, <1>3
  <2> HIDE DEF mg, md
  <2>2. mg \o (mc \o md) = (mg \o mc) \o md
    BY <2>1, PacketsAssociative
  <2> QED BY <2>2 DEF mg, md
<1>7. Messages((g \o mc) \o d) = Messages(g \o (c \o d))
  BY <1>4, <1>5, <1>6
<1> QED BY <1>7 DEF InOrder, mc

\* The steps that touch the channel: all packets are packets.
LEMMA PendingSeq ==
  ASSUME DataTypes
  PROVE  Pending \in Seq(Packet) /\ got \in Seq(Packet)
<1>1. CASE peeked = None
  <2>1. Pending = <<>> \o chan /\ chan \in Seq(Packet)
    BY <1>1 DEF Pending, DataTypes
  <2>2. Pending = chan
    BY <2>1, ConcatEmptySeq
  <2> QED BY <2>1, <2>2, PacketTypes DEF DataTypes
<1>2. CASE peeked # None
  <2>1. Pending = <<peeked>> \o chan /\ chan \in Seq(Packet) /\ peeked \in Packet
    BY <1>2 DEF Pending, DataTypes
  <2>2. <<peeked>> \in Seq(Packet)
    BY <2>1
  <2>3. Pending \in Seq(Packet)
    BY <2>1, <2>2, ConcatProperties
  <2> QED BY <2>3, PacketTypes DEF DataTypes
<1> QED BY <1>1, <1>2

\* Emit adds the next message.
LEMMA EmitFifo ==
  ASSUME DataTypes, Fifo, Emit
  PROVE  DataTypes' /\ Fifo'
<1>1. /\ chan' = Append(chan, sent + 1) /\ sent' = sent + 1
      /\ UNCHANGED <<peeked, got, aside>>
      /\ sent + 1 \in Message /\ sent \in 0..MaxMsg /\ sent < MaxMsg
  BY PacketTypes DEF Emit, DataTypes, Message
<1>2. got \o Pending \in Seq(Packet) /\ chan' \in Seq(Packet)
      /\ (got \o Pending)' = Append(got \o Pending, sent + 1)
  BY <1>1, PendingAppend, PacketTypes
<1>3. DataTypes'
  BY <1>1, <1>2, PacketTypes DEF DataTypes
<1> DEFINE h == got \o Pending
<1>4. h \in Seq(Packet) /\ h' = Append(h, sent + 1) /\ InOrder(h, sent, aside)
  BY <1>2, FifoInOrder
<1>5. InOrder(h', sent', aside')
  <2> HIDE DEF h
  <2>1. InOrder(Append(h, sent + 1), sent + 1, aside)
    BY <1>1, <1>4, InOrderEmit
  <2> QED BY <1>1, <1>4, <2>1
<1> QED BY <1>3, <1>5, FifoInOrder

\* A ping, a Noop or a close packet is nobody's message.
LEMMA AddFifo ==
  ASSUME DataTypes, Fifo, NEW x \in {Ping, Noop, Close},
         chan' = Append(chan, x), UNCHANGED <<peeked, got, sent, aside>>
  PROVE  DataTypes' /\ Fifo'
<1>1. x \in Packet \ Message
  BY PacketTypes
<1>2. got \o Pending \in Seq(Packet) /\ chan' \in Seq(Packet)
      /\ (got \o Pending)' = Append(got \o Pending, x)
  BY <1>1, PendingAppend
<1>3. DataTypes'
  BY <1>2 DEF DataTypes
<1>4. Messages(got \o Pending)' = Messages(got \o Pending)
  BY <1>1, <1>2, MessagesAppend
<1> QED BY <1>3, <1>4 DEF Fifo

\* A polling request gives what comes first and puts one packet back.
LEMMA RespondFifo ==
  ASSUME DataTypes, Fifo, NEW p \in Polls, PollRespond(p)
  PROVE  DataTypes' /\ Fifo'
<1> DEFINE P == Pending
           L == Len(P)
<1>1. P \in Seq(Packet) /\ got \in Seq(Packet) /\ L \in Nat
      /\ \A i \in 1..L : P[i] \in Packet
  BY PendingSeq
<1>2. PICK n \in 1..L : /\ got' = got \o Messages(SubSeq(P, 1, n))
                        /\ peeked' = IF n = L THEN None ELSE P[n + 1]
                        /\ chan' = SubSeq(P, n + 2, L)
                        /\ UNCHANGED <<sent, aside>>
  BY DEF PollRespond
<1> DEFINE c == SubSeq(P, 1, n)
           d == SubSeq(P, n + 1, L)
<1>3. c \in Seq(Packet) /\ d \in Seq(Packet) /\ chan' \in Seq(Packet)
  <2> HIDE DEF P
  <2> QED BY <1>1, <1>2, SubSeqProperties
<1>4. P = c \o d
  <2> HIDE DEF P
  <2>1. SubSeq(P, 1, n) \o SubSeq(P, n + 1, L) = SubSeq(P, 1, L)
    BY <1>1, ConcatAdjacentSubSeq
  <2>2. SubSeq(P, 1, L) = P
    BY <1>1
  <2> QED BY <2>1, <2>2
<1>5. Pending' = d
  <2> HIDE DEF P
  <2>1. CASE n = L
    <3>1. chan' = <<>> /\ d = <<>> /\ peeked' = None
      BY <1>1, <1>2, <2>1, SubSeqEmpty
    <3>2. <<>> \o <<>> = <<>>
      BY ConcatEmptySeq
    <3> QED BY <3>1, <3>2 DEF Pending
  <2>2. CASE n # L
    <3>1. peeked' = P[n + 1] /\ P[n + 1] \in Packet /\ P[n + 1] # None
      BY <1>1, <1>2, <2>2, PacketTypes
    <3>2. n + 1 \in 1..L /\ L \in (n + 1)..L /\ (n + 1) + 1 = n + 2
      BY <1>1, <2>2
    <3>3. d = <<P[n + 1]>> \o SubSeq(P, (n + 1) + 1, L)
      BY <1>1, <3>2, SubSeqRecursiveFirst
    <3>4. Pending' = <<peeked'>> \o chan'
      BY <3>1 DEF Pending
    <3> QED BY <1>2, <3>1, <3>2, <3>3, <3>4
  <2> QED BY <2>1, <2>2
<1>6. got' \in Seq(Message) /\ peeked' \in Packet \cup {None}
  <2> HIDE DEF P
  <2>1. Messages(c) \in Seq(Message) /\ got \in Seq(Message)
    BY <1>3, MessagesOf DEF DataTypes
  <2>2. got' \in Seq(Message)
    BY <1>2, <2>1, ConcatProperties
  <2> QED BY <1>1, <1>2, <2>2
<1>7. DataTypes'
  BY <1>2, <1>3, <1>6 DEF DataTypes
<1>8. InOrder(got \o P, sent, aside)
  BY FifoInOrder
<1>9. InOrder((got \o Messages(c)) \o d, sent, aside)
  <2> HIDE DEF c, d, P
  <2> QED BY <1>1, <1>3, <1>4, <1>8, InOrderGiven
<1>10. InOrder((got \o Pending)', sent', aside')
  BY <1>2, <1>5, <1>9
<1> QED BY <1>7, <1>10, FifoInOrder

\* A writer gives the channel and overtakes the packet that is set aside.
LEMMA FeedFifo ==
  ASSUME DataTypes, WriterAside, Fifo, NEW u \in Conns, WriterFeed(u)
  PROVE  DataTypes' /\ Fifo'
<1>1. /\ got' = got \o Messages(chan) /\ chan' = <<>>
      /\ UNCHANGED <<peeked, sent, aside>>
      /\ peeked \in aside \cup {None}
  BY DEF WriterFeed, WriterAside
<1>2. chan \in Seq(Packet) /\ got \in Seq(Packet) /\ <<>> \in Seq(Packet)
      /\ sent \in 0..MaxMsg /\ peeked \in Packet \cup {None}
  BY PendingSeq DEF DataTypes
<1>3. DataTypes'
  <2>1. Messages(chan) \in Seq(Message) /\ got \in Seq(Message)
    BY <1>2, MessagesOf DEF DataTypes
  <2>2. got' \in Seq(Message)
    BY <1>1, <2>1, ConcatProperties
  <2> QED BY <1>1, <1>2, <2>2 DEF DataTypes
<1>4. InOrder(got \o Pending, sent, aside)
  BY FifoInOrder
<1>5. CASE peeked = None
  <2>1. Pending = <<>> \o chan /\ Pending' = <<>> \o <<>>
    BY <1>1, <1>5 DEF Pending
  <2>2. Pending = chan \o <<>> /\ Pending' = <<>>
    BY <1>2, <2>1, ConcatEmptySeq
  <2>3. InOrder((got \o Messages(chan)) \o <<>>, sent, aside)
    BY <1>2, <1>4, <2>2, InOrderGiven
  <2>4. InOrder((got \o Pending)', sent', aside')
    BY <1>1, <2>2, <2>3
  <2> QED BY <1>3, <2>4, FifoInOrder
<1>6. CASE peeked # None
  <2>1. Pending = <<peeked>> \o chan /\ Pending' = <<peeked>> \o <<>>
    BY <1>1, <1>6 DEF Pending
  <2>2. peeked \in Packet /\ peeked \in aside /\ <<peeked>> \in Seq(Packet)
    BY <1>1, <1>2, <1>6
  <2>3. InOrder((got \o chan) \o <<peeked>>, sent, aside)
    BY <1>2, <1>4, <2>1, <2>2, InOrderOvertaken
  <2>4. (got \o chan) \o <<peeked>> = got \o (chan \o <<peeked>>)
    BY <1>2, <2>2, ConcatAssociative
  <2>5. InOrder((got \o Messages(chan)) \o <<peeked>>, sent, aside)
    BY <1>2, <2>2, <2>3, <2>4, InOrderGiven
  <2>6. Pending' = <<peeked>>
    BY <2>1, <2>2, ConcatEmptySeq
  <2>7. InOrder((got \o Pending)', sent', aside')
    BY <1>1, <2>5, <2>6
  <2> QED BY <1>3, <2>7, FifoInOrder
<1> QED BY <1>5, <1>6

\* A writer that starts sets the peeked packet aside.
LEMMA LockedFifo ==
  ASSUME DataTypes, Fifo, NEW u \in Conns, WriterLocked(u)
  PROVE  DataTypes' /\ Fifo'
<1>1. aside \subseteq aside' /\ UNCHANGED <<chan, peeked, got, sent>>
  BY DEF WriterLocked
<1> DEFINE h == got \o Pending
<1>2. h \in Seq(Packet) /\ h' = h /\ sent \in 0..MaxMsg
  BY <1>1, PendingSeq, ConcatProperties DEF DataTypes, Pending
<1>3. InOrder(h, sent, aside)
  BY FifoInOrder
<1>4. InOrder(h, sent, aside')
  <2> HIDE DEF h
  <2> QED BY <1>1, <1>2, <1>3, InOrderAside
<1>5. InOrder((got \o Pending)', sent', aside')
  BY <1>1, <1>2, <1>4
<1> QED BY <1>1, <1>5, FifoInOrder DEF DataTypes

\* A step that leaves the packets alone, and in which no writer starts.
RxQuiet ==
  /\ UNCHANGED <<chan, peeked, got, sent, aside>>
  /\ \A u \in Conns : writer'[u] \in {"writing", "feeding"}
                        => writer[u] \in {"writing", "feeding"}

\* A step that adds a packet of the protocol.
RxAdds ==
  /\ \E x \in {Ping, Noop, Close} : chan' = Append(chan, x)
  /\ UNCHANGED <<peeked, got, sent, aside, writer>>

\* All that happens to the packets.
RxStep ==
  \/ RxQuiet \/ RxAdds \/ Emit
  \/ \E p \in Polls : PollRespond(p)
  \/ \E u \in Conns : WriterFeed(u) \/ WriterLocked(u)

\* Every step of the session is one of these.
LEMMA RxSteps ==
  ASSUME Types, [Next]_vars
  PROVE  RxStep
<1> USE DEF RxStep, RxQuiet, RxAdds, Types
<1>1. CASE ServerClose
  BY <1>1 DEF ServerClose, SocketClose
<1>2. CASE ClientStep
  BY <1>2 DEF ClientStep, PollGet, PollDropped, PostStart, PostPong, PostClose,
     PostMalformed, PostEnd, WsGet, WsHandshake, WsFail, WsOpened, WsNotOpened,
     ReadPong, ReadEnd, PeerStalls
<1>3. CASE HeartbeatStep
  BY <1>3 DEF HeartbeatStep, HbStart, HbCheck, HbPing, HbFull, HbPong, HbTimeout,
     HbCancelled, SocketClose
<1>4. CASE CloserStep
  BY <1>4 DEF CloserStep, CloserLock, CloserClose, Notify
<1>5. ASSUME NEW p \in Polls, PollStep(p) PROVE RxStep
  BY <1>5 DEF PollStep, PollCheck, PollLock, PollMultiple, PollCancelled, SocketClose
<1>6. ASSUME NEW u \in Conns, WsStep(u) PROVE RxStep
  BY <1>6 DEF WsStep, WsStart, WsNoop, WsLock, WsClearUpgrading, WsSetTransport,
     WsSpawn, WsCancelled, WsTimeout, WsFailed, ReadCancelled
<1>7. ASSUME NEW u \in Conns, WriterStep(u) PROVE RxStep
  BY <1>7 DEF WriterStep, WriterLock, WriterCancelled, WriterRecv, WriterEnd, WriterTo
<1>8. CASE UNCHANGED vars
  BY <1>8 DEF vars
<1> QED BY <1>1, <1>2, <1>3, <1>4, <1>5, <1>6, <1>7, <1>8 DEF Next

\* While a writer reads the channel it holds the lock: no polling request does.
LEMMA WriterAlone ==
  ASSUME Queue, NEW p \in Polls, poll[p] = "parked", NEW u \in Conns
  PROVE  writer[u] \notin {"writing", "feeding"}
  BY Distinct DEF Queue, LockOK, Holds

\* The invariant is kept, with the queue of the lock.
LEMMA FifoNext ==
  ASSUME Types, Queue, FifoInv, [Next]_vars
  PROVE  FifoInv'
<1>1. RxStep
  BY RxSteps
<1> USE DEF FifoInv
<1>2. CASE RxQuiet
  BY <1>2 DEF RxQuiet, DataTypes, WriterAside, Fifo, Pending
<1>3. CASE RxAdds
  <2>1. WriterAside'
    BY <1>3 DEF RxAdds, WriterAside
  <2> QED BY <1>3, <2>1, AddFifo DEF RxAdds
<1>4. CASE Emit
  <2>1. WriterAside'
    BY <1>4 DEF Emit, WriterAside
  <2> QED BY <1>4, <2>1, EmitFifo
<1>5. ASSUME NEW p \in Polls, PollRespond(p) PROVE FifoInv'
  <2>1. WriterAside'
    BY <1>5, WriterAlone DEF PollRespond, WriterAside
  <2> QED BY <1>5, <2>1, RespondFifo
<1>6. ASSUME NEW u \in Conns, WriterFeed(u) PROVE FifoInv'
  <2>1. WriterAside'
    BY <1>6 DEF WriterFeed, WriterTo, WriterAside, Types
  <2> QED BY <1>6, <2>1, FeedFifo
<1>7. ASSUME NEW u \in Conns, WriterLocked(u) PROVE FifoInv'
  <2>1. WriterAside'
    BY <1>7 DEF WriterLocked, WriterAside
  <2> QED BY <1>7, <2>1, LockedFifo
<1> QED BY <1>1, <1>2, <1>3, <1>4, <1>5, <1>6, <1>7 DEF RxStep

\* Nothing is pending, nothing was accepted.
LEMMA FifoInit == Init => FifoInv
<1> SUFFICES ASSUME Init PROVE FifoInv
  OBVIOUS
<1>1. chan = <<>> /\ peeked = None /\ got = <<>> /\ sent = 0 /\ aside = {}
      /\ writer = [u \in Conns |-> "none"]
  BY DEF Init
<1>2. DataTypes /\ WriterAside
  BY <1>1, PacketTypes DEF DataTypes, WriterAside
<1>3. Messages(got \o Pending) = <<>>
  <2>1. <<>> \o (<<>> \o <<>>) = <<>>
    BY ConcatEmptySeq
  <2> QED BY <1>1, <2>1, OnlyEmpty DEF Pending, Messages
<1>4. [m \in 1..0 |-> m] = <<>>
  OBVIOUS
<1>5. Fifo
  BY <1>1, <1>3, <1>4 DEF Fifo
<1> QED BY <1>2, <1>5 DEF FifoInv

\* The messages given to the client, then the pending ones, are the accepted
\* messages, for any number of requests, websockets, messages and any capacity:
\* none is lost or duplicated by payload limits, dropped requests, upgrades and
\* closing, and none is overtaken but those peeked when a writer started.
THEOREM DeliveredInOrder == Spec => []Fifo
<1>1. Init => FifoInv
  BY FifoInit
<1>2. IInv /\ FifoInv /\ [Next]_vars => FifoInv'
  BY FifoNext DEF IInv
<1>3. FifoInv => Fifo
  BY DEF FifoInv
<1> QED BY Invariance, <1>1, <1>2, <1>3, PTL DEF Spec

-----------------------------------------------------------------------------
(* An upgrade is not starved                                               *)

\* What a parked request waits for.
NothingPending == peeked = None /\ chan = <<>>

\* While the upgrade is on, no request gets past the check; and a request that
\* got past it before finds the Noop of the handshake, until it has answered.
NoopInv ==
  \A u \in Conns :
    /\ ws[u] \in {"noop", "sent", "waiting", "ready"} => upgrading
    /\ ws[u] \in {"sent", "waiting"} =>
         \A p \in Polls : poll[p] \in {"checked", "parked"} => ~NothingPending

\* A request is answered as soon as something is pending.
LEMMA PendingEmpty ==
  ASSUME DataTypes
  PROVE  Pending = <<>> <=> NothingPending
<1>1. CASE peeked = None
  BY <1>1, ConcatEmptySeq DEF Pending, NothingPending, DataTypes
<1>2. CASE peeked # None
  <2>1. <<peeked>> \in Seq(Packet) /\ chan \in Seq(Packet) /\ Len(<<peeked>>) = 1
    BY <1>2 DEF DataTypes
  <2>2. Len(<<peeked>> \o chan) = Len(<<peeked>>) + Len(chan)
    BY <2>1, ConcatProperties
  <2>3. Len(Pending) >= 1
    BY <1>2, <2>1, <2>2 DEF Pending
  <2> QED BY <1>2, <2>3 DEF NothingPending
<1> QED BY <1>1, <1>2

\* Only the request itself takes the Noop, and then it has answered.
LEMMA NoopNext ==
  ASSUME \A p, q \in Polls : p = q, \A u, v \in Conns : u = v,
         Types, Ordered, DataTypes, NoopInv, [Next]_vars
  PROVE  NoopInv'
<1>a. ASSUME NEW x PROVE Append(chan, x) # <<>>
  BY DEF DataTypes
<1> USE DEF NoopInv, NothingPending, Types, Ordered
<1>1. CASE Emit
  BY <1>1, <1>a DEF Emit
<1>2. CASE ServerClose
  BY <1>2, <1>a DEF ServerClose, SocketClose
<1>3. ASSUME NEW p \in Polls, PollGet(p) \/ PollDropped(p) PROVE NoopInv'
  BY <1>3, PendingEmpty DEF PollGet, PollDropped, PollTo
<1>4. CASE PostStart \/ PostPong \/ PostClose \/ PostMalformed \/ PostEnd
  BY <1>4, <1>a DEF PostStart, PostPong, PostClose, PostMalformed, PostEnd
<1>5. ASSUME NEW u \in Conns, \/ WsGet(u) \/ WsHandshake(u) \/ WsFail(u)
                              \/ WsOpened(u) \/ WsNotOpened(u)
                              \/ ReadPong(u) \/ ReadEnd(u) \/ PeerStalls(u)
      PROVE  NoopInv'
  BY <1>5 DEF WsGet, WsHandshake, WsFail, WsOpened, WsNotOpened, ReadPong, ReadEnd,
     PeerStalls, WsTo
<1>6. CASE HeartbeatStep
  BY <1>6, <1>a DEF HeartbeatStep, HbStart, HbCheck, HbPing, HbFull, HbPong,
     HbTimeout, HbCancelled, SocketClose
<1>7. CASE CloserStep
  BY <1>7 DEF CloserStep, CloserLock, CloserClose, Notify
<1>8. ASSUME NEW p \in Polls, PollStep(p) PROVE NoopInv'
  BY <1>8, <1>a DEF PollStep, PollCheck, PollLock, PollMultiple, PollRespond,
     PollCancelled, PollTo, SocketClose
<1>9. ASSUME NEW u \in Conns, WsStep(u) PROVE NoopInv'
  BY <1>9, <1>a DEF WsStep, WsStart, WsNoop, WsLock, WsClearUpgrading,
     WsSetTransport, WsSpawn, WsCancelled, WsTimeout, WsFailed, ReadCancelled,
     WsTo
<1>10. ASSUME NEW u \in Conns, WriterStep(u) PROVE NoopInv'
  BY <1>10 DEF WriterStep, WriterLock, WriterLocked, WriterCancelled, WriterRecv,
     WriterFeed, WriterEnd, WriterTo
<1>11. CASE UNCHANGED vars
  BY <1>11 DEF vars
<1> QED BY <1>1, <1>2, <1>3, <1>4, <1>5, <1>6, <1>7, <1>8, <1>9, <1>10, <1>11
     DEF Next, ClientStep

\* With one polling request at a time and one websocket, an upgrade that waits
\* for the lock behind the request waits for a request with an answer, for any
\* number of messages and any capacity.
THEOREM NotStarved ==
  ASSUME \A p, q \in Polls : p = q, \A u, v \in Conns : u = v
  PROVE  Spec => []UpgradeNotStarved
<1>1. Init => NoopInv
  BY DEF Init, NoopInv
<1>2. IInv /\ FifoInv /\ NoopInv /\ [Next]_vars => NoopInv' /\ FifoInv'
  BY NoopNext, FifoNext DEF IInv, FifoInv
<1>3. IInv /\ FifoInv /\ NoopInv => UpgradeNotStarved
  BY PendingEmpty DEF IInv, Queue, LockOK, FifoInv, NoopInv, UpgradeNotStarved
<1> QED BY Invariance, FifoInit, <1>1, <1>2, <1>3, PTL DEF Spec

-----------------------------------------------------------------------------
(* All the types                                                           *)

\* What the arguments above did not need.
OtherTypes ==
  /\ transport \in {"polling", "websocket"}
  /\ Len(chan) <= Capacity
  /\ stalled \subseteq Conns
  /\ pong \in 0..1 /\ posting \in BOOLEAN
  /\ reason \in Reason
  /\ aside \subseteq Packet

\* A packet is only added to a channel with room.
LEMMA ChanFits ==
  ASSUME DataTypes, OtherTypes,
         \/ chan' = chan \/ chan' = <<>>
         \/ Room /\ \E x : chan' = Append(chan, x)
  PROVE  Len(chan') <= Capacity
<1>1. chan \in Seq(Packet) /\ Len(chan) \in Nat /\ Capacity \in Nat
  BY ParametersOK DEF DataTypes
<1>2. Len(<<>>) = 0
  OBVIOUS
<1>3. ASSUME NEW x PROVE Len(Append(chan, x)) = Len(chan) + 1
  BY <1>1
<1>4. CASE chan' = chan
  BY <1>4 DEF OtherTypes
<1>5. CASE chan' = <<>>
  BY <1>1, <1>2, <1>5
<1>6. CASE Room /\ \E x : chan' = Append(chan, x)
  BY <1>1, <1>3, <1>6 DEF Room
<1> QED BY <1>4, <1>5, <1>6

\* An answer takes a packet at least: what is left is no longer than before.
LEMMA RespondFits ==
  ASSUME DataTypes, OtherTypes, NEW p \in Polls, PollRespond(p)
  PROVE  Len(chan') <= Capacity
<1>1. chan \in Seq(Packet) /\ Len(chan) \in Nat /\ Capacity \in Nat
  BY ParametersOK DEF DataTypes
<1>2. Pending \in Seq(Packet) /\ Len(Pending) <= Len(chan) + 1
  <2>1. CASE peeked = None
    BY <1>1, <2>1, ConcatEmptySeq DEF Pending
  <2>2. CASE peeked # None
    <3>1. <<peeked>> \in Seq(Packet) /\ Len(<<peeked>>) = 1
      BY <2>2 DEF DataTypes
    <3> QED BY <1>1, <2>2, <3>1, ConcatProperties DEF Pending
  <2> QED BY <2>1, <2>2
<1> DEFINE q == Pending
<1>3. PICK n \in 1..Len(q) : chan' = SubSeq(q, n + 2, Len(q))
  BY DEF PollRespond
<1> HIDE DEF q
<1>4. q \in Seq(Packet) /\ Len(q) \in Nat /\ Len(q) <= Len(chan) + 1
  BY <1>2 DEF q
<1>5. \/ Len(chan') = 0
      \/ Len(chan') = Len(q) - n - 1
  BY <1>3, <1>4
<1> QED BY <1>1, <1>4, <1>5 DEF OtherTypes

\* Every step keeps them.
LEMMA OtherNext ==
  ASSUME Types, DataTypes, OtherTypes, [Next]_vars
  PROVE  OtherTypes'
<1> USE DEF Reason
<1>a. ASSUME NEW r \in Reason, CloseSession(r) PROVE reason' \in Reason
  BY <1>a DEF CloseSession, OtherTypes
<1>b. ASSUME NEW r \in Reason, SocketClose(r)
      PROVE  reason' \in Reason /\ Len(chan') <= Capacity /\ aside' = aside
  BY <1>a, <1>b, ChanFits DEF SocketClose
<1>1. CASE Emit
  <2>1. Len(chan') <= Capacity
    BY <1>1, ChanFits DEF Emit
  <2> QED BY <1>1, <2>1 DEF Emit, OtherTypes
<1>2. CASE ServerClose
  BY <1>2, <1>b DEF ServerClose, OtherTypes
<1>3. ASSUME NEW p \in Polls, PollGet(p) \/ PollDropped(p) PROVE OtherTypes'
  BY <1>3 DEF PollGet, PollDropped, OtherTypes
<1>4. CASE PostStart \/ PostPong \/ PostEnd
  <2>1. CASE PostStart
    BY <2>1 DEF PostStart, OtherTypes
  <2>2. CASE PostPong
    BY <2>2 DEF PostPong, PongReceived, OtherTypes
  <2>3. CASE PostEnd
    BY <2>3 DEF PostEnd, OtherTypes
  <2> QED BY <1>4, <2>1, <2>2, <2>3
<1>5. CASE PostClose
  <2>1. Len(chan') <= Capacity
    BY <1>5, ChanFits DEF PostClose
  <2>2. reason' \in Reason
    BY <1>5, <1>a DEF PostClose
  <2> QED BY <1>5, <2>1, <2>2 DEF PostClose, OtherTypes
<1>6. CASE PostMalformed
  BY <1>6, <1>a DEF PostMalformed, OtherTypes
<1>7. ASSUME NEW u \in Conns,
             \/ WsGet(u) \/ WsHandshake(u) \/ WsFail(u) \/ WsOpened(u)
             \/ WsNotOpened(u) \/ ReadPong(u)
      PROVE  OtherTypes'
  BY <1>7 DEF WsGet, WsHandshake, WsFail, WsOpened, WsNotOpened, ReadPong,
     PongReceived, OtherTypes
<1>8. ASSUME NEW u \in Conns, ReadEnd(u) PROVE OtherTypes'
  BY <1>8, <1>a DEF ReadEnd, OtherTypes
<1>9. ASSUME NEW u \in Conns, PeerStalls(u) PROVE OtherTypes'
  BY <1>9 DEF PeerStalls, OtherTypes
<1>10. CASE HbStart \/ HbCheck \/ HbPong \/ HbCancelled
  BY <1>10 DEF HbStart, HbCheck, HbPong, HbCancelled, OtherTypes
<1>11. CASE HbPing
  <2>1. Len(chan') <= Capacity
    BY <1>11, ChanFits DEF HbPing
  <2> QED BY <1>11, <2>1 DEF HbPing, OtherTypes
<1>12. CASE HbFull \/ HbTimeout
  BY <1>12, <1>b DEF HbFull, HbTimeout, OtherTypes
<1>13. CASE CloserStep
  BY <1>13 DEF CloserStep, CloserLock, CloserClose, Notify, OtherTypes
<1>14. ASSUME NEW p \in Polls, PollCheck(p) \/ PollLock(p) \/ PollCancelled(p)
       PROVE  OtherTypes'
  BY <1>14 DEF PollCheck, PollLock, PollCancelled, OtherTypes
<1>15. ASSUME NEW p \in Polls, PollMultiple(p) PROVE OtherTypes'
  BY <1>15, <1>b DEF PollMultiple, OtherTypes
<1>16. ASSUME NEW p \in Polls, PollRespond(p) PROVE OtherTypes'
  BY <1>16, RespondFits DEF PollRespond, OtherTypes
<1>17. ASSUME NEW u \in Conns,
              \/ WsStart(u) \/ WsLock(u) \/ WsClearUpgrading(u)
              \/ WsSetTransport(u) \/ WsSpawn(u) \/ WsCancelled(u)
              \/ ReadCancelled(u)
       PROVE  OtherTypes'
  BY <1>17 DEF WsStart, WsLock, WsClearUpgrading, WsSetTransport, WsSpawn,
     WsCancelled, ReadCancelled, OtherTypes
<1>18. ASSUME NEW u \in Conns, WsNoop(u) PROVE OtherTypes'
  <2>1. Len(chan') <= Capacity
    BY <1>18, ChanFits DEF WsNoop
  <2> QED BY <1>18, <2>1 DEF WsNoop, OtherTypes
<1>19. ASSUME NEW u \in Conns, WsTimeout(u) \/ WsFailed(u) PROVE OtherTypes'
  BY <1>19, <1>a DEF WsTimeout, WsFailed, OtherTypes
<1>20. ASSUME NEW u \in Conns,
              WriterLock(u) \/ WriterCancelled(u) \/ WriterRecv(u) \/ WriterEnd(u)
       PROVE  OtherTypes'
  BY <1>20 DEF WriterLock, WriterCancelled, WriterRecv, WriterEnd, OtherTypes
<1>21. ASSUME NEW u \in Conns, WriterLocked(u) PROVE OtherTypes'
  BY <1>21 DEF WriterLocked, OtherTypes, DataTypes
<1>22. ASSUME NEW u \in Conns, WriterFeed(u) PROVE OtherTypes'
  <2>1. Len(chan') <= Capacity
    BY <1>22, ChanFits DEF WriterFeed
  <2> QED BY <1>22, <2>1 DEF WriterFeed, OtherTypes
<1>23. CASE UNCHANGED vars
  BY <1>23 DEF vars, OtherTypes
<1>24. CASE ClientStep
  BY <1>3, <1>4, <1>5, <1>6, <1>7, <1>8, <1>9, <1>24 DEF ClientStep
<1>25. CASE HeartbeatStep
  BY <1>10, <1>11, <1>12, <1>25 DEF HeartbeatStep
<1>26. ASSUME NEW p \in Polls, PollStep(p) PROVE OtherTypes'
  BY <1>14, <1>15, <1>16, <1>26 DEF PollStep
<1>27. ASSUME NEW u \in Conns, WsStep(u) PROVE OtherTypes'
  BY <1>17, <1>18, <1>19, <1>27 DEF WsStep
<1>28. ASSUME NEW u \in Conns, WriterStep(u) PROVE OtherTypes'
  BY <1>20, <1>21, <1>22, <1>28 DEF WriterStep
<1> QED BY <1>1, <1>2, <1>13, <1>23, <1>24, <1>25, <1>26, <1>27, <1>28 DEF Next

\* Every variable keeps its type; the channel never has more packets than its
\* capacity, however its senders and readers interleave.
THEOREM TypeCorrect == Spec => []TypeOK
<1>1. Init => OtherTypes
  <2> SUFFICES ASSUME Init PROVE OtherTypes
    OBVIOUS
  <2>1. Len(<<>>) <= Capacity
    BY ParametersOK
  <2>2. /\ transport \in {"polling", "websocket"} /\ chan = <<>>
        /\ stalled = {} /\ pong = 0 /\ posting = FALSE
        /\ reason = None /\ aside = {}
    BY DEF Init
  <2>3. stalled \subseteq Conns /\ aside \subseteq Packet /\ reason \in Reason
    BY <2>2 DEF Reason
  <2>4. Len(chan) <= Capacity
    BY <2>1, <2>2
  <2>5. posting \in BOOLEAN
    BY <2>2, Zenon
  <2>6. pong \in 0..1
    BY <2>2
  <2> QED BY <2>2, <2>3, <2>4, <2>5, <2>6 DEF OtherTypes
<1>2. IInv /\ FifoInv /\ OtherTypes /\ [Next]_vars => FifoInv' /\ OtherTypes'
  BY FifoNext, OtherNext DEF IInv, FifoInv
<1>3. IInv /\ FifoInv /\ OtherTypes => TypeOK
  BY DEF IInv, Types, Queue, FifoInv, DataTypes, OtherTypes, TypeOK
<1> QED BY Invariance, FifoInit, <1>1, <1>2, <1>3, PTL DEF Spec
=============================================================================
