--------------------------- MODULE RemoteAckProofs ---------------------------
(***************************************************************************)
(* Proofs about RemoteAck, for any finite cluster and any number of        *)
(* answers: the handler of a request is in the table exactly while it is   *)
(* needed, what a stream has yielded and what it waits for are what was    *)
(* announced to it, and a stream that ends before its timeout is complete. *)
(***************************************************************************)
EXTENDS RemoteAck, FiniteSetTheorems, TLAPS

-----------------------------------------------------------------------------
(* The inductive invariant                                                 *)

\* What the other servers know of the request: each gets it at most once, and
\* has at most as many answers left as it announced.
Asked ==
  /\ pending \cap received = {}
  /\ pc \in {"idle", "sending"} => pending = {} /\ received = {}
  /\ \A n \in Nodes : task[n] # "none" => n \in received
  /\ \A n \in Nodes : task[n] = "count" => kind = "ack"
  /\ \A n \in Nodes : left[n] <= size[n]
  /\ kind = "collect" => \A n \in received : size[n] = 1

\* A response in the channel was sent by a server that got the request, and
\* was not read before.
Fresh(r) ==
  /\ r.from \in received
  /\ r.type = "count" => /\ kind = "ack" /\ r.val = size[r.from]
                         /\ task[r.from] # "count" /\ r.from \notin counted
  /\ r.type = "answer" => /\ left[r.from] < r.val /\ r.val <= size[r.from]
                          /\ <<r.from, r.val>> \notin got

ChannelFresh ==
  /\ \A k \in 1..Len(chan) : Fresh(chan[k])
  /\ \A j, k \in 1..Len(chan) : j # k => chan[j] # chan[k]

\* The same of the responses that were read.
ReadOnce ==
  /\ \A n \in counted : n \in received /\ task[n] # "count"
  /\ \A p \in got :
       p[1] \in received /\ left[p[1]] < p[2] /\ p[2] <= size[p[1]]

Finite == IsFiniteSet(got) /\ IsFiniteSet(AnswersOf(counted))

\* The counters of the stream.
Counters ==
  /\ pc = "idle" => counted = {} /\ got = {}
  /\ pc # "idle" /\ kind = "ack" => servCnt + Cardinality(counted) = expected
  /\ Accounted

\* How a stream comes to its end.
Ending ==
  /\ stopped => elapsed
  /\ pc = "ended" /\ ~elapsed => servCnt = 0 /\ (kind = "ack" => ackCnt = 0)

IInv == /\ TypeOK /\ HandlerOwned /\ Asked /\ ChannelFresh /\ ReadOnce
        /\ Finite /\ Counters /\ Ending

-----------------------------------------------------------------------------
(* Finite sets                                                             *)

\* The answers of a server are as many as it announced.
LEMMA OwnAnswers ==
  ASSUME NEW n, NEW m \in Nat
  PROVE  /\ IsFiniteSet({<<n, i>> : i \in 1..m})
         /\ Cardinality({<<n, i>> : i \in 1..m}) = m
<1> DEFINE T == {<<n, i>> : i \in 1..m}
           f == [i \in 1..m |-> <<n, i>>]
<1>1. /\ IsFiniteSet(1..m)
      /\ Cardinality(1..m) = m
  BY FS_Interval
<1>2. f \in Bijection(1..m, T)
  BY DEF Bijection, Injection, Surjection, IsInjective
<1>3. ExistsBijection(1..m, T)
  BY <1>2 DEF ExistsBijection
<1> QED
  BY <1>1, <1>3, FS_Bijection

\* A server whose count is accepted adds its answers to those announced.
LEMMA AnswersAdded ==
  ASSUME NEW S, NEW n \in Nodes, n \notin S, size[n] \in Nat,
         IsFiniteSet(AnswersOf(S))
  PROVE  /\ IsFiniteSet(AnswersOf(S \cup {n}))
         /\ Cardinality(AnswersOf(S \cup {n}))
              = Cardinality(AnswersOf(S)) + size[n]
<1> DEFINE own == {<<n, i>> : i \in 1..size[n]}
<1>1. AnswersOf(S \cup {n}) = AnswersOf(S) \cup own
  BY DEF AnswersOf
<1>2. AnswersOf(S) \cap own = {}
  BY DEF AnswersOf
<1>3. IsFiniteSet(own) /\ Cardinality(own) = size[n]
  BY OwnAnswers
<1> HIDE DEF own
<1>4. /\ IsFiniteSet(AnswersOf(S) \cup own)
      /\ Cardinality(AnswersOf(S) \cup own)
           = Cardinality(AnswersOf(S)) + Cardinality(own) - Cardinality({})
  BY <1>2, <1>3, FS_Union
<1>5. Cardinality(AnswersOf(S)) \in Nat
  BY FS_CardinalityType
<1>6. Cardinality({}) = 0
  BY FS_EmptySet
<1> DEFINE a == Cardinality(AnswersOf(S))
           b == Cardinality(own)
           c == Cardinality({})
<1>7. a + b - c = a + size[n]
  <2> HIDE DEF a
  <2> QED
    BY <1>3, <1>5, <1>6 DEF a
<1> QED
  BY <1>1, <1>4, <1>7

\* The answers of servers that got the request before are not changed.
LEMMA AnswersKept ==
  ASSUME NEW S, \A n \in S : size'[n] = size[n]
  PROVE  (UNION {{<<n, i>> : i \in 1..size'[n]} : n \in S}) = AnswersOf(S)
BY DEF AnswersOf

\* Sets of servers can be counted.
LEMMA NodesFinite ==
  ASSUME NEW S \in SUBSET Nodes
  PROVE  IsFiniteSet(S) /\ Cardinality(S) \in Nat
BY ConstantsOK, FS_Subset, FS_CardinalityType

-----------------------------------------------------------------------------
(* The initial states                                                      *)

\* Before a request nothing is asked, sent or read.
LEMMA InitInv == Init => IInv
<1> SUFFICES ASSUME Init PROVE IInv
  OBVIOUS
<1>1. TypeOK
  <2>1. kind \in {"ack", "collect"}
    BY ConstantsOK DEF Init
  <2>2. chan \in Seq(Response)
    BY DEF Init
  <2>3. /\ seen \in [Nodes -> {"no", "fresh", "old"}]
        /\ beating \subseteq Nodes
    BY DEF Init
  <2>4. /\ task \in [Nodes -> {"none", "count", "answers"}]
        /\ left \in [Nodes -> Nat] /\ size \in [Nodes -> Nat]
    BY DEF Init
  <2> QED
    BY <2>1, <2>2, <2>3, <2>4 DEF Init, TypeOK
<1>2. counted = {} /\ got = {} /\ AnswersOf(counted) = {}
  BY DEF Init, AnswersOf
<1>3. HandlerOwned /\ Asked /\ ReadOnce /\ Ending
  BY DEF Init, HandlerOwned, Asked, ReadOnce, Ending
<1>4. ChannelFresh
  BY DEF Init, ChannelFresh
<1>5. /\ IsFiniteSet(got) /\ IsFiniteSet(AnswersOf(counted))
      /\ Cardinality(got) = 0 /\ Cardinality(AnswersOf(counted)) = 0
  BY <1>2, FS_EmptySet
<1>6. Finite /\ Counters
  BY <1>2, <1>5 DEF Init, Finite, Counters, Accounted
<1> QED
  BY <1>1, <1>3, <1>4, <1>6 DEF IInv

-----------------------------------------------------------------------------
(* The types                                                               *)

\* A response that reaches the caller goes behind the others.
LEMMA RouteType ==
  ASSUME chan \in Seq(Response), poll \in {"due", "remote", "parked"},
         NEW r \in Response, Route(r)
  PROVE  chan' \in Seq(Response) /\ poll' \in {"due", "remote", "parked"}
<1>1. poll' \in {"due", "remote", "parked"}
  BY DEF Route, Wake
<1>2. Append(chan, r) \in Seq(Response)
  OBVIOUS
<1>3. chan' = Append(chan, r) \/ chan' = chan
  BY DEF Route
<1> QED
  BY <1>1, <1>2, <1>3

\* What is read is a response, and what is behind it stays.
LEMMA TailType ==
  ASSUME chan \in Seq(Response), chan # << >>
  PROVE  Tail(chan) \in Seq(Response) /\ Head(chan) \in Response
OBVIOUS

\* No step takes a variable out of its type.
LEMMA TypeStep == TypeOK /\ [Next]_vars => TypeOK'
<1> SUFFICES ASSUME TypeOK, [Next]_vars
             PROVE  TypeOK'
  OBVIOUS
<1>1. ASSUME NEW n \in Nodes, Start(n)
      PROVE  TypeOK'
  BY <1>1 DEF TypeOK, Start, serverVars, streamVars, localVars, timerVars,
     callVars
<1>2. ASSUME NEW n \in Nodes, OnHeartbeat(n)
      PROVE  TypeOK'
  BY <1>2 DEF TypeOK, OnHeartbeat, serverVars, streamVars, localVars,
     timerVars, callVars
<1>3. ASSUME NEW n \in Nodes, HeartbeatLoopEnds(n)
      PROVE  TypeOK'
  BY <1>3 DEF TypeOK, HeartbeatLoopEnds, serverVars, streamVars, localVars,
     timerVars, callVars
<1>4. ASSUME NEW n \in Nodes, Expire(n)
      PROVE  TypeOK'
  BY <1>4 DEF TypeOK, Expire, serverVars, streamVars, localVars, timerVars,
     callVars
<1>5. ASSUME NEW n \in Nodes, Crash(n)
      PROVE  TypeOK'
  BY <1>5 DEF TypeOK, Crash, streamVars, localVars, timerVars, callVars
<1>6. ASSUME NEW n \in Nodes, LoseReq(n)
      PROVE  TypeOK'
  BY <1>6 DEF TypeOK, LoseReq, nodeVars, streamVars, localVars, timerVars,
     callVars
<1>7. ASSUME NEW n \in Nodes, RecvReq(n)
      PROVE  TypeOK'
  BY <1>7 DEF TypeOK, RecvReq, nodeVars, streamVars, localVars, timerVars,
     callVars
<1>8. ASSUME NEW n \in Nodes, SendCount(n)
      PROVE  TypeOK'
  <2>1. Count(n, size[n]) \in Response
    BY <1>8 DEF TypeOK, Response, Count, Answer
  <2>2. chan' \in Seq(Response) /\ poll' \in {"due", "remote", "parked"}
    BY <1>8, <2>1, RouteType DEF TypeOK, SendCount
  <2> QED
    BY <1>8, <2>2 DEF TypeOK, SendCount, nodeVars, streamVars, localVars,
       timerVars, callVars
<1>9. ASSUME NEW n \in Nodes, SendAnswer(n)
      PROVE  TypeOK'
  <2>1. Answer(n, left[n]) \in Response
    BY <1>9 DEF TypeOK, Response, Count, Answer
  <2>2. chan' \in Seq(Response) /\ poll' \in {"due", "remote", "parked"}
    BY <1>9, <2>1, RouteType DEF TypeOK, SendAnswer
  <2> QED
    BY <1>9, <2>2 DEF TypeOK, SendAnswer, nodeVars, streamVars, localVars,
       timerVars, callVars
<1>10. ASSUME NEW n \in Nodes, LoseRes(n)
      PROVE  TypeOK'
  <2>1. task' \in [Nodes -> {"none", "count", "answers"}]
    BY <1>10 DEF TypeOK, LoseRes
  <2>2. left' \in [Nodes -> Nat]
    BY <1>10 DEF TypeOK, LoseRes
  <2> QED
    BY <1>10, <2>1, <2>2 DEF TypeOK, LoseRes, nodeVars, streamVars, localVars,
       timerVars, callVars
<1>11. ASSUME NEW n \in Nodes, SendResErr(n)
      PROVE  TypeOK'
  BY <1>11 DEF TypeOK, SendResErr, nodeVars, streamVars, localVars, timerVars,
     callVars
<1>12. CASE Begin
  BY <1>12, NodesFinite DEF TypeOK, Begin, Unexpired, serverVars, localVars,
     timerVars
<1>13. CASE SendReq
  BY <1>13 DEF TypeOK, SendReq, nodeVars, streamVars, timerVars, callVars
<1>14. CASE SendReqErr
  BY <1>14 DEF TypeOK, SendReqErr, nodeVars, serverVars, streamVars, localVars,
     timerVars, callVars
<1>15. CASE DropStream
  <2>1. chan' \in Seq(Response)
    BY <1>15 DEF DropStream
  <2> QED
    BY <1>15, <2>1 DEF TypeOK, DropStream, nodeVars, serverVars, streamVars,
       localVars, timerVars, callVars
<1>16. CASE PollLocal
  BY <1>16 DEF TypeOK, PollLocal, nodeVars, serverVars, streamVars, timerVars,
     callVars
<1>17. CASE PollRemote
  BY <1>17 DEF TypeOK, PollRemote, nodeVars, serverVars, streamVars, localVars,
     timerVars, callVars
<1>18. CASE StopRemote
  BY <1>18 DEF TypeOK, StopRemote, InLoop, Park, nodeVars, serverVars,
     streamVars, localVars, callVars
<1>19. CASE ChannelEmpty
  BY <1>19 DEF TypeOK, ChannelEmpty, InLoop, Park, nodeVars, serverVars,
     streamVars, localVars, timerVars, callVars
<1>20. CASE TakeCount
  <2>1. Tail(chan) \in Seq(Response) /\ Head(chan) \in Response
    BY <1>20, TailType DEF TypeOK, TakeCount, Receive
  <2>2. chan' = Tail(chan)
    BY <1>20 DEF TakeCount, Receive
  <2>3. servCnt' \in Nat /\ ackCnt' \in Nat /\ counted' \subseteq Nodes
    BY <1>20, <2>1 DEF TypeOK, Response, TakeCount, Receive
  <2> QED
    BY <1>20, <2>1, <2>2, <2>3 DEF TypeOK, TakeCount, Receive, InLoop,
       nodeVars, serverVars, localVars, timerVars, callVars
<1>21. CASE TakeAnswer
  <2>1. Tail(chan) \in Seq(Response) /\ Head(chan) \in Response
    BY <1>21, TailType DEF TypeOK, TakeAnswer, Receive
  <2>2. chan' = Tail(chan)
    BY <1>21 DEF TakeAnswer, Receive
  <2>3. ackCnt' \in Nat /\ got' \subseteq Nodes \X Nat
    BY <1>21, <2>1 DEF TypeOK, Response, TakeAnswer, Receive
  <2> QED
    BY <1>21, <2>1, <2>2, <2>3 DEF TypeOK, TakeAnswer, Receive, InLoop,
       nodeVars, serverVars, localVars, timerVars, callVars
<1>22. CASE TakeUnexpected
  <2>1. Tail(chan) \in Seq(Response) /\ Head(chan) \in Response
    BY <1>22, TailType DEF TypeOK, TakeUnexpected, Receive
  <2>2. chan' = Tail(chan)
    BY <1>22 DEF TakeUnexpected, Receive
  <2> QED
    BY <1>22, <2>1, <2>2 DEF TypeOK, TakeUnexpected, Receive, InLoop, nodeVars,
       serverVars, streamVars, localVars, timerVars, callVars
<1>23. CASE CollectEnd
  BY <1>23 DEF TypeOK, CollectEnd, Polled, nodeVars, serverVars, streamVars,
     localVars, timerVars, callVars
<1>24. CASE CollectNext
  <2>1. Tail(chan) \in Seq(Response) /\ Head(chan) \in Response
    BY <1>24, TailType DEF TypeOK, CollectNext
  <2>2. chan' = Tail(chan)
    BY <1>24 DEF CollectNext
  <2>3. servCnt' \in Nat /\ got' \subseteq Nodes \X Nat
    BY <1>24, <2>1 DEF TypeOK, Response, CollectNext
  <2> QED
    BY <1>24, <2>1, <2>2, <2>3 DEF TypeOK, CollectNext, Polled, nodeVars,
       serverVars, localVars, timerVars, callVars
<1>25. CASE CollectPark
  BY <1>25 DEF TypeOK, CollectPark, Polled, nodeVars, serverVars, streamVars,
     localVars, timerVars, callVars
<1>26. CASE Elapse
  BY <1>26 DEF TypeOK, Elapse, Wake, nodeVars, serverVars, streamVars,
     localVars, callVars
<1>27. CASE LocalAnswer
  BY <1>27 DEF TypeOK, LocalAnswer, Wake, nodeVars, serverVars, streamVars,
     timerVars, callVars
<1>28. CASE UNCHANGED vars
  BY <1>28 DEF TypeOK, vars
<1> QED
  BY <1>1, <1>2, <1>3, <1>4, <1>5, <1>6, <1>7, <1>8, <1>9, <1>10, <1>11, <1>12,
     <1>13, <1>14, <1>15, <1>16, <1>17, <1>18, <1>19, <1>20, <1>21, <1>22,
     <1>23, <1>24, <1>25, <1>26, <1>27, <1>28 DEF Next, Call, Poll, Cluster,
     Server

-----------------------------------------------------------------------------
(* The parts of the invariant, one by one                                  *)

\* The handler goes when its reader does, and a stream ends with its counters at
\* zero, or after its timer.
LEMMA OwnedStep == IInv /\ [Next]_vars => HandlerOwned' /\ Ending'
<1> SUFFICES ASSUME IInv, [Next]_vars
             PROVE  HandlerOwned' /\ Ending'
  OBVIOUS
<1>1. ASSUME NEW n \in Nodes, Start(n)
      PROVE  HandlerOwned' /\ Ending'
  BY <1>1 DEF IInv, RemoteOver, HandlerOwned, Ending, Start, serverVars,
     streamVars, localVars, timerVars, callVars
<1>2. ASSUME NEW n \in Nodes, OnHeartbeat(n)
      PROVE  HandlerOwned' /\ Ending'
  BY <1>2 DEF IInv, RemoteOver, HandlerOwned, Ending, OnHeartbeat, serverVars,
     streamVars, localVars, timerVars, callVars
<1>3. ASSUME NEW n \in Nodes, HeartbeatLoopEnds(n)
      PROVE  HandlerOwned' /\ Ending'
  BY <1>3 DEF IInv, RemoteOver, HandlerOwned, Ending, HeartbeatLoopEnds,
     serverVars, streamVars, localVars, timerVars, callVars
<1>4. ASSUME NEW n \in Nodes, Expire(n)
      PROVE  HandlerOwned' /\ Ending'
  BY <1>4 DEF IInv, RemoteOver, HandlerOwned, Ending, Expire, serverVars,
     streamVars, localVars, timerVars, callVars
<1>5. ASSUME NEW n \in Nodes, Crash(n)
      PROVE  HandlerOwned' /\ Ending'
  BY <1>5 DEF IInv, RemoteOver, HandlerOwned, Ending, Crash, streamVars,
     localVars, timerVars, callVars
<1>6. ASSUME NEW n \in Nodes, LoseReq(n)
      PROVE  HandlerOwned' /\ Ending'
  BY <1>6 DEF IInv, RemoteOver, HandlerOwned, Ending, LoseReq, nodeVars,
     streamVars, localVars, timerVars, callVars
<1>7. ASSUME NEW n \in Nodes, RecvReq(n)
      PROVE  HandlerOwned' /\ Ending'
  BY <1>7 DEF IInv, RemoteOver, HandlerOwned, Ending, RecvReq, nodeVars,
     streamVars, localVars, timerVars, callVars
<1>8. ASSUME NEW n \in Nodes, SendCount(n)
      PROVE  HandlerOwned' /\ Ending'
  BY <1>8 DEF IInv, RemoteOver, HandlerOwned, Ending, SendCount, Route, Wake,
     nodeVars, streamVars, localVars, timerVars, callVars
<1>9. ASSUME NEW n \in Nodes, SendAnswer(n)
      PROVE  HandlerOwned' /\ Ending'
  BY <1>9 DEF IInv, RemoteOver, HandlerOwned, Ending, SendAnswer, Route, Wake,
     nodeVars, streamVars, localVars, timerVars, callVars
<1>10. ASSUME NEW n \in Nodes, LoseRes(n)
      PROVE  HandlerOwned' /\ Ending'
  BY <1>10 DEF IInv, RemoteOver, HandlerOwned, Ending, LoseRes, nodeVars,
     streamVars, localVars, timerVars, callVars
<1>11. ASSUME NEW n \in Nodes, SendResErr(n)
      PROVE  HandlerOwned' /\ Ending'
  BY <1>11 DEF IInv, RemoteOver, HandlerOwned, Ending, SendResErr, nodeVars,
     streamVars, localVars, timerVars, callVars
<1>12. CASE Begin
  BY <1>12 DEF IInv, RemoteOver, HandlerOwned, Ending, Begin, serverVars,
     localVars, timerVars
<1>13. CASE SendReq
  BY <1>13 DEF IInv, RemoteOver, HandlerOwned, Ending, SendReq, nodeVars,
     streamVars, timerVars, callVars
<1>14. CASE SendReqErr
  BY <1>14 DEF IInv, RemoteOver, HandlerOwned, Ending, SendReqErr, nodeVars,
     serverVars, streamVars, localVars, timerVars, callVars
<1>15. CASE DropStream
  BY <1>15 DEF IInv, RemoteOver, HandlerOwned, Ending, DropStream, nodeVars,
     serverVars, streamVars, localVars, timerVars, callVars
<1>16. CASE PollLocal
  BY <1>16 DEF IInv, RemoteOver, HandlerOwned, Ending, PollLocal, nodeVars,
     serverVars, streamVars, timerVars, callVars
<1>17. CASE PollRemote
  BY <1>17 DEF IInv, RemoteOver, HandlerOwned, Ending, PollRemote, nodeVars,
     serverVars, streamVars, localVars, timerVars, callVars
<1>18. CASE StopRemote
  BY <1>18 DEF IInv, RemoteOver, HandlerOwned, Ending, StopRemote, InLoop,
     Park, nodeVars, serverVars, streamVars, localVars, callVars
<1>19. CASE ChannelEmpty
  BY <1>19 DEF IInv, RemoteOver, HandlerOwned, Ending, ChannelEmpty, InLoop,
     Park, nodeVars, serverVars, streamVars, localVars, timerVars, callVars
<1>20. CASE TakeCount
  BY <1>20 DEF IInv, RemoteOver, HandlerOwned, Ending, TakeCount, Receive,
     InLoop, nodeVars, serverVars, localVars, timerVars, callVars
<1>21. CASE TakeAnswer
  BY <1>21 DEF IInv, RemoteOver, HandlerOwned, Ending, TakeAnswer, Receive,
     InLoop, nodeVars, serverVars, localVars, timerVars, callVars
<1>22. CASE TakeUnexpected
  BY <1>22 DEF IInv, RemoteOver, HandlerOwned, Ending, TakeUnexpected, Receive,
     InLoop, nodeVars, serverVars, streamVars, localVars, timerVars, callVars
<1>23. CASE CollectEnd
  BY <1>23 DEF IInv, RemoteOver, HandlerOwned, Ending, CollectEnd, Polled,
     nodeVars, serverVars, streamVars, localVars, timerVars, callVars
<1>24. CASE CollectNext
  BY <1>24 DEF IInv, RemoteOver, HandlerOwned, Ending, CollectNext, Polled,
     nodeVars, serverVars, localVars, timerVars, callVars
<1>25. CASE CollectPark
  BY <1>25 DEF IInv, RemoteOver, HandlerOwned, Ending, CollectPark, Polled,
     nodeVars, serverVars, streamVars, localVars, timerVars, callVars
<1>26. CASE Elapse
  BY <1>26 DEF IInv, RemoteOver, HandlerOwned, Ending, Elapse, Wake, nodeVars,
     serverVars, streamVars, localVars, callVars
<1>27. CASE LocalAnswer
  BY <1>27 DEF IInv, RemoteOver, HandlerOwned, Ending, LocalAnswer, Wake,
     nodeVars, serverVars, streamVars, timerVars, callVars
<1>28. CASE UNCHANGED vars
  BY <1>28 DEF IInv, RemoteOver, HandlerOwned, Ending, vars
<1> QED
  BY <1>1, <1>2, <1>3, <1>4, <1>5, <1>6, <1>7, <1>8, <1>9, <1>10, <1>11, <1>12,
     <1>13, <1>14, <1>15, <1>16, <1>17, <1>18, <1>19, <1>20, <1>21, <1>22,
     <1>23, <1>24, <1>25, <1>26, <1>27, <1>28 DEF Next, Call, Poll, Cluster,
     Server

\* A server gets the request once, and sends what it announced at most.
LEMMA AskedStep == IInv /\ [Next]_vars => Asked'
<1> SUFFICES ASSUME IInv, [Next]_vars
             PROVE  Asked'
  OBVIOUS
<1>1. ASSUME NEW n \in Nodes, Start(n)
      PROVE  Asked'
  BY <1>1 DEF IInv, TypeOK, Asked, Start, serverVars, streamVars, localVars,
     timerVars, callVars
<1>2. ASSUME NEW n \in Nodes, OnHeartbeat(n)
      PROVE  Asked'
  BY <1>2 DEF IInv, TypeOK, Asked, OnHeartbeat, serverVars, streamVars,
     localVars, timerVars, callVars
<1>3. ASSUME NEW n \in Nodes, HeartbeatLoopEnds(n)
      PROVE  Asked'
  BY <1>3 DEF IInv, TypeOK, Asked, HeartbeatLoopEnds, serverVars, streamVars,
     localVars, timerVars, callVars
<1>4. ASSUME NEW n \in Nodes, Expire(n)
      PROVE  Asked'
  BY <1>4 DEF IInv, TypeOK, Asked, Expire, serverVars, streamVars, localVars,
     timerVars, callVars
<1>5. ASSUME NEW n \in Nodes, Crash(n)
      PROVE  Asked'
  BY <1>5 DEF IInv, TypeOK, Asked, Crash, streamVars, localVars, timerVars,
     callVars
<1>6. ASSUME NEW n \in Nodes, LoseReq(n)
      PROVE  Asked'
  BY <1>6 DEF IInv, TypeOK, Asked, LoseReq, nodeVars, streamVars, localVars,
     timerVars, callVars
<1>7. ASSUME NEW n \in Nodes, RecvReq(n)
      PROVE  Asked'
  BY <1>7 DEF IInv, TypeOK, Asked, RecvReq, nodeVars, streamVars, localVars,
     timerVars, callVars
<1>8. ASSUME NEW n \in Nodes, SendCount(n)
      PROVE  Asked'
  BY <1>8 DEF IInv, TypeOK, Asked, SendCount, Route, Wake, nodeVars,
     streamVars, localVars, timerVars, callVars
<1>9. ASSUME NEW n \in Nodes, SendAnswer(n)
      PROVE  Asked'
  BY <1>9 DEF IInv, TypeOK, Asked, SendAnswer, Route, Wake, nodeVars,
     streamVars, localVars, timerVars, callVars
<1>10. ASSUME NEW n \in Nodes, LoseRes(n)
      PROVE  Asked'
  <2>0. /\ left \in [Nodes -> Nat]
        /\ \/ left' = left
           \/ (left[n] > 0 /\ left' = [left EXCEPT ![n] = left[n] - 1])
        /\ \/ task' = task
           \/ (task[n] = "count" /\ task' = [task EXCEPT ![n] = "answers"])
    BY <1>10 DEF IInv, TypeOK, LoseRes
  <2>1. \A q \in Nodes :
         task'[q] = task[q] \/ (task[q] = "count" /\ task'[q] = "answers")
    BY <2>0 DEF IInv, TypeOK
  <2>2. \A q \in Nodes : left'[q] \in Nat /\ left'[q] <= left[q]
    BY <2>0
  <2> QED
    BY <1>10, <2>1, <2>2 DEF IInv, TypeOK, Asked, LoseRes, nodeVars,
       streamVars, localVars, timerVars, callVars
<1>11. ASSUME NEW n \in Nodes, SendResErr(n)
      PROVE  Asked'
  BY <1>11 DEF IInv, TypeOK, Asked, SendResErr, nodeVars, streamVars,
     localVars, timerVars, callVars
<1>12. CASE Begin
  BY <1>12 DEF IInv, TypeOK, Asked, Begin, serverVars, localVars, timerVars
<1>13. CASE SendReq
  BY <1>13 DEF IInv, TypeOK, Asked, SendReq, nodeVars, streamVars, timerVars,
     callVars
<1>14. CASE SendReqErr
  BY <1>14 DEF IInv, TypeOK, Asked, SendReqErr, nodeVars, serverVars,
     streamVars, localVars, timerVars, callVars
<1>15. CASE DropStream
  BY <1>15 DEF IInv, TypeOK, Asked, DropStream, nodeVars, serverVars,
     streamVars, localVars, timerVars, callVars
<1>16. CASE PollLocal
  BY <1>16 DEF IInv, TypeOK, Asked, PollLocal, nodeVars, serverVars,
     streamVars, timerVars, callVars
<1>17. CASE PollRemote
  BY <1>17 DEF IInv, TypeOK, Asked, PollRemote, nodeVars, serverVars,
     streamVars, localVars, timerVars, callVars
<1>18. CASE StopRemote
  BY <1>18 DEF IInv, TypeOK, Asked, StopRemote, InLoop, Park, nodeVars,
     serverVars, streamVars, localVars, callVars
<1>19. CASE ChannelEmpty
  BY <1>19 DEF IInv, TypeOK, Asked, ChannelEmpty, InLoop, Park, nodeVars,
     serverVars, streamVars, localVars, timerVars, callVars
<1>20. CASE TakeCount
  BY <1>20 DEF IInv, TypeOK, Asked, TakeCount, Receive, InLoop, nodeVars,
     serverVars, localVars, timerVars, callVars
<1>21. CASE TakeAnswer
  BY <1>21 DEF IInv, TypeOK, Asked, TakeAnswer, Receive, InLoop, nodeVars,
     serverVars, localVars, timerVars, callVars
<1>22. CASE TakeUnexpected
  BY <1>22 DEF IInv, TypeOK, Asked, TakeUnexpected, Receive, InLoop, nodeVars,
     serverVars, streamVars, localVars, timerVars, callVars
<1>23. CASE CollectEnd
  BY <1>23 DEF IInv, TypeOK, Asked, CollectEnd, Polled, nodeVars, serverVars,
     streamVars, localVars, timerVars, callVars
<1>24. CASE CollectNext
  BY <1>24 DEF IInv, TypeOK, Asked, CollectNext, Polled, nodeVars, serverVars,
     localVars, timerVars, callVars
<1>25. CASE CollectPark
  BY <1>25 DEF IInv, TypeOK, Asked, CollectPark, Polled, nodeVars, serverVars,
     streamVars, localVars, timerVars, callVars
<1>26. CASE Elapse
  BY <1>26 DEF IInv, TypeOK, Asked, Elapse, Wake, nodeVars, serverVars,
     streamVars, localVars, callVars
<1>27. CASE LocalAnswer
  BY <1>27 DEF IInv, TypeOK, Asked, LocalAnswer, Wake, nodeVars, serverVars,
     streamVars, timerVars, callVars
<1>28. CASE UNCHANGED vars
  BY <1>28 DEF IInv, TypeOK, Asked, vars
<1> QED
  BY <1>1, <1>2, <1>3, <1>4, <1>5, <1>6, <1>7, <1>8, <1>9, <1>10, <1>11, <1>12,
     <1>13, <1>14, <1>15, <1>16, <1>17, <1>18, <1>19, <1>20, <1>21, <1>22,
     <1>23, <1>24, <1>25, <1>26, <1>27, <1>28 DEF Next, Call, Poll, Cluster,
     Server

-----------------------------------------------------------------------------
(* The channel                                                             *)

\* A step that leaves the channel leaves it fresh if no response gets old.
LEMMA ChannelKept ==
  ASSUME chan \in Seq(Response), ChannelFresh, chan' = chan,
         \A r \in Response : Fresh(r) => Fresh(r)'
  PROVE  ChannelFresh'
<1>1. \A k \in 1..Len(chan) : chan[k] \in Response
  OBVIOUS
<1>2. \A k \in 1..Len(chan') : Fresh(chan[k])
  BY DEF ChannelFresh
<1>3. ASSUME NEW k \in 1..Len(chan')
      PROVE  Fresh(chan[k])'
  <2> DEFINE r == chan[k]
  <2>1. PICK c \in Response : c = r
    BY <1>1, <1>3
  <2>2. Fresh(c)'
    BY <2>1, <1>2
  <2>3. c = chan'[k]
    BY <2>1
  <2> QED
    BY <2>2, <2>3 DEF Fresh
<1> QED
  BY <1>3 DEF ChannelFresh

\* A response that was not fresh before it was sent is not in the channel yet.
LEMMA ChannelSent ==
  ASSUME chan \in Seq(Response), ChannelFresh, NEW r \in Response,
         chan' = Append(chan, r), ~Fresh(r), Fresh(r)',
         \A s \in Response : Fresh(s) => Fresh(s)'
  PROVE  ChannelFresh'
<1>1. /\ Len(chan) \in Nat /\ Len(chan') = Len(chan) + 1
      /\ chan'[Len(chan) + 1] = r
      /\ \A k \in 1..Len(chan) : chan'[k] = chan[k] /\ chan[k] \in Response
  OBVIOUS
<1>2. \A k \in 1..Len(chan) : Fresh(chan[k])
  BY DEF ChannelFresh
<1>3. ASSUME NEW k \in 1..Len(chan')
      PROVE  Fresh(chan[k])'
  <2>1. CASE k = Len(chan) + 1
    BY <1>1, <2>1 DEF Fresh
  <2>2. CASE k \in 1..Len(chan)
    <3>1. PICK c \in Response : c = chan[k]
      BY <1>1, <2>2
    <3>2. Fresh(c)'
      BY <3>1, <1>2, <2>2
    <3>3. c = chan'[k]
      BY <3>1, <1>1, <2>2
    <3> QED
      BY <3>2, <3>3 DEF Fresh
  <2> QED
    BY <1>1, <2>1, <2>2
<1>4. \A k \in 1..Len(chan) : chan[k] # r
  BY <1>2
<1>5. \A j, k \in 1..Len(chan') : j # k => chan'[j] # chan'[k]
  BY <1>1, <1>4 DEF ChannelFresh
<1> QED
  BY <1>3, <1>5 DEF ChannelFresh

\* The responses behind the one that is read differ from it.
LEMMA ChannelRead ==
  ASSUME chan \in Seq(Response), chan # << >>, ChannelFresh,
         chan' = Tail(chan),
         \A s \in Response : s # Head(chan) /\ Fresh(s) => Fresh(s)'
  PROVE  ChannelFresh'
<1>1. /\ Len(chan) \in Nat /\ Len(chan') = Len(chan) - 1
      /\ \A k \in 1..Len(chan') :
           /\ k + 1 \in 1..Len(chan)
           /\ chan'[k] = chan[k + 1] /\ chan[k + 1] \in Response
      /\ Head(chan) = chan[1] /\ 1 \in 1..Len(chan)
  OBVIOUS
<1>2. ASSUME NEW k \in 1..Len(chan')
      PROVE  Fresh(chan[k])'
  <2>1. PICK c \in Response : c = chan[k + 1]
    BY <1>1
  <2>2. Fresh(c)
    BY <2>1, <1>1 DEF ChannelFresh
  <2>3. c # Head(chan)
    BY <2>1, <1>1 DEF ChannelFresh
  <2>4. Fresh(c)'
    BY <2>2, <2>3
  <2>5. c = chan'[k]
    BY <2>1, <1>1
  <2> QED
    BY <2>4, <2>5 DEF Fresh
<1>3. \A j, k \in 1..Len(chan') : j # k => chan'[j] # chan'[k]
  BY <1>1 DEF ChannelFresh
<1> QED
  BY <1>2, <1>3 DEF ChannelFresh

\* What is read first is fresh.
LEMMA HeadFresh ==
  ASSUME chan \in Seq(Response), chan # << >>, ChannelFresh
  PROVE  Head(chan) \in Response /\ Fresh(Head(chan))
<1>1. Head(chan) = chan[1] /\ 1 \in 1..Len(chan) /\ chan[1] \in Response
  OBVIOUS
<1> QED
  BY <1>1 DEF ChannelFresh

\* A response is its three fields.
LEMMA ResponseEqual ==
  ASSUME NEW r \in Response, NEW s \in Response,
         r.type = s.type, r.from = s.from, r.val = s.val
  PROVE  r = s
BY DEF Response

\* What is read was sent.
LEMMA ReadOnceStep == IInv /\ [Next]_vars => ReadOnce'
<1> SUFFICES ASSUME IInv, [Next]_vars
             PROVE  ReadOnce'
  OBVIOUS
<1>1. ASSUME NEW n \in Nodes, Start(n)
      PROVE  ReadOnce'
  BY <1>1 DEF IInv, TypeOK, ReadOnce, Start, serverVars, streamVars, localVars,
     timerVars, callVars
<1>2. ASSUME NEW n \in Nodes, OnHeartbeat(n)
      PROVE  ReadOnce'
  BY <1>2 DEF IInv, TypeOK, ReadOnce, OnHeartbeat, serverVars, streamVars,
     localVars, timerVars, callVars
<1>3. ASSUME NEW n \in Nodes, HeartbeatLoopEnds(n)
      PROVE  ReadOnce'
  BY <1>3 DEF IInv, TypeOK, ReadOnce, HeartbeatLoopEnds, serverVars,
     streamVars, localVars, timerVars, callVars
<1>4. ASSUME NEW n \in Nodes, Expire(n)
      PROVE  ReadOnce'
  BY <1>4 DEF IInv, TypeOK, ReadOnce, Expire, serverVars, streamVars,
     localVars, timerVars, callVars
<1>5. ASSUME NEW n \in Nodes, Crash(n)
      PROVE  ReadOnce'
  BY <1>5 DEF IInv, TypeOK, ReadOnce, Crash, streamVars, localVars, timerVars,
     callVars
<1>6. ASSUME NEW n \in Nodes, LoseReq(n)
      PROVE  ReadOnce'
  BY <1>6 DEF IInv, TypeOK, ReadOnce, LoseReq, nodeVars, streamVars, localVars,
     timerVars, callVars
<1>7. ASSUME NEW n \in Nodes, RecvReq(n)
      PROVE  ReadOnce'
  BY <1>7 DEF IInv, TypeOK, Asked, ReadOnce, RecvReq, nodeVars, streamVars,
     localVars, timerVars, callVars
<1>8. ASSUME NEW n \in Nodes, SendCount(n)
      PROVE  ReadOnce'
  BY <1>8 DEF IInv, TypeOK, ReadOnce, SendCount, Route, Wake, nodeVars,
     streamVars, localVars, timerVars, callVars
<1>9. ASSUME NEW n \in Nodes, SendAnswer(n)
      PROVE  ReadOnce'
  BY <1>9 DEF IInv, TypeOK, ReadOnce, SendAnswer, Route, Wake, nodeVars,
     streamVars, localVars, timerVars, callVars
<1>10. ASSUME NEW n \in Nodes, LoseRes(n)
      PROVE  ReadOnce'
  <2>0. /\ left \in [Nodes -> Nat]
        /\ \/ left' = left
           \/ (left[n] > 0 /\ left' = [left EXCEPT ![n] = left[n] - 1])
        /\ \/ task' = task
           \/ (task[n] = "count" /\ task' = [task EXCEPT ![n] = "answers"])
    BY <1>10 DEF IInv, TypeOK, LoseRes
  <2>1. \A q \in Nodes :
         task'[q] = task[q] \/ (task[q] = "count" /\ task'[q] = "answers")
    BY <2>0 DEF IInv, TypeOK
  <2>2. \A q \in Nodes : left'[q] \in Nat /\ left'[q] <= left[q]
    BY <2>0
  <2> QED
    BY <1>10, <2>1, <2>2 DEF IInv, TypeOK, ReadOnce, LoseRes, nodeVars,
       streamVars, localVars, timerVars, callVars
<1>11. ASSUME NEW n \in Nodes, SendResErr(n)
      PROVE  ReadOnce'
  BY <1>11 DEF IInv, TypeOK, ReadOnce, SendResErr, nodeVars, streamVars,
     localVars, timerVars, callVars
<1>12. CASE Begin
  BY <1>12 DEF IInv, TypeOK, ReadOnce, Begin, serverVars, localVars, timerVars
<1>13. CASE SendReq
  BY <1>13 DEF IInv, TypeOK, ReadOnce, SendReq, nodeVars, streamVars,
     timerVars, callVars
<1>14. CASE SendReqErr
  BY <1>14 DEF IInv, TypeOK, ReadOnce, SendReqErr, nodeVars, serverVars,
     streamVars, localVars, timerVars, callVars
<1>15. CASE DropStream
  BY <1>15 DEF IInv, TypeOK, ReadOnce, DropStream, nodeVars, serverVars,
     streamVars, localVars, timerVars, callVars
<1>16. CASE PollLocal
  BY <1>16 DEF IInv, TypeOK, ReadOnce, PollLocal, nodeVars, serverVars,
     streamVars, timerVars, callVars
<1>17. CASE PollRemote
  BY <1>17 DEF IInv, TypeOK, ReadOnce, PollRemote, nodeVars, serverVars,
     streamVars, localVars, timerVars, callVars
<1>18. CASE StopRemote
  BY <1>18 DEF IInv, TypeOK, ReadOnce, StopRemote, InLoop, Park, nodeVars,
     serverVars, streamVars, localVars, callVars
<1>19. CASE ChannelEmpty
  BY <1>19 DEF IInv, TypeOK, ReadOnce, ChannelEmpty, InLoop, Park, nodeVars,
     serverVars, streamVars, localVars, timerVars, callVars
<1>20. CASE TakeCount
  <2>1. Head(chan) \in Response /\ Fresh(Head(chan))
    BY <1>20, HeadFresh DEF IInv, TypeOK, TakeCount, Receive
  <2> QED
    BY <1>20, <2>1 DEF IInv, TypeOK, ReadOnce, Fresh, Response, TakeCount,
       Receive, InLoop, nodeVars, serverVars, localVars, timerVars, callVars
<1>21. CASE TakeAnswer
  <2>1. Head(chan) \in Response /\ Fresh(Head(chan))
    BY <1>21, HeadFresh DEF IInv, TypeOK, TakeAnswer, Receive
  <2> QED
    BY <1>21, <2>1 DEF IInv, TypeOK, ReadOnce, Fresh, Response, TakeAnswer,
       Receive, InLoop, nodeVars, serverVars, localVars, timerVars, callVars
<1>22. CASE TakeUnexpected
  BY <1>22 DEF IInv, TypeOK, ReadOnce, TakeUnexpected, Receive, InLoop,
     nodeVars, serverVars, streamVars, localVars, timerVars, callVars
<1>23. CASE CollectEnd
  BY <1>23 DEF IInv, TypeOK, ReadOnce, CollectEnd, Polled, nodeVars,
     serverVars, streamVars, localVars, timerVars, callVars
<1>24. CASE CollectNext
  <2>1. Head(chan) \in Response /\ Fresh(Head(chan))
    BY <1>24, HeadFresh DEF IInv, TypeOK, CollectNext
  <2>2. Head(chan).type = "answer"
    BY <1>24, <2>1 DEF Response, Fresh, CollectNext, Polled
  <2> QED
    BY <1>24, <2>1, <2>2 DEF IInv, TypeOK, ReadOnce, Fresh, Response,
       CollectNext, Polled, nodeVars, serverVars, localVars, timerVars,
       callVars
<1>25. CASE CollectPark
  BY <1>25 DEF IInv, TypeOK, ReadOnce, CollectPark, Polled, nodeVars,
     serverVars, streamVars, localVars, timerVars, callVars
<1>26. CASE Elapse
  BY <1>26 DEF IInv, TypeOK, ReadOnce, Elapse, Wake, nodeVars, serverVars,
     streamVars, localVars, callVars
<1>27. CASE LocalAnswer
  BY <1>27 DEF IInv, TypeOK, ReadOnce, LocalAnswer, Wake, nodeVars, serverVars,
     streamVars, timerVars, callVars
<1>28. CASE UNCHANGED vars
  BY <1>28 DEF IInv, TypeOK, ReadOnce, vars
<1> QED
  BY <1>1, <1>2, <1>3, <1>4, <1>5, <1>6, <1>7, <1>8, <1>9, <1>10, <1>11, <1>12,
     <1>13, <1>14, <1>15, <1>16, <1>17, <1>18, <1>19, <1>20, <1>21, <1>22,
     <1>23, <1>24, <1>25, <1>26, <1>27, <1>28 DEF Next, Call, Poll, Cluster,
     Server

\* No response is sent, or put in the channel, twice.
LEMMA ChannelStep == IInv /\ [Next]_vars => ChannelFresh'
<1> SUFFICES ASSUME IInv, [Next]_vars
             PROVE  ChannelFresh'
  OBVIOUS
<1>1. ASSUME NEW n \in Nodes, Start(n)
      PROVE  ChannelFresh'
  <2>1. \A r \in Response : Fresh(r) => Fresh(r)'
    BY <1>1 DEF IInv, TypeOK, Asked, Response, Fresh, Start, serverVars,
       streamVars, localVars, timerVars, callVars
  <2>2. chan' = chan
    BY <1>1 DEF Start
  <2> QED
    BY <2>1, <2>2, ChannelKept DEF IInv, TypeOK
<1>2. ASSUME NEW n \in Nodes, OnHeartbeat(n)
      PROVE  ChannelFresh'
  <2>1. \A r \in Response : Fresh(r) => Fresh(r)'
    BY <1>2 DEF IInv, TypeOK, Asked, Response, Fresh, OnHeartbeat, serverVars,
       streamVars, localVars, timerVars, callVars
  <2>2. chan' = chan
    BY <1>2 DEF OnHeartbeat
  <2> QED
    BY <2>1, <2>2, ChannelKept DEF IInv, TypeOK
<1>3. ASSUME NEW n \in Nodes, HeartbeatLoopEnds(n)
      PROVE  ChannelFresh'
  <2>1. \A r \in Response : Fresh(r) => Fresh(r)'
    BY <1>3 DEF IInv, TypeOK, Asked, Response, Fresh, HeartbeatLoopEnds,
       serverVars, streamVars, localVars, timerVars, callVars
  <2>2. chan' = chan
    BY <1>3 DEF HeartbeatLoopEnds
  <2> QED
    BY <2>1, <2>2, ChannelKept DEF IInv, TypeOK
<1>4. ASSUME NEW n \in Nodes, Expire(n)
      PROVE  ChannelFresh'
  <2>1. \A r \in Response : Fresh(r) => Fresh(r)'
    BY <1>4 DEF IInv, TypeOK, Asked, Response, Fresh, Expire, serverVars,
       streamVars, localVars, timerVars, callVars
  <2>2. chan' = chan
    BY <1>4 DEF Expire
  <2> QED
    BY <2>1, <2>2, ChannelKept DEF IInv, TypeOK
<1>5. ASSUME NEW n \in Nodes, Crash(n)
      PROVE  ChannelFresh'
  <2>1. \A r \in Response : Fresh(r) => Fresh(r)'
    BY <1>5 DEF IInv, TypeOK, Asked, Response, Fresh, Crash, streamVars,
       localVars, timerVars, callVars
  <2>2. chan' = chan
    BY <1>5 DEF Crash
  <2> QED
    BY <2>1, <2>2, ChannelKept DEF IInv, TypeOK
<1>6. ASSUME NEW n \in Nodes, LoseReq(n)
      PROVE  ChannelFresh'
  <2>1. \A r \in Response : Fresh(r) => Fresh(r)'
    BY <1>6 DEF IInv, TypeOK, Asked, Response, Fresh, LoseReq, nodeVars,
       streamVars, localVars, timerVars, callVars
  <2>2. chan' = chan
    BY <1>6 DEF LoseReq
  <2> QED
    BY <2>1, <2>2, ChannelKept DEF IInv, TypeOK
<1>7. ASSUME NEW n \in Nodes, RecvReq(n)
      PROVE  ChannelFresh'
  <2>1. \A r \in Response : Fresh(r) => Fresh(r)'
    BY <1>7 DEF IInv, TypeOK, Asked, Response, Fresh, RecvReq, nodeVars,
       streamVars, localVars, timerVars, callVars
  <2>2. chan' = chan
    BY <1>7 DEF RecvReq
  <2> QED
    BY <2>1, <2>2, ChannelKept DEF IInv, TypeOK
<1>8. ASSUME NEW n \in Nodes, SendCount(n)
      PROVE  ChannelFresh'
  <2>1. PICK r \in Response : r = Count(n, size[n])
    BY <1>8 DEF IInv, TypeOK, Response, Count, SendCount
  <2>2. r.type = "count" /\ r.from = n /\ r.val = size[n]
    BY <2>1 DEF Count
  <2>3. ~Fresh(r)
    BY <1>8, <2>2 DEF IInv, TypeOK, Fresh, SendCount
  <2>4. Fresh(r)'
    BY <1>8, <2>2 DEF IInv, TypeOK, Asked, ReadOnce, Fresh, SendCount,
       nodeVars, streamVars, localVars, timerVars, callVars
  <2>5. \A s \in Response : Fresh(s) => Fresh(s)'
    BY <1>8 DEF IInv, TypeOK, Response, Fresh, SendCount, nodeVars, streamVars,
       localVars, timerVars, callVars
  <2>6. CASE chan' = chan
    BY <2>5, <2>6, ChannelKept DEF IInv, TypeOK
  <2>7. CASE chan' = Append(chan, r)
    BY <2>3, <2>4, <2>5, <2>7, ChannelSent DEF IInv, TypeOK
  <2> QED
    BY <1>8, <2>1, <2>6, <2>7 DEF SendCount, Route
<1>9. ASSUME NEW n \in Nodes, SendAnswer(n)
      PROVE  ChannelFresh'
  <2>1. PICK r \in Response : r = Answer(n, left[n])
    BY <1>9 DEF IInv, TypeOK, Response, Answer, SendAnswer
  <2>2. r.type = "answer" /\ r.from = n /\ r.val = left[n]
    BY <2>1 DEF Answer
  <2>3. ~Fresh(r)
    BY <1>9, <2>2 DEF IInv, TypeOK, Fresh, SendAnswer
  <2>4. Fresh(r)'
    BY <1>9, <2>2 DEF IInv, TypeOK, Asked, ReadOnce, Fresh, SendAnswer,
       nodeVars, streamVars, localVars, timerVars, callVars
  <2>5. \A s \in Response : Fresh(s) => Fresh(s)'
    BY <1>9 DEF IInv, TypeOK, Response, Fresh, SendAnswer, nodeVars,
       streamVars, localVars, timerVars, callVars
  <2>6. CASE chan' = chan
    BY <2>5, <2>6, ChannelKept DEF IInv, TypeOK
  <2>7. CASE chan' = Append(chan, r)
    BY <2>3, <2>4, <2>5, <2>7, ChannelSent DEF IInv, TypeOK
  <2> QED
    BY <1>9, <2>1, <2>6, <2>7 DEF SendAnswer, Route
<1>10. ASSUME NEW n \in Nodes, LoseRes(n)
      PROVE  ChannelFresh'
  <2>0. /\ left \in [Nodes -> Nat]
        /\ \/ left' = left
           \/ (left[n] > 0 /\ left' = [left EXCEPT ![n] = left[n] - 1])
        /\ \/ task' = task
           \/ (task[n] = "count" /\ task' = [task EXCEPT ![n] = "answers"])
    BY <1>10 DEF IInv, TypeOK, LoseRes
  <2>1. \A q \in Nodes :
         task'[q] = task[q] \/ (task[q] = "count" /\ task'[q] = "answers")
    BY <2>0 DEF IInv, TypeOK
  <2>2. \A q \in Nodes : left'[q] \in Nat /\ left'[q] <= left[q]
    BY <2>0
  <2>3. \A r \in Response : Fresh(r) => Fresh(r)'
    BY <1>10, <2>1, <2>2 DEF IInv, TypeOK, Asked, Response, Fresh, LoseRes,
       nodeVars, streamVars, localVars, timerVars, callVars
  <2>4. chan' = chan
    BY <1>10 DEF LoseRes
  <2> QED
    BY <2>3, <2>4, ChannelKept DEF IInv, TypeOK
<1>11. ASSUME NEW n \in Nodes, SendResErr(n)
      PROVE  ChannelFresh'
  <2>1. \A r \in Response : Fresh(r) => Fresh(r)'
    BY <1>11 DEF IInv, TypeOK, Asked, Response, Fresh, SendResErr, nodeVars,
       streamVars, localVars, timerVars, callVars
  <2>2. chan' = chan
    BY <1>11 DEF SendResErr
  <2> QED
    BY <2>1, <2>2, ChannelKept DEF IInv, TypeOK
<1>12. CASE Begin
  <2>1. \A r \in Response : Fresh(r) => Fresh(r)'
    BY <1>12 DEF IInv, TypeOK, Asked, Response, Fresh, Begin, serverVars,
       localVars, timerVars
  <2>2. chan' = chan
    BY <1>12 DEF Begin
  <2> QED
    BY <2>1, <2>2, ChannelKept DEF IInv, TypeOK
<1>13. CASE SendReq
  <2>1. \A r \in Response : Fresh(r) => Fresh(r)'
    BY <1>13 DEF IInv, TypeOK, Asked, Response, Fresh, SendReq, nodeVars,
       streamVars, timerVars, callVars
  <2>2. chan' = chan
    BY <1>13 DEF SendReq
  <2> QED
    BY <2>1, <2>2, ChannelKept DEF IInv, TypeOK
<1>14. CASE SendReqErr
  <2>1. \A r \in Response : Fresh(r) => Fresh(r)'
    BY <1>14 DEF IInv, TypeOK, Asked, Response, Fresh, SendReqErr, nodeVars,
       serverVars, streamVars, localVars, timerVars, callVars
  <2>2. chan' = chan
    BY <1>14 DEF SendReqErr
  <2> QED
    BY <2>1, <2>2, ChannelKept DEF IInv, TypeOK
<1>15. CASE DropStream
  BY <1>15 DEF ChannelFresh, DropStream
<1>16. CASE PollLocal
  <2>1. \A r \in Response : Fresh(r) => Fresh(r)'
    BY <1>16 DEF IInv, TypeOK, Asked, Response, Fresh, PollLocal, nodeVars,
       serverVars, streamVars, timerVars, callVars
  <2>2. chan' = chan
    BY <1>16 DEF PollLocal
  <2> QED
    BY <2>1, <2>2, ChannelKept DEF IInv, TypeOK
<1>17. CASE PollRemote
  <2>1. \A r \in Response : Fresh(r) => Fresh(r)'
    BY <1>17 DEF IInv, TypeOK, Asked, Response, Fresh, PollRemote, nodeVars,
       serverVars, streamVars, localVars, timerVars, callVars
  <2>2. chan' = chan
    BY <1>17 DEF PollRemote
  <2> QED
    BY <2>1, <2>2, ChannelKept DEF IInv, TypeOK
<1>18. CASE StopRemote
  <2>1. \A r \in Response : Fresh(r) => Fresh(r)'
    BY <1>18 DEF IInv, TypeOK, Asked, Response, Fresh, StopRemote, InLoop,
       Park, nodeVars, serverVars, streamVars, localVars, callVars
  <2>2. chan' = chan
    BY <1>18 DEF StopRemote
  <2> QED
    BY <2>1, <2>2, ChannelKept DEF IInv, TypeOK
<1>19. CASE ChannelEmpty
  <2>1. \A r \in Response : Fresh(r) => Fresh(r)'
    BY <1>19 DEF IInv, TypeOK, Asked, Response, Fresh, ChannelEmpty, InLoop,
       Park, nodeVars, serverVars, streamVars, localVars, timerVars, callVars
  <2>2. chan' = chan
    BY <1>19 DEF ChannelEmpty
  <2> QED
    BY <2>1, <2>2, ChannelKept DEF IInv, TypeOK
<1>20. CASE TakeCount
  <2>1. Head(chan) \in Response /\ Fresh(Head(chan))
    BY <1>20, HeadFresh DEF IInv, TypeOK, TakeCount, Receive
  <2>2. \A s \in Response : s # Head(chan) /\ Fresh(s) => Fresh(s)'
    <3> SUFFICES ASSUME NEW s \in Response, s # Head(chan), Fresh(s),
                        s.type = "count", s.from = Head(chan).from
                 PROVE  FALSE
      BY <1>20 DEF IInv, TypeOK, Response, Fresh, TakeCount, InLoop, nodeVars,
         serverVars, localVars, timerVars, callVars, Receive
    <3> QED
      BY <1>20, <2>1, ResponseEqual DEF Fresh, TakeCount, Receive
  <2>3. chan # << >> /\ chan' = Tail(chan)
    BY <1>20 DEF TakeCount, Receive
  <2> QED
    BY <2>2, <2>3, ChannelRead DEF IInv, TypeOK
<1>21. CASE TakeAnswer
  <2>1. Head(chan) \in Response /\ Fresh(Head(chan))
    BY <1>21, HeadFresh DEF IInv, TypeOK, TakeAnswer, Receive
  <2>2. \A s \in Response : s # Head(chan) /\ Fresh(s) => Fresh(s)'
    BY <1>21, <2>1, ResponseEqual DEF IInv, TypeOK, Response, Fresh,
       TakeAnswer, InLoop, nodeVars, serverVars, localVars, timerVars,
       callVars, Receive
  <2>3. chan # << >> /\ chan' = Tail(chan)
    BY <1>21 DEF TakeAnswer, Receive
  <2> QED
    BY <2>2, <2>3, ChannelRead DEF IInv, TypeOK
<1>22. CASE TakeUnexpected
  <2>1. Head(chan) \in Response /\ Fresh(Head(chan))
    BY <1>22, HeadFresh DEF IInv, TypeOK, TakeUnexpected, Receive
  <2>2. \A s \in Response : s # Head(chan) /\ Fresh(s) => Fresh(s)'
    BY <1>22, <2>1, ResponseEqual DEF IInv, TypeOK, Response, Fresh,
       TakeUnexpected, InLoop, nodeVars, serverVars, streamVars, localVars,
       timerVars, callVars, Receive
  <2>3. chan # << >> /\ chan' = Tail(chan)
    BY <1>22 DEF TakeUnexpected, Receive
  <2> QED
    BY <2>2, <2>3, ChannelRead DEF IInv, TypeOK
<1>23. CASE CollectEnd
  <2>1. \A r \in Response : Fresh(r) => Fresh(r)'
    BY <1>23 DEF IInv, TypeOK, Asked, Response, Fresh, CollectEnd, Polled,
       nodeVars, serverVars, streamVars, localVars, timerVars, callVars
  <2>2. chan' = chan
    BY <1>23 DEF CollectEnd
  <2> QED
    BY <2>1, <2>2, ChannelKept DEF IInv, TypeOK
<1>24. CASE CollectNext
  <2>1. Head(chan) \in Response /\ Fresh(Head(chan))
    BY <1>24, HeadFresh DEF IInv, TypeOK, CollectNext
  <2>2. \A s \in Response : s # Head(chan) /\ Fresh(s) => Fresh(s)'
    BY <1>24, <2>1, ResponseEqual DEF IInv, TypeOK, Response, Fresh,
       CollectNext, Polled, nodeVars, serverVars, localVars, timerVars,
       callVars
  <2>3. chan # << >> /\ chan' = Tail(chan)
    BY <1>24 DEF CollectNext
  <2> QED
    BY <2>2, <2>3, ChannelRead DEF IInv, TypeOK
<1>25. CASE CollectPark
  <2>1. \A r \in Response : Fresh(r) => Fresh(r)'
    BY <1>25 DEF IInv, TypeOK, Asked, Response, Fresh, CollectPark, Polled,
       nodeVars, serverVars, streamVars, localVars, timerVars, callVars
  <2>2. chan' = chan
    BY <1>25 DEF CollectPark
  <2> QED
    BY <2>1, <2>2, ChannelKept DEF IInv, TypeOK
<1>26. CASE Elapse
  <2>1. \A r \in Response : Fresh(r) => Fresh(r)'
    BY <1>26 DEF IInv, TypeOK, Asked, Response, Fresh, Elapse, nodeVars,
       serverVars, streamVars, localVars, callVars
  <2>2. chan' = chan
    BY <1>26 DEF Elapse
  <2> QED
    BY <2>1, <2>2, ChannelKept DEF IInv, TypeOK
<1>27. CASE LocalAnswer
  <2>1. \A r \in Response : Fresh(r) => Fresh(r)'
    BY <1>27 DEF IInv, TypeOK, Asked, Response, Fresh, LocalAnswer, nodeVars,
       serverVars, streamVars, timerVars, callVars
  <2>2. chan' = chan
    BY <1>27 DEF LocalAnswer
  <2> QED
    BY <2>1, <2>2, ChannelKept DEF IInv, TypeOK
<1>28. CASE UNCHANGED vars
  <2>1. \A r \in Response : Fresh(r) => Fresh(r)'
    BY <1>28 DEF Fresh, vars
  <2> QED
    BY <1>28, <2>1, ChannelKept DEF IInv, TypeOK, vars
<1> QED
  BY <1>1, <1>2, <1>3, <1>4, <1>5, <1>6, <1>7, <1>8, <1>9, <1>10, <1>11, <1>12,
     <1>13, <1>14, <1>15, <1>16, <1>17, <1>18, <1>19, <1>20, <1>21, <1>22,
     <1>23, <1>24, <1>25, <1>26, <1>27, <1>28 DEF Next, Call, Poll, Cluster,
     Server

-----------------------------------------------------------------------------
(* The counters                                                            *)

\* A step that reads no response leaves the counters right.
LEMMA CountersFrame ==
  ASSUME Finite, Counters,
         UNCHANGED <<streamVars, callVars>>, pc' = "idle" <=> pc = "idle",
         \A n \in counted : size'[n] = size[n]
  PROVE  Finite' /\ Counters'
<1>1. AnswersOf(counted)' = AnswersOf(counted)
  BY DEF AnswersOf, streamVars
<1>2. /\ got' = got /\ counted' = counted /\ kind' = kind
      /\ expected' = expected
      /\ servCnt' = servCnt /\ ackCnt' = ackCnt
  BY DEF streamVars, callVars
<1> QED
  BY <1>1, <1>2 DEF Finite, Counters, Accounted

\* A response that is read moves both sides of the counters by as much.
LEMMA CountersStep == IInv /\ [Next]_vars => Finite' /\ Counters'
<1> SUFFICES ASSUME IInv, [Next]_vars
             PROVE  Finite' /\ Counters'
  OBVIOUS
<1>1. ASSUME NEW n \in Nodes, Start(n)
      PROVE  Finite' /\ Counters'
  <2>1. /\ UNCHANGED <<streamVars, callVars, size>>
        /\ (pc' = "idle" <=> pc = "idle")
    BY <1>1 DEF Start, serverVars, streamVars, callVars
  <2> QED
    BY <2>1, CountersFrame DEF IInv
<1>2. ASSUME NEW n \in Nodes, OnHeartbeat(n)
      PROVE  Finite' /\ Counters'
  <2>1. /\ UNCHANGED <<streamVars, callVars, size>>
        /\ (pc' = "idle" <=> pc = "idle")
    BY <1>2 DEF OnHeartbeat, serverVars, streamVars, callVars
  <2> QED
    BY <2>1, CountersFrame DEF IInv
<1>3. ASSUME NEW n \in Nodes, HeartbeatLoopEnds(n)
      PROVE  Finite' /\ Counters'
  <2>1. /\ UNCHANGED <<streamVars, callVars, size>>
        /\ (pc' = "idle" <=> pc = "idle")
    BY <1>3 DEF HeartbeatLoopEnds, serverVars, streamVars, callVars
  <2> QED
    BY <2>1, CountersFrame DEF IInv
<1>4. ASSUME NEW n \in Nodes, Expire(n)
      PROVE  Finite' /\ Counters'
  <2>1. /\ UNCHANGED <<streamVars, callVars, size>>
        /\ (pc' = "idle" <=> pc = "idle")
    BY <1>4 DEF Expire, serverVars, streamVars, callVars
  <2> QED
    BY <2>1, CountersFrame DEF IInv
<1>5. ASSUME NEW n \in Nodes, Crash(n)
      PROVE  Finite' /\ Counters'
  <2>1. /\ UNCHANGED <<streamVars, callVars, size>>
        /\ (pc' = "idle" <=> pc = "idle")
    BY <1>5 DEF Crash, streamVars, callVars
  <2> QED
    BY <2>1, CountersFrame DEF IInv
<1>6. ASSUME NEW n \in Nodes, LoseReq(n)
      PROVE  Finite' /\ Counters'
  <2>1. /\ UNCHANGED <<streamVars, callVars, size>>
        /\ (pc' = "idle" <=> pc = "idle")
    BY <1>6 DEF LoseReq, streamVars, callVars
  <2> QED
    BY <2>1, CountersFrame DEF IInv
<1>7. ASSUME NEW n \in Nodes, RecvReq(n)
      PROVE  Finite' /\ Counters'
  <2>1. \A q \in counted : size'[q] = size[q]
    BY <1>7 DEF IInv, TypeOK, Asked, ReadOnce, RecvReq
  <2>2. UNCHANGED <<streamVars, callVars>> /\ pc' = pc
    BY <1>7 DEF RecvReq
  <2> QED
    BY <2>1, <2>2, CountersFrame DEF IInv
<1>8. ASSUME NEW n \in Nodes, SendCount(n)
      PROVE  Finite' /\ Counters'
  <2>1. /\ UNCHANGED <<streamVars, callVars, size>>
        /\ (pc' = "idle" <=> pc = "idle")
    BY <1>8 DEF SendCount, Route, Wake, streamVars, callVars
  <2> QED
    BY <2>1, CountersFrame DEF IInv
<1>9. ASSUME NEW n \in Nodes, SendAnswer(n)
      PROVE  Finite' /\ Counters'
  <2>1. /\ UNCHANGED <<streamVars, callVars, size>>
        /\ (pc' = "idle" <=> pc = "idle")
    BY <1>9 DEF SendAnswer, Route, Wake, streamVars, callVars
  <2> QED
    BY <2>1, CountersFrame DEF IInv
<1>10. ASSUME NEW n \in Nodes, LoseRes(n)
      PROVE  Finite' /\ Counters'
  <2>1. /\ UNCHANGED <<streamVars, callVars, size>>
        /\ (pc' = "idle" <=> pc = "idle")
    BY <1>10 DEF LoseRes, streamVars, callVars
  <2> QED
    BY <2>1, CountersFrame DEF IInv
<1>11. ASSUME NEW n \in Nodes, SendResErr(n)
      PROVE  Finite' /\ Counters'
  <2>1. /\ UNCHANGED <<streamVars, callVars, size>>
        /\ (pc' = "idle" <=> pc = "idle")
    BY <1>11 DEF SendResErr, streamVars, callVars
  <2> QED
    BY <2>1, CountersFrame DEF IInv
<1>12. CASE Begin
  <2>1. /\ counted = {} /\ got = {} /\ counted' = counted /\ got' = got
        /\ servCnt' = expected' /\ ackCnt' = ackCnt /\ kind' = kind
        /\ pc' # "idle"
        /\ size' = size
    BY <1>12 DEF IInv, Counters, Begin, serverVars
  <2>2. AnswersOf(counted)' = AnswersOf(counted)
    BY <2>1 DEF AnswersOf
  <2>3. expected' \in Nat
    BY <1>12, NodesFinite DEF Begin, Unexpired
  <2>4. Cardinality(got) = 0 /\ Cardinality(counted) = 0
    BY <2>1, FS_EmptySet
  <2>5. Finite'
    BY <2>1, <2>2 DEF IInv, Finite
  <2> QED
    BY <2>1, <2>2, <2>3, <2>4, <2>5 DEF IInv, Counters, Accounted
<1>13. CASE SendReq
  <2>1. /\ UNCHANGED <<streamVars, callVars, size>>
        /\ (pc' = "idle" <=> pc = "idle")
    BY <1>13 DEF SendReq, streamVars, callVars
  <2> QED
    BY <2>1, CountersFrame DEF IInv
<1>14. CASE SendReqErr
  <2>1. /\ UNCHANGED <<streamVars, callVars, size>>
        /\ (pc' = "idle" <=> pc = "idle")
    BY <1>14 DEF SendReqErr, serverVars, streamVars, callVars
  <2> QED
    BY <2>1, CountersFrame DEF IInv
<1>15. CASE DropStream
  <2>1. /\ UNCHANGED <<streamVars, callVars, size>>
        /\ (pc' = "idle" <=> pc = "idle")
    BY <1>15 DEF DropStream, serverVars, streamVars, callVars
  <2> QED
    BY <2>1, CountersFrame DEF IInv
<1>16. CASE PollLocal
  <2>1. /\ UNCHANGED <<streamVars, callVars, size>>
        /\ (pc' = "idle" <=> pc = "idle")
    BY <1>16 DEF PollLocal, serverVars, streamVars, callVars
  <2> QED
    BY <2>1, CountersFrame DEF IInv
<1>17. CASE PollRemote
  <2>1. /\ UNCHANGED <<streamVars, callVars, size>>
        /\ (pc' = "idle" <=> pc = "idle")
    BY <1>17 DEF PollRemote, serverVars, streamVars, callVars
  <2> QED
    BY <2>1, CountersFrame DEF IInv
<1>18. CASE StopRemote
  <2>1. /\ UNCHANGED <<streamVars, callVars, size>>
        /\ (pc' = "idle" <=> pc = "idle")
    BY <1>18 DEF StopRemote, InLoop, Park, serverVars, streamVars, callVars
  <2> QED
    BY <2>1, CountersFrame DEF IInv
<1>19. CASE ChannelEmpty
  <2>1. /\ UNCHANGED <<streamVars, callVars, size>>
        /\ (pc' = "idle" <=> pc = "idle")
    BY <1>19 DEF ChannelEmpty, InLoop, Park, serverVars, streamVars, callVars
  <2> QED
    BY <2>1, CountersFrame DEF IInv
<1>20. CASE TakeCount
  <2> DEFINE n == Head(chan).from
  <2>1. /\ Head(chan) \in Response /\ Fresh(Head(chan))
        /\ Head(chan).type = "count"
    BY <1>20, HeadFresh DEF IInv, TypeOK, TakeCount, Receive
  <2>2. /\ n \in Nodes /\ n \notin counted /\ Head(chan).val = size[n]
        /\ size[n] \in Nat
    BY <2>1 DEF IInv, TypeOK, Fresh, Response
  <2>3. /\ counted' = counted \cup {n} /\ got' = got /\ size' = size
        /\ kind' = kind /\ kind = "ack" /\ pc' = pc /\ pc = "open"
        /\ expected' = expected
        /\ ackCnt' = ackCnt + size[n] /\ servCnt' = servCnt - 1
        /\ servCnt \in Nat /\ ackCnt \in Nat /\ expected \in Nat
    BY <1>20, <2>2 DEF IInv, TypeOK, TakeCount, Receive, InLoop, serverVars,
       callVars
  <2> HIDE DEF n
  <2>4. /\ IsFiniteSet(AnswersOf(counted \cup {n}))
        /\ Cardinality(AnswersOf(counted \cup {n}))
             = Cardinality(AnswersOf(counted)) + size[n]
    BY <2>2, AnswersAdded DEF IInv, Finite
  <2>5. AnswersOf(counted)' = AnswersOf(counted \cup {n})
    BY <2>3 DEF AnswersOf
  <2>6. IsFiniteSet(counted) /\ Cardinality(counted) \in Nat
    BY NodesFinite DEF IInv, TypeOK
  <2>7. Cardinality(counted') = Cardinality(counted) + 1
    BY <2>2, <2>3, <2>6, FS_AddElement
  <2>8. Cardinality(got) \in Nat /\ Cardinality(AnswersOf(counted)) \in Nat
    BY FS_CardinalityType DEF IInv, Finite
  <2>9. Finite'
    BY <2>3, <2>4, <2>5 DEF IInv, Finite
  <2>10. servCnt' + Cardinality(counted') = expected'
    BY <2>3, <2>6, <2>7 DEF IInv, Counters
  <2>11. ackCnt' + Cardinality(got') = Cardinality(AnswersOf(counted)')
    BY <2>2, <2>3, <2>4, <2>5, <2>8 DEF IInv, Counters, Accounted
  <2> QED
    BY <2>3, <2>9, <2>10, <2>11 DEF Counters, Accounted
<1>21. CASE TakeAnswer
  <2> DEFINE x == <<Head(chan).from, Head(chan).val>>
  <2>1. Head(chan) \in Response /\ Fresh(Head(chan))
    BY <1>21, HeadFresh DEF IInv, TypeOK, TakeAnswer, Receive, InLoop
  <2>2. /\ kind = "ack" /\ kind' = kind /\ pc' = pc /\ pc = "open"
        /\ expected' = expected /\ counted' = counted /\ size' = size
        /\ got' = got \cup {x} /\ ackCnt' = ackCnt - 1 /\ servCnt' = servCnt
        /\ servCnt \in Nat /\ ackCnt \in Nat
    BY <1>21 DEF IInv, TypeOK, TakeAnswer, Receive, InLoop, serverVars,
       callVars
  <2>3. x \notin got
    <3>1. Head(chan).type = "answer"
      BY <1>21, <2>1, <2>2 DEF Response, Fresh, TakeAnswer, Receive, InLoop
    <3> QED
      BY <2>1, <3>1 DEF Fresh
  <2> HIDE DEF x
  <2>4. /\ IsFiniteSet(got \cup {x})
        /\ Cardinality(got \cup {x}) = Cardinality(got) + 1
    BY <2>3, FS_AddElement DEF IInv, Finite
  <2>5. Cardinality(got) \in Nat /\ Cardinality(AnswersOf(counted)) \in Nat
    BY FS_CardinalityType DEF IInv, Finite
  <2>6. AnswersOf(counted)' = AnswersOf(counted)
    BY <2>2 DEF AnswersOf
  <2>7. Cardinality(got') = Cardinality(got) + 1
    BY <2>2, <2>4
  <2>8. Finite'
    BY <2>2, <2>4, <2>6 DEF IInv, Finite
  <2> QED
    BY <2>2, <2>5, <2>6, <2>7, <2>8 DEF IInv, Counters, Accounted
<1>22. CASE TakeUnexpected
  <2>1. /\ UNCHANGED <<streamVars, callVars, size>>
        /\ (pc' = "idle" <=> pc = "idle")
    BY <1>22 DEF TakeUnexpected, Receive, InLoop, serverVars, streamVars,
       callVars
  <2> QED
    BY <2>1, CountersFrame DEF IInv
<1>23. CASE CollectEnd
  <2>1. /\ UNCHANGED <<streamVars, callVars, size>>
        /\ (pc' = "idle" <=> pc = "idle")
    BY <1>23 DEF CollectEnd, Polled, serverVars, streamVars, callVars
  <2> QED
    BY <2>1, CountersFrame DEF IInv
<1>24. CASE CollectNext
  <2> DEFINE x == <<Head(chan).from, Head(chan).val>>
  <2>1. Head(chan) \in Response /\ Fresh(Head(chan))
    BY <1>24, HeadFresh DEF IInv, TypeOK, CollectNext, Polled
  <2>2. /\ kind = "collect" /\ kind' = kind /\ pc' = pc /\ pc = "open"
        /\ expected' = expected /\ counted' = counted /\ size' = size
        /\ got' = got \cup {x} /\ servCnt' = servCnt - 1 /\ ackCnt' = ackCnt
        /\ servCnt \in Nat /\ ackCnt \in Nat
    BY <1>24 DEF IInv, TypeOK, CollectNext, Polled, serverVars, callVars
  <2>3. x \notin got
    <3>1. Head(chan).type = "answer"
      BY <1>24, <2>1, <2>2 DEF Response, Fresh, CollectNext, Polled
    <3> QED
      BY <2>1, <3>1 DEF Fresh
  <2> HIDE DEF x
  <2>4. /\ IsFiniteSet(got \cup {x})
        /\ Cardinality(got \cup {x}) = Cardinality(got) + 1
    BY <2>3, FS_AddElement DEF IInv, Finite
  <2>5. Cardinality(got) \in Nat /\ Cardinality(AnswersOf(counted)) \in Nat
    BY FS_CardinalityType DEF IInv, Finite
  <2>6. AnswersOf(counted)' = AnswersOf(counted)
    BY <2>2 DEF AnswersOf
  <2>7. Cardinality(got') = Cardinality(got) + 1
    BY <2>2, <2>4
  <2>8. Finite'
    BY <2>2, <2>4, <2>6 DEF IInv, Finite
  <2> QED
    BY <2>2, <2>5, <2>6, <2>7, <2>8 DEF IInv, Counters, Accounted
<1>25. CASE CollectPark
  <2>1. /\ UNCHANGED <<streamVars, callVars, size>>
        /\ (pc' = "idle" <=> pc = "idle")
    BY <1>25 DEF CollectPark, Polled, serverVars, streamVars, callVars
  <2> QED
    BY <2>1, CountersFrame DEF IInv
<1>26. CASE Elapse
  <2>1. /\ UNCHANGED <<streamVars, callVars, size>>
        /\ (pc' = "idle" <=> pc = "idle")
    BY <1>26 DEF Elapse, Wake, serverVars, streamVars, callVars
  <2> QED
    BY <2>1, CountersFrame DEF IInv
<1>27. CASE LocalAnswer
  <2>1. /\ UNCHANGED <<streamVars, callVars, size>>
        /\ (pc' = "idle" <=> pc = "idle")
    BY <1>27 DEF LocalAnswer, Wake, serverVars, streamVars, callVars
  <2> QED
    BY <2>1, CountersFrame DEF IInv
<1>28. CASE UNCHANGED vars
  <2>1. /\ UNCHANGED <<streamVars, callVars, size>>
        /\ (pc' = "idle" <=> pc = "idle")
    BY <1>28 DEF vars, streamVars, callVars
  <2> QED
    BY <2>1, CountersFrame DEF IInv
<1> QED
  BY <1>1, <1>2, <1>3, <1>4, <1>5, <1>6, <1>7, <1>8, <1>9, <1>10, <1>11, <1>12,
     <1>13, <1>14, <1>15, <1>16, <1>17, <1>18, <1>19, <1>20, <1>21, <1>22,
     <1>23, <1>24, <1>25, <1>26, <1>27, <1>28 DEF Next, Call, Poll, Cluster,
     Server

-----------------------------------------------------------------------------
(* The theorems                                                            *)

\* The invariant, which every reachable state satisfies.
THEOREM Invariance == Spec => []IInv
<1>1. IInv /\ [Next]_vars => IInv'
  BY TypeStep, OwnedStep, AskedStep, ChannelStep, ReadOnceStep, CountersStep
     DEF IInv
<1> QED
  BY InitInv, <1>1, PTL DEF Spec

\* Every variable keeps its type, for any cluster and any number of answers.
THEOREM TypeCorrect == Spec => []TypeOK
BY Invariance, PTL DEF IInv

\* The entry of a request in the table of handlers goes exactly when nobody
\* reads its responses any more (DropStream).
THEOREM HandlerRemoved == Spec => []HandlerOwned
BY Invariance, PTL DEF IInv

\* No answer is taken for another one: ack_cnt and serv_cnt are what was
\* announced less what was given.
THEOREM AnswersAccounted == Spec => []Accounted
<1>1. IInv => Accounted
  BY DEF IInv, Counters
<1> QED
  BY <1>1, Invariance, PTL

\* In a collecting request every server gives its one answer.
LEMMA OneAnswerEach ==
  ASSUME TypeOK, Asked, kind = "collect"
  PROVE  /\ IsFiniteSet(AnswersOf(received))
         /\ Cardinality(AnswersOf(received)) <= Cardinality(received)
<1> DEFINE f == [n \in received |-> <<n, 1>>]
<1>1. AnswersOf(received) = {<<n, 1>> : n \in received}
  <2>1. \A n \in received : 1..size[n] = {1}
    BY DEF TypeOK, Asked
  <2> QED
    BY <2>1 DEF AnswersOf
<1>2. f \in Surjection(received, AnswersOf(received))
  BY <1>1 DEF Surjection
<1>3. IsFiniteSet(received)
  BY NodesFinite DEF TypeOK
<1> QED
  BY <1>2, <1>3, FS_Surjection

\* A stream that ends before its timeout has yielded every answer of every
\* server that got the request, if no more servers got it than were counted:
\* whatever was lost, late or crashed (serv_cnt and ack_cnt of AckStream, take
\* of wait_responses).
THEOREM EndIsComplete == Spec => []EarlyEndComplete
<1>1. IInv => EarlyEndComplete
  <2> SUFFICES ASSUME IInv, pc = "ended", ~elapsed,
                      Cardinality(received) <= expected
               PROVE  got = AnswersOf(received)
    BY DEF EarlyEndComplete
  <2>1. got \subseteq AnswersOf(received)
    <3> SUFFICES ASSUME NEW p \in got
                 PROVE  p \in AnswersOf(received)
      OBVIOUS
    <3>1. /\ p \in Nodes \X Nat /\ p[1] \in received /\ left[p[1]] < p[2]
          /\ p[2] <= size[p[1]]
      BY DEF IInv, TypeOK, ReadOnce
    <3>2. p = <<p[1], p[2]>> /\ p[2] \in 1..size[p[1]]
      BY <3>1 DEF IInv, TypeOK
    <3> QED
      BY <3>1, <3>2 DEF AnswersOf
  <2>2. IsFiniteSet(received) /\ Cardinality(received) \in Nat
    BY NodesFinite DEF IInv, TypeOK
  <2>3. IsFiniteSet(got) /\ Cardinality(got) \in Nat
    BY FS_CardinalityType DEF IInv, Finite
  <2>4. expected \in Nat
    BY DEF IInv, TypeOK
  <2>5. CASE kind = "ack"
    <3>1. servCnt = 0 /\ ackCnt = 0
      BY <2>5 DEF IInv, Ending
    <3>2. /\ IsFiniteSet(counted) /\ Cardinality(counted) \in Nat
          /\ counted \subseteq received
      BY NodesFinite DEF IInv, TypeOK, ReadOnce
    <3>3. Cardinality(counted) = expected
      BY <2>5, <3>1, <3>2 DEF IInv, Counters
    <3>4. Cardinality(counted) <= Cardinality(received)
      BY <2>2, <3>2, FS_Subset
    <3>5. counted = received
      BY <2>2, <3>2, <3>3, <3>4, <2>4, FS_Subset
    <3>6. Cardinality(got) = Cardinality(AnswersOf(received))
      BY <2>3, <2>5, <3>1, <3>5 DEF IInv, Counters, Accounted
    <3> QED
      BY <2>1, <3>5, <3>6, FS_Subset DEF IInv, Finite
  <2>6. CASE kind = "collect"
    <3>1. Cardinality(got) = expected
      BY <2>3, <2>4, <2>6 DEF IInv, Ending, Counters, Accounted
    <3>2. /\ IsFiniteSet(AnswersOf(received))
          /\ Cardinality(AnswersOf(received)) <= Cardinality(received)
      BY <2>6, OneAnswerEach DEF IInv
    <3>3. /\ Cardinality(AnswersOf(received)) \in Nat
          /\ Cardinality(got) <= Cardinality(AnswersOf(received))
      BY <2>1, <3>2, FS_Subset, FS_CardinalityType
    <3>4. Cardinality(got) = Cardinality(AnswersOf(received))
      BY <2>2, <2>3, <2>4, <3>1, <3>2, <3>3
    <3> QED
      BY <2>1, <3>2, <3>4, FS_Subset
  <2> QED
    BY <2>5, <2>6 DEF IInv, TypeOK
<1> QED
  BY <1>1, Invariance, PTL

=============================================================================
