---------------------------- MODULE NamespaceProofs ----------------------------
(***************************************************************************)
(* Proofs about Namespace, for every set of sessions, attempts and tasks:  *)
(* the inductive invariant IInv, the exclusion the connecting guard gives, *)
(* that no insertion replaces a socket, the refinement of Membership, and  *)
(* the life of a socket: handlers, answers, leaks of sockets and rooms.    *)
(***************************************************************************)
EXTENDS Namespace, TLAPS

\* The variables that MapOK, GuardExclusive and the refinement speak about.
core == <<sid, conn, connecting, sockets>>

\* The steps that leave these variables alone.
Other ==
  \/ \E t \in Tasks : \/ ClearConnected(t) \/ TakeHandler(t) \/ ExtractErr(t)
                      \/ NoHandler(t) \/ HandlerDone(t) \/ LeaveRooms(t)
  \/ \E s \in Sids : CloseSession(s) \/ Stall(s) \/ EngineStep(s)
  \/ \E s \in Sids, t \in Workers : RecvDisconnect(s, t)
  \/ \E c \in Conns, t \in Workers : Disconnect(c, t)
  \/ \E c \in Conns : Join(c) \/ OnDisconnectHandler(c)
  \/ DeleteNs \/ CloseServer \/ AdminStep

LEMMA OtherKeepsCore == Other => UNCHANGED core
  BY DEF Other, core, ClearConnected, TakeHandler, ExtractErr, NoHandler,
     HandlerDone, LeaveRooms, CloseSession, EngineStep, Stall, CloseChannel,
     OnDisconnect, RecvDisconnect, Disconnect, Join, OnDisconnectHandler,
     DeleteNs, CloseServer, AdminStep, Snapshot, NsCloseEnd, NsCloseSocket,
     NsCloseTransport

\* Next, split into the steps that move an attempt or the socket map, and Other.
LEMMA NextCases ==
  ASSUME Next
  PROVE  \/ \E c \in Conns, s \in Sids : RecvConnect(c, s)
         \/ \E c \in Conns : ConnectStep(c)
         \/ \E t \in Tasks : RemoveSocket(t)
         \/ Other
  BY DEF Next, Other, CloseStep

-----------------------------------------------------------------------------
(* Types                                                                   *)

LEMMA InitInv == Init => IInv
  BY ConstantsOK DEF Init, IInv, TypeOK, TasksOK, GuardExclusive, MapOK,
     Guarded, ConnStage, TaskStage, EngineStage, AdminStage, Idle

LEMMA TypeConnect ==
  ASSUME TypeOK, MapOK, NEW c \in Conns,
         ConnectStep(c) \/ \E s \in Sids : RecvConnect(c, s)
  PROVE  TypeOK'
<1>1. CASE \E s \in Sids : RecvConnect(c, s)
  BY <1>1 DEF TypeOK, RecvConnect, Goto, ConnStage, socketVars, adminVars,
     history
<1>2. CASE EnterGuard(c) \/ Ignore(c) \/ DropGuard(c)
  BY <1>2 DEF TypeOK, MapOK, EnterGuard, Ignore, DropGuard, Goto, ConnStage,
     socketVars, adminVars, history
<1>3. CASE MiddlewareErr(c) \/ MiddlewareOk(c) \/ SendConnectErr(c)
  BY <1>3 DEF TypeOK, MiddlewareErr, MiddlewareOk, SendConnectErr, Goto,
     ConnStage, socketVars, adminVars, history
<1>4. CASE ConnectDelAll(c) \/ SendConnect(c) \/ Accept(c)
  BY <1>4 DEF TypeOK, ConnectDelAll, DelAll, SendConnect, Accept, Goto,
     ConnStage, socketVars, adminVars, history
<1>5. CASE Refuse(c) \/ Abort(c)
  BY <1>5 DEF TypeOK, Refuse, Abort, EsocketClose, Goto, ConnStage,
     EngineStage, socketVars, adminVars, history
<1> QED BY <1>1, <1>2, <1>3, <1>4, <1>5 DEF ConnectStep

LEMMA TypeClose ==
  ASSUME TypeOK, TasksOK, NEW t \in Tasks, CloseStep(t)
  PROVE  TypeOK' /\ TasksOK'
<1> USE DEF TypeOK, TasksOK, TaskStage, Idle, socketVars, adminVars, history
<1>1. CASE ClearConnected(t)
  BY <1>1 DEF ClearConnected
<1>2. CASE TakeHandler(t)
  BY <1>2 DEF TakeHandler
<1>3. CASE ExtractErr(t)
  BY <1>3 DEF ExtractErr
<1>4. CASE NoHandler(t) \/ HandlerDone(t)
  BY <1>4 DEF NoHandler, HandlerDone
<1>5. CASE RemoveSocket(t)
  BY <1>5 DEF RemoveSocket
<1>6. CASE LeaveRooms(t)
  BY <1>6 DEF LeaveRooms, DelAll
<1> QED BY <1>1, <1>2, <1>3, <1>4, <1>5, <1>6 DEF CloseStep

\* Entering Socket::close on a socket keeps the task table well typed.
LEMMA BeginCloseOK ==
  ASSUME TypeOK, TasksOK, NEW t, NEW c \in Conns, BeginClose(t, c)
  PROVE  /\ task' \in [Tasks -> [pc : TaskStage, sock : Conns \cup {None}]]
         /\ TasksOK'
  BY DEF TypeOK, TasksOK, BeginClose, TaskStage

LEMMA TypeEnvironment ==
  ASSUME TypeOK, TasksOK, MapOK, Other
  PROVE  TypeOK' /\ TasksOK'
<1> USE DEF socketVars, adminVars, history
<1>1. ASSUME NEW t \in Tasks, CloseStep(t)  PROVE TypeOK' /\ TasksOK'
  BY <1>1, TypeClose
<1>2. CASE \E s \in Sids : CloseSession(s) \/ Stall(s) \/ CloseChannel(s)
  BY <1>2 DEF TypeOK, TasksOK, CloseSession, Stall, CloseChannel, EsocketClose,
     EngineStage
<1>3. ASSUME NEW s \in Sids, OnDisconnect(s)  PROVE TypeOK' /\ TasksOK'
  <2>1. CASE registered /\ sockets[s] # None
    <3>1. sockets[s] \in Conns /\ BeginClose(s, sockets[s])
      BY <1>3, <2>1 DEF TypeOK, OnDisconnect
    <3>2. /\ task' \in [Tasks -> [pc : TaskStage, sock : Conns \cup {None}]]
          /\ TasksOK'
      BY <3>1, BeginCloseOK
    <3> QED BY <1>3, <3>2 DEF TypeOK, OnDisconnect, EngineStage
  <2>2. CASE ~(registered /\ sockets[s] # None)
    BY <1>3, <2>2 DEF TypeOK, TasksOK, OnDisconnect, EngineStage
  <2> QED BY <2>1, <2>2
<1>4. ASSUME NEW s \in Sids, NEW t \in Workers, RecvDisconnect(s, t)
      PROVE  TypeOK' /\ TasksOK'
  <2>1. CASE sockets[s] # None
    <3>1. sockets[s] \in Conns /\ BeginClose(t, sockets[s]) /\ UNCHANGED engine
      BY <1>4, <2>1 DEF TypeOK, RecvDisconnect
    <3>2. /\ task' \in [Tasks -> [pc : TaskStage, sock : Conns \cup {None}]]
          /\ TasksOK'
      BY <3>1, BeginCloseOK
    <3> QED BY <1>4, <3>1, <3>2 DEF TypeOK, RecvDisconnect
  <2>2. CASE sockets[s] = None
    BY <1>4, <2>2 DEF TypeOK, TasksOK, RecvDisconnect, EsocketClose, EngineStage
  <2> QED BY <2>1, <2>2
<1>5. ASSUME NEW c \in Conns, NEW t, \/ Disconnect(c, t) \/ NsCloseSocket(c),
             BeginClose(t, c)
      PROVE  TypeOK' /\ TasksOK'
  <2>1. /\ task' \in [Tasks -> [pc : TaskStage, sock : Conns \cup {None}]]
        /\ TasksOK'
    BY <1>5, BeginCloseOK
  <2> QED BY <1>5, <2>1 DEF TypeOK, Disconnect, NsCloseSocket
<1>6. ASSUME NEW c \in Conns, Join(c) \/ OnDisconnectHandler(c)
      PROVE  TypeOK' /\ TasksOK'
  <2>1. sid[c] \in Sids
    BY <1>6 DEF MapOK, HasRef, Join, OnDisconnectHandler
  <2> QED BY <1>6, <2>1 DEF TypeOK, TasksOK, Join, OnDisconnectHandler
<1>7. CASE DeleteNs \/ CloseServer \/ Snapshot \/ NsCloseEnd
  <2>1. Present \subseteq Conns
    BY DEF TypeOK, Present
  <2>2. CASE DeleteNs \/ CloseServer
    BY <2>2 DEF TypeOK, TasksOK, DeleteNs, CloseServer, AdminStage
  <2>3. CASE Snapshot
    BY <2>1, <2>3 DEF TypeOK, TasksOK, Snapshot, AdminStage
  <2>4. CASE NsCloseEnd
    BY <2>4 DEF TypeOK, TasksOK, NsCloseEnd, AdminStage
  <2> QED BY <1>7, <2>2, <2>3, <2>4
<1>8. CASE \E c \in Conns : NsCloseTransport(c)
  BY <1>8 DEF TypeOK, TasksOK, NsCloseTransport, EsocketClose, EngineStage
<1> QED
  BY <1>1, <1>2, <1>3, <1>4, <1>5, <1>6, <1>7, <1>8
     DEF Other, CloseStep, EngineStep, AdminStep, Disconnect, NsCloseSocket

-----------------------------------------------------------------------------
(* The guard and the socket map                                            *)

LEMMA CoreUnchanged ==
  ASSUME GuardExclusive, MapOK, UNCHANGED core
  PROVE  GuardExclusive' /\ MapOK'
  BY DEF GuardExclusive, MapOK, core

LEMMA GuardConnect ==
  ASSUME TypeOK, GuardExclusive, MapOK, NEW c \in Conns,
         ConnectStep(c) \/ \E s \in Sids : RecvConnect(c, s)
  PROVE  GuardExclusive' /\ MapOK'
<1> USE ConstantsOK DEF TypeOK, Goto, GuardExclusive, MapOK, Guarded
<1>1. CASE \E s \in Sids : RecvConnect(c, s)
  BY <1>1 DEF RecvConnect
<1>2. CASE EnterGuard(c)
  BY <1>2 DEF EnterGuard, AlreadyPresent
<1>3. CASE Ignore(c)
  BY <1>3 DEF Ignore
<1>4. CASE MiddlewareErr(c) \/ SendConnectErr(c)
  BY <1>4 DEF MiddlewareErr, SendConnectErr
<1>5. CASE MiddlewareOk(c)
  BY <1>5 DEF MiddlewareOk
<1>6. CASE ConnectDelAll(c)
  BY <1>6 DEF ConnectDelAll
<1>7. CASE Refuse(c) \/ Abort(c)
  BY <1>7 DEF Refuse, Abort
<1>8. CASE SendConnect(c) \/ Accept(c)
  BY <1>8 DEF SendConnect, Accept
<1>9. CASE DropGuard(c)
  BY <1>9 DEF DropGuard
<1> QED
  BY <1>1, <1>2, <1>3, <1>4, <1>5, <1>6, <1>7, <1>8, <1>9 DEF ConnectStep

LEMMA GuardRemove ==
  ASSUME TypeOK, GuardExclusive, MapOK, NEW t \in Tasks, RemoveSocket(t)
  PROVE  GuardExclusive' /\ MapOK'
  BY ConstantsOK DEF TypeOK, GuardExclusive, MapOK, RemoveSocket

LEMMA StepInv == IInv /\ [Next]_vars => IInv'
<1> SUFFICES ASSUME IInv, [Next]_vars PROVE IInv'
  OBVIOUS
<1> USE DEF IInv
<1>1. ASSUME NEW c \in Conns,
             ConnectStep(c) \/ \E s \in Sids : RecvConnect(c, s)
      PROVE  IInv'
  <2>1. TypeOK'
    BY <1>1, TypeConnect
  <2>2. GuardExclusive' /\ MapOK'
    BY <1>1, GuardConnect
  <2>3. UNCHANGED task
    BY <1>1 DEF ConnectStep, RecvConnect, EnterGuard, Ignore, MiddlewareErr,
       MiddlewareOk, ConnectDelAll, Refuse, SendConnect, SendConnectErr, Abort,
       Accept, DropGuard
  <2> QED BY <2>1, <2>2, <2>3 DEF TasksOK
<1>2. ASSUME NEW t \in Tasks, RemoveSocket(t)  PROVE IInv'
  BY <1>2, TypeClose, GuardRemove DEF CloseStep
<1>3. CASE Other
  BY <1>3, TypeEnvironment, OtherKeepsCore, CoreUnchanged
<1>4. CASE UNCHANGED vars
  BY <1>4 DEF vars, TypeOK, TasksOK, GuardExclusive, MapOK
<1> QED BY <1>1, <1>2, <1>3, <1>4, NextCases

\* The inductive invariant holds in every run of every instance.
THEOREM Invariance == Spec => []IInv
<1>1. IInv /\ [Next]_vars => IInv'
  BY StepInv
<1> QED BY InitInv, <1>1, PTL DEF Spec

-----------------------------------------------------------------------------
(* The properties                                                          *)

\* The variables keep their types (code: every handler of the namespace).
THEOREM TypeCorrect == Spec => []TypeOK
  BY Invariance, PTL DEF IInv

\* The connecting guard excludes: at most one attempt of a session is between
\* ConnectingGuard::new and its drop, and `connecting` is exactly their sids.
THEOREM GuardExcludes == Spec => []GuardExclusive
  BY Invariance, PTL DEF IInv

\* The socket map agrees with the attempts: what it finds under a sid was
\* admitted by the middlewares of an attempt of that sid.
THEOREM MapAgrees == Spec => []MapOK
  BY Invariance, PTL DEF IInv

\* The insertion of Namespace::connect never overwrites another socket.
THEOREM InsertionNeverReplaces == Spec => NeverReplaced
<1> DEFINE Kept == \A s \in Sids :
                     sockets[s] # None => sockets'[s] \in {sockets[s], None}
<1>1. IInv /\ [Next]_vars => [Kept]_vars
  <2> SUFFICES ASSUME IInv, Next PROVE Kept
    OBVIOUS
  <2> USE DEF IInv, TypeOK
  <2>1. ASSUME NEW c \in Conns,
               ConnectStep(c) \/ \E s \in Sids : RecvConnect(c, s)
        PROVE  Kept
    BY <2>1, ConstantsOK DEF MapOK, Guarded, ConnectStep, RecvConnect,
       EnterGuard, Ignore, MiddlewareErr, MiddlewareOk, ConnectDelAll, Refuse,
       SendConnect, SendConnectErr, Abort, Accept, DropGuard
  <2>2. ASSUME NEW t \in Tasks, RemoveSocket(t)  PROVE Kept
    BY <2>2 DEF RemoveSocket
  <2>3. CASE Other
    BY <2>3, OtherKeepsCore DEF core
  <2> QED BY <2>1, <2>2, <2>3, NextCases
<1> QED BY Invariance, <1>1, PTL DEF Spec, NeverReplaced

\* The remove_socket of a refused attempt finds nothing to remove.
THEOREM RefusalRemovesNobody == Spec => RefusedRemovesNobody
<1> DEFINE Harmless == \A c \in Conns :
      conn[c] = "middleware" /\ conn'[c] = "rejected" => UNCHANGED sockets
<1>1. IInv /\ [Next]_vars => [Harmless]_vars
  <2> SUFFICES ASSUME IInv, Next, NEW c \in Conns,
                      conn[c] = "middleware", conn'[c] = "rejected"
               PROVE  UNCHANGED sockets
    OBVIOUS
  <2> USE DEF IInv, TypeOK
  <2>1. ASSUME NEW d \in Conns,
               ConnectStep(d) \/ \E s \in Sids : RecvConnect(d, s)
        PROVE  UNCHANGED sockets
    <3>1. c = d /\ MiddlewareErr(c)
      BY <2>1 DEF Goto, ConnectStep, RecvConnect, EnterGuard, Ignore,
         MiddlewareErr, MiddlewareOk, ConnectDelAll, Refuse, SendConnect,
         SendConnectErr, Abort, Accept, DropGuard
    <3>2. sockets[sid[c]] = None
      BY ConstantsOK DEF MapOK, Guarded
    <3> QED BY <3>1, <3>2 DEF MiddlewareErr
  <2>2. ASSUME NEW t \in Tasks, RemoveSocket(t)  PROVE UNCHANGED sockets
    BY <2>2 DEF RemoveSocket
  <2>3. CASE Other
    BY <2>3, OtherKeepsCore DEF core
  <2> QED BY <2>1, <2>2, <2>3, NextCases
<1> QED BY Invariance, <1>1, PTL DEF Spec, RefusedRemovesNobody

-----------------------------------------------------------------------------
(* Refinement of Membership                                                *)

LifeMap == [c \in Conns |-> Life(c)]

\* The mapping, spelled out for each stage.
LEMMA LifeCases ==
  ASSUME NEW c \in Conns
  PROVE  /\ conn[c] = "none" => Life(c) = "new"
         /\ conn[c] = "spawned" => Life(c) = "arrived"
         /\ conn[c] = "middleware" => Life(c) = "trying"
         /\ conn[c] \notin {"none", "spawned", "middleware"} =>
              Life(c) = IF sockets[sid[c]] = c THEN "member" ELSE "out"
  BY DEF Life

LEMMA LifeCasesNext ==
  ASSUME NEW c \in Conns
  PROVE  /\ conn'[c] = "none" => Life(c)' = "new"
         /\ conn'[c] = "spawned" => Life(c)' = "arrived"
         /\ conn'[c] = "middleware" => Life(c)' = "trying"
         /\ conn'[c] \notin {"none", "spawned", "middleware"} =>
              Life(c)' = IF sockets'[sid'[c]] = c THEN "member" ELSE "out"
  BY DEF Life

LEMMA RefineInit == Init => Abstract!Init
  BY DEF Init, Abstract!Init, Life

\* What a step does to the abstract state, from what it does to each Life.
LEMMA RefineBecome ==
  ASSUME NEW c \in Conns, NEW stage, Life(c)' = stage,
         \A d \in Conns \ {c} : Life(d)' = Life(d)
  PROVE  LifeMap' = [LifeMap EXCEPT ![c] = stage]
  BY DEF LifeMap

LEMMA RefineSame ==
  ASSUME \A d \in Conns : Life(d)' = Life(d)
  PROVE  LifeMap' = LifeMap
  BY DEF LifeMap

\* An attempt that enters the guard has no live rival.
LEMMA RefineTry ==
  ASSUME IInv, NEW c \in Conns, EnterGuard(c)
  PROVE  Abstract!Try(c)
<1> USE DEF IInv, TypeOK, EnterGuard, AlreadyPresent, Goto
<1>1. ASSUME NEW d \in Conns, sid[d] = sid[c]
      PROVE  Life(d) \notin {"trying", "member"}
  <2>1. conn[d] # "middleware"
    BY <1>1 DEF GuardExclusive, Guarded
  <2>2. sockets[sid[d]] # d
    BY <1>1, ConstantsOK
  <2> QED BY <2>1, <2>2, LifeCases
<1>2. Life(c) = "arrived" /\ Life(c)' = "trying"
  BY LifeCases, LifeCasesNext
<1>3. \A d \in Conns \ {c} : Life(d)' = Life(d)
  BY DEF Life
<1>4. LifeMap' = [LifeMap EXCEPT ![c] = "trying"]
  BY <1>2, <1>3, RefineBecome
<1> QED BY <1>1, <1>2, <1>4 DEF Abstract!Try, Abstract!Become, LifeMap

LEMMA RefineConnect ==
  ASSUME IInv, NEW c \in Conns,
         ConnectStep(c) \/ \E s \in Sids : RecvConnect(c, s)
  PROVE  Abstract!Next \/ UNCHANGED Abstract!vars
<1> USE DEF IInv, TypeOK, Goto
<1>1. CASE \E s \in Sids : RecvConnect(c, s)
  <2>1. PICK s \in Sids : RecvConnect(c, s)
    BY <1>1
  <2>2. Life(c) = "new" /\ Life(c)' = "arrived"
    BY <2>1, LifeCases, LifeCasesNext DEF RecvConnect
  <2>3. \A d \in Conns \ {c} : Life(d)' = Life(d)
    BY <2>1 DEF RecvConnect, Life
  <2>4. LifeMap' = [LifeMap EXCEPT ![c] = "arrived"]
    BY <2>2, <2>3, RefineBecome
  <2>5. Abstract!Arrive(c, s)
    BY <2>1, <2>2, <2>4 DEF Abstract!Arrive, Abstract!Become, LifeMap,
       RecvConnect
  <2> QED BY <2>5 DEF Abstract!Next
<1>2. CASE EnterGuard(c)
  BY <1>2, RefineTry DEF Abstract!Next
<1>3. CASE Ignore(c) \/ MiddlewareErr(c)
  <2>1. sockets[sid[c]] # c
    BY <1>3, ConstantsOK DEF Ignore, MiddlewareErr, MapOK, Guarded
  <2>2. UNCHANGED <<sid, sockets>>
    BY <1>3, ConstantsOK DEF Ignore, MiddlewareErr, MapOK, Guarded
  <2>3. Life(c) \in {"arrived", "trying"} /\ Life(c)' = "out"
    BY <1>3, <2>1, <2>2, LifeCases, LifeCasesNext DEF Ignore, MiddlewareErr
  <2>4. \A d \in Conns \ {c} : Life(d)' = Life(d)
    BY <1>3, <2>2 DEF Ignore, MiddlewareErr, Life
  <2>5. LifeMap' = [LifeMap EXCEPT ![c] = "out"]
    BY <2>3, <2>4, RefineBecome
  <2>6. Abstract!Leave(c)
    BY <2>2, <2>3, <2>5 DEF Abstract!Leave, Abstract!Become, LifeMap
  <2> QED BY <2>6 DEF Abstract!Next
<1>4. CASE MiddlewareOk(c)
  <2>1. sockets[sid[c]] = None /\ sid[c] \in Sids
    BY <1>4, ConstantsOK DEF MiddlewareOk, MapOK, Guarded
  <2>2. Life(c) = "trying" /\ Life(c)' = "member"
    BY <1>4, <2>1, LifeCases, LifeCasesNext DEF MiddlewareOk
  <2>3. \A d \in Conns \ {c} : Life(d)' = Life(d)
    BY <1>4, <2>1, ConstantsOK DEF MiddlewareOk, Life
  <2>4. LifeMap' = [LifeMap EXCEPT ![c] = "member"]
    BY <2>2, <2>3, RefineBecome
  <2>5. Abstract!Admit(c)
    BY <1>4, <2>2, <2>4 DEF Abstract!Admit, Abstract!Become, LifeMap,
       MiddlewareOk
  <2> QED BY <2>5 DEF Abstract!Next
<1>5. CASE SendConnectErr(c)
  <2>1. sid[c] \in Sids /\ sockets[sid[c]] \in {c, None}
    BY <1>5 DEF SendConnectErr, MapOK, Guarded
  <2>2. \A d \in Conns \ {c} : Life(d)' = Life(d)
    BY <1>5, <2>1, ConstantsOK DEF SendConnectErr, Life
  <2>3. Life(c)' = "out"
    BY <1>5, <2>1, LifeCasesNext, ConstantsOK DEF SendConnectErr
  <2>4. CASE sockets[sid[c]] = c
    <3>1. Life(c) = "member"
      BY <1>5, <2>4, LifeCases DEF SendConnectErr
    <3>2. LifeMap' = [LifeMap EXCEPT ![c] = "out"]
      BY <2>2, <2>3, RefineBecome
    <3>3. Abstract!Leave(c)
      BY <1>5, <3>1, <3>2 DEF Abstract!Leave, Abstract!Become, LifeMap,
         SendConnectErr
    <3> QED BY <3>3 DEF Abstract!Next
  <2>5. CASE sockets[sid[c]] = None
    <3>1. Life(c) = "out"
      BY <1>5, <2>5, LifeCases, ConstantsOK DEF SendConnectErr
    <3> QED BY <1>5, <2>2, <2>3, <3>1, RefineSame
            DEF Abstract!vars, LifeMap, SendConnectErr
  <2> QED BY <2>1, <2>4, <2>5
<1>6. CASE \/ ConnectDelAll(c) \/ Refuse(c) \/ SendConnect(c) \/ Abort(c)
           \/ Accept(c) \/ DropGuard(c)
  <2>1. UNCHANGED <<sid, sockets>>
    BY <1>6 DEF ConnectDelAll, Refuse, SendConnect, Abort, Accept, DropGuard
  <2>2. \A d \in Conns \ {c} : conn'[d] = conn[d]
    BY <1>6 DEF ConnectDelAll, Refuse, SendConnect, Abort, Accept, DropGuard
  <2>3. /\ conn[c] \notin {"none", "spawned", "middleware"}
        /\ conn'[c] \notin {"none", "spawned", "middleware"}
    BY <1>6 DEF ConnectDelAll, Refuse, SendConnect, Abort, Accept, DropGuard
  <2>4. \A d \in Conns : Life(d)' = Life(d)
    BY <2>1, <2>2, <2>3 DEF Life
  <2> QED BY <2>1, <2>4, RefineSame DEF Abstract!vars, LifeMap
<1> QED BY <1>1, <1>2, <1>3, <1>4, <1>5, <1>6 DEF ConnectStep

\* remove_socket takes at most one member out, whichever socket it was for.
LEMMA RefineRemove ==
  ASSUME IInv, NEW t \in Tasks, RemoveSocket(t)
  PROVE  Abstract!Next \/ UNCHANGED Abstract!vars
<1> DEFINE s == sid[task[t].sock]
<1> USE ConstantsOK DEF IInv, TypeOK, RemoveSocket
<1>1. CASE s \in Sids /\ sockets[s] # None
  <2>1. PICK c \in Conns : /\ sockets[s] = c
                           /\ sid[c] = s
                           /\ conn[c] \notin {"none", "spawned", "middleware"}
    BY <1>1 DEF MapOK
  <2>2. Life(c) = "member" /\ Life(c)' = "out"
    BY <1>1, <2>1, LifeCases, LifeCasesNext
  <2>3. \A d \in Conns \ {c} : Life(d)' = Life(d)
    BY <1>1, <2>1 DEF Life
  <2>4. LifeMap' = [LifeMap EXCEPT ![c] = "out"]
    BY <2>1, <2>2, <2>3, RefineBecome
  <2>5. Abstract!Leave(c)
    BY <2>1, <2>2, <2>4 DEF Abstract!Leave, Abstract!Become, LifeMap
  <2> QED BY <2>1, <2>5 DEF Abstract!Next
<1>2. CASE ~(s \in Sids /\ sockets[s] # None)
  <2>1. sockets' = sockets
    BY <1>2
  <2>2. \A d \in Conns : Life(d)' = Life(d)
    BY <2>1 DEF Life
  <2> QED BY <2>2, RefineSame DEF Abstract!vars, LifeMap
<1> QED BY <1>1, <1>2

\* Namespace implements Membership: a session has at most one attempt that is
\* tried or admitted, and an attempt that is out never comes back.
THEOREM Refinement == Spec => RefinesMembership
<1>1. IInv /\ [Next]_vars => [Abstract!Next]_(Abstract!vars)
  <2> SUFFICES ASSUME IInv, [Next]_vars
               PROVE  Abstract!Next \/ UNCHANGED Abstract!vars
    OBVIOUS
  <2>1. ASSUME UNCHANGED core  PROVE UNCHANGED Abstract!vars
    <3>1. \A d \in Conns : Life(d)' = Life(d)
      BY <2>1 DEF core, Life
    <3> QED BY <2>1, <3>1, RefineSame DEF core, Abstract!vars, LifeMap
  <2>2. CASE Other
    BY <2>1, <2>2, OtherKeepsCore
  <2>3. CASE UNCHANGED vars
    BY <2>1, <2>3 DEF vars, core
  <2> QED BY <2>2, <2>3, NextCases, RefineConnect, RefineRemove
<1> QED
  BY RefineInit, Invariance, <1>1, PTL DEF Spec, RefinesMembership, Abstract!Spec

-----------------------------------------------------------------------------
(* The life of a socket.  Each property is a consequence of a conjunct of   *)
(* SInv, which is inductive together with IInv: it names the task that is   *)
(* still going to do what is missing.                                       *)

\* The attempt got past the guard: its socket exists.
Past(c) == conn[c] \notin {"none", "spawned", "ignored"}

\* Socket::close runs only on sockets that exist.
ClosedPast ==
  /\ \A t \in Tasks : task[t].pc # "idle" => Past(task[t].sock)
  /\ \A c \in Conns : c \in toClose => Past(c)

\* A registered handler was registered once and has not run.
HandlerInv ==
  \A c \in Conns :
    /\ called[c] <= 1
    /\ c \in handler => called[c] = 0
    /\ reg[c] = "no" => c \notin handler /\ called[c] = 0

AnswerInv ==
  /\ connected \subseteq announced
  /\ \A c \in Conns : conn[c] = "flagging" => c \in announced

\* Some task still has to remove socket c.
Removing(c) ==
  \E t \in Tasks :
    task[t].sock = c /\ task[t].pc \in {"flag", "take", "handler", "remove"}

LeakInv ==
  \A s \in Sids :
    engine[s] = "gone" /\ registered /\ sockets[s] # None
      => \/ sockets[s] \in stuck
         \/ conn[sockets[s]] = "sending"
         \/ Removing(sockets[s])

\* A socket of the map that is not connected is not so yet, or is being closed.
ClosedInv ==
  \A s \in Sids :
    sockets[s] # None
      => \/ sockets[s] \in connected \cup stuck
         \/ conn[sockets[s]] \in {"sending", "flagging"}
         \/ \E t \in Tasks : /\ task[t].sock = sockets[s]
                              /\ task[t].pc \in {"take", "handler", "remove"}

\* Somebody is still going to make session s leave its rooms.
Leaving(s) ==
  \/ \E c \in Conns : /\ sid[c] = s
                      /\ conn[c] \in {"middleware", "rejected", "unsent"}
  \/ \E t \in Tasks : task[t].pc = "leave" /\ sid[task[t].sock] = s

RoomInv ==
  \A s \in Sids : s \in rooms \ late /\ sockets[s] = None => Leaving(s)

SInv == ClosedPast /\ HandlerInv /\ AnswerInv /\ LeakInv /\ ClosedInv /\ RoomInv

LEMMA InitSInv == Init => SInv
  BY ConstantsOK DEF Init, SInv, ClosedPast, HandlerInv, AnswerInv, LeakInv,
     ClosedInv, RoomInv, Idle

-----------------------------------------------------------------------------
(* One lemma per conjunct                                                  *)

LEMMA HandlerStep ==
  ASSUME IInv, HandlerInv, [Next]_vars
  PROVE  HandlerInv'
<1> USE DEF IInv, TypeOK, HandlerInv
<1>1. ASSUME NEW t \in Tasks, TakeHandler(t)  PROVE HandlerInv'
  BY <1>1 DEF TakeHandler
<1>2. ASSUME NEW t \in Tasks, ExtractErr(t)  PROVE HandlerInv'
  BY <1>2 DEF ExtractErr
<1>3. ASSUME NEW c \in Conns, OnDisconnectHandler(c)  PROVE HandlerInv'
  BY <1>3 DEF OnDisconnectHandler
<1>4. CASE UNCHANGED <<handler, called, reg>>
  BY <1>4
<1>5. \/ \E t \in Tasks : TakeHandler(t) \/ ExtractErr(t)
      \/ \E c \in Conns : OnDisconnectHandler(c)
      \/ UNCHANGED <<handler, called, reg>>
  BY DEF Next, vars, ConnectStep, RecvConnect, EnterGuard, Ignore,
     MiddlewareErr, MiddlewareOk, ConnectDelAll, Refuse, SendConnect,
     SendConnectErr, Abort, Accept, DropGuard, CloseStep, ClearConnected,
     NoHandler, HandlerDone, RemoveSocket, LeaveRooms, CloseSession, EngineStep,
     Stall, CloseChannel, OnDisconnect, RecvDisconnect, Disconnect, Join, DeleteNs,
     CloseServer, AdminStep, Snapshot, NsCloseEnd, NsCloseSocket,
     NsCloseTransport, socketVars, history
<1> QED BY <1>1, <1>2, <1>3, <1>4, <1>5

LEMMA AnswerStep ==
  ASSUME IInv, AnswerInv, [Next]_vars
  PROVE  AnswerInv'
<1> USE DEF IInv, TypeOK, AnswerInv, Goto
<1>1. ASSUME NEW c \in Conns,
             ConnectStep(c) \/ \E s \in Sids : RecvConnect(c, s)
      PROVE  AnswerInv'
  BY <1>1 DEF ConnectStep, RecvConnect, EnterGuard, Ignore, MiddlewareErr,
     MiddlewareOk, ConnectDelAll, Refuse, SendConnect, SendConnectErr, Abort,
     Accept, DropGuard, socketVars, history
<1>2. ASSUME NEW t \in Tasks, ClearConnected(t)  PROVE AnswerInv'
  BY <1>2 DEF ClearConnected, history
<1>3. CASE UNCHANGED <<conn, connected, announced>>
  BY <1>3
<1>4. \/ \E c \in Conns : ConnectStep(c) \/ \E s \in Sids : RecvConnect(c, s)
      \/ \E t \in Tasks : ClearConnected(t)
      \/ UNCHANGED <<conn, connected, announced>>
  BY DEF Next, vars, CloseStep, TakeHandler, ExtractErr, NoHandler,
     HandlerDone, RemoveSocket, LeaveRooms, CloseSession, EngineStep,
     Stall, CloseChannel, OnDisconnect, RecvDisconnect, Disconnect, Join,
     OnDisconnectHandler, DeleteNs, CloseServer, AdminStep, Snapshot,
     NsCloseEnd, NsCloseSocket, NsCloseTransport, socketVars, history
<1> QED BY <1>1, <1>2, <1>3, <1>4

\* What every step leaves alone, for the variables of the invariants below:
\* a step of an attempt does not touch the tasks, and so on.
LEMMA ConnectFrame ==
  ASSUME TypeOK, NEW c \in Conns,
         ConnectStep(c) \/ \E s \in Sids : RecvConnect(c, s)
  PROVE  /\ UNCHANGED <<task, registered, toClose, stuck>>
         /\ conn[c] # "none" => UNCHANGED sid
         /\ \A d \in Conns \ {c} : conn'[d] = conn[d] /\ sid'[d] = sid[d]
  BY DEF TypeOK, ConnectStep, RecvConnect, EnterGuard, Ignore, MiddlewareErr,
     MiddlewareOk, ConnectDelAll, Refuse, SendConnect, SendConnectErr, Abort,
     Accept, DropGuard, Goto, adminVars, history

\* Past the guard, always past the guard.
LEMMA PastStays ==
  ASSUME IInv, [Next]_vars, NEW c \in Conns, Past(c)
  PROVE  Past(c)'
<1> USE DEF IInv, TypeOK, Past
<1>1. ASSUME NEW d \in Conns,
             ConnectStep(d) \/ \E s \in Sids : RecvConnect(d, s)
      PROVE  Past(c)'
  BY <1>1 DEF ConnectStep, RecvConnect, EnterGuard, Ignore, MiddlewareErr,
     MiddlewareOk, ConnectDelAll, Refuse, SendConnect, SendConnectErr, Abort,
     Accept, DropGuard, Goto
<1>2. CASE UNCHANGED conn
  BY <1>2
<1>3. (\E t \in Tasks : RemoveSocket(t)) => UNCHANGED conn
  BY DEF RemoveSocket
<1> QED BY <1>1, <1>2, <1>3, NextCases, OtherKeepsCore DEF core, vars

\* The sockets of the map are past the guard.
LEMMA MapPast ==
  ASSUME IInv, NEW s \in Sids, sockets[s] # None
  PROVE  sockets[s] \in Conns /\ Past(sockets[s])
  BY DEF IInv, TypeOK, MapOK, Past

\* What the steps do to the task table.
LEMMA TaskCases ==
  ASSUME IInv, [Next]_vars
  PROVE  \/ task' = task
         \/ \E t \in Tasks : CloseStep(t)
         \/ \E t \in Tasks, s \in Sids :
              sockets[s] # None /\ BeginClose(t, sockets[s])
         \/ \E t \in Tasks, c \in Conns :
              (Past(c) \/ c \in toClose) /\ BeginClose(t, c)
<1>1. ASSUME NEW s \in Sids, OnDisconnect(s)
      PROVE  \/ task' = task
             \/ sockets[s] # None /\ BeginClose(s, sockets[s])
  BY <1>1 DEF OnDisconnect
<1>2. ASSUME NEW s \in Sids, NEW t \in Workers, RecvDisconnect(s, t)
      PROVE  \/ task' = task
             \/ sockets[s] # None /\ BeginClose(t, sockets[s])
  BY <1>2 DEF RecvDisconnect
<1>3. ASSUME NEW c \in Conns, NEW t \in Workers, Disconnect(c, t)
      PROVE  Past(c) /\ BeginClose(t, c)
  BY <1>3 DEF Disconnect, HasRef, Past
<1>4. ASSUME NEW c \in Conns, NsCloseSocket(c)
      PROVE  \/ task' = task
             \/ /\ NsTask(sid[c]) \in Tasks /\ c \in toClose
                /\ BeginClose(NsTask(sid[c]), c)
  <2>1. c \in toClose /\ BeginClose(NsTask(sid[c]), c)
    BY <1>4 DEF NsCloseSocket
  <2>2. CASE NsTask(sid[c]) \in Tasks
    BY <2>1, <2>2
  <2>3. CASE NsTask(sid[c]) \notin Tasks
    BY <2>1, <2>3 DEF BeginClose, IInv, TypeOK
  <2> QED BY <2>2, <2>3
<1>5. Sids \subseteq Tasks /\ Workers \subseteq Tasks
  BY DEF Tasks
<1>6. \/ task' = task
      \/ \E t \in Tasks : CloseStep(t)
      \/ \E s \in Sids : OnDisconnect(s)
      \/ \E s \in Sids, t \in Workers : RecvDisconnect(s, t)
      \/ \E c \in Conns, t \in Workers : Disconnect(c, t)
      \/ \E c \in Conns : NsCloseSocket(c)
  BY ConnectFrame DEF IInv, Next, vars, CloseSession, EngineStep, Stall,
     CloseChannel, Join, OnDisconnectHandler, DeleteNs, CloseServer, AdminStep, Snapshot,
     NsCloseEnd, NsCloseTransport
<1>7. CASE \E s \in Sids : OnDisconnect(s)
  BY <1>1, <1>5, <1>7
<1>8. CASE \E s \in Sids, t \in Workers : RecvDisconnect(s, t)
  BY <1>2, <1>5, <1>8
<1>9. CASE \E c \in Conns, t \in Workers : Disconnect(c, t)
  BY <1>3, <1>5, <1>9
<1>10. CASE \E c \in Conns : NsCloseSocket(c)
  BY <1>4, <1>10
<1> QED BY <1>6, <1>7, <1>8, <1>9, <1>10

LEMMA ClosedPastStep ==
  ASSUME IInv, ClosedPast, [Next]_vars
  PROVE  ClosedPast'
<1> USE DEF IInv, TypeOK
<1>1. ASSUME NEW t \in Tasks, task'[t].pc # "idle"
      PROVE  task'[t].sock \in Conns /\ Past(task'[t].sock)
  <2>1. CASE task' = task
    BY <1>1, <2>1 DEF ClosedPast, TasksOK
  <2>2. ASSUME NEW u \in Tasks, CloseStep(u)
        PROVE  task'[t].sock \in Conns /\ Past(task'[t].sock)
    <3>1. task[t].pc # "idle" /\ task'[t].sock = task[t].sock
      BY <1>1, <2>2 DEF CloseStep, ClearConnected, TakeHandler, ExtractErr,
         NoHandler, HandlerDone, RemoveSocket, LeaveRooms, Idle
    <3> QED BY <3>1 DEF ClosedPast, TasksOK
  <2>3. ASSUME NEW u \in Tasks, NEW c \in Conns, Past(c), BeginClose(u, c)
        PROVE  task'[t].sock \in Conns /\ Past(task'[t].sock)
    BY <1>1, <2>3 DEF BeginClose, ClosedPast, TasksOK
  <2> QED BY <2>1, <2>2, <2>3, TaskCases, MapPast DEF ClosedPast
<1>2. ASSUME NEW t \in Tasks, NEW c \in Conns,
             task'[t].pc # "idle", task'[t].sock = c
      PROVE  conn'[c] \notin {"none", "spawned", "ignored"}
  BY <1>1, <1>2, PastStays DEF Past
<1>3. ASSUME NEW c \in Conns, c \in toClose'
      PROVE  Past(c)
  <2>1. c \in toClose \cup Present
    BY <1>3, ConnectFrame DEF Next, vars, CloseStep, ClearConnected,
       TakeHandler, ExtractErr, NoHandler, HandlerDone, RemoveSocket,
       LeaveRooms, CloseSession, EngineStep, Stall, CloseChannel, OnDisconnect,
       RecvDisconnect, Disconnect, Join, OnDisconnectHandler, DeleteNs,
       CloseServer, AdminStep, Snapshot, NsCloseEnd, NsCloseSocket,
       NsCloseTransport, history, adminVars
  <2> QED BY <2>1, MapPast DEF ClosedPast, Present
<1>4. \A c \in Conns : c \in toClose' => Past(c)'
  BY <1>3, PastStays
<1> QED BY <1>1, <1>2, <1>4 DEF ClosedPast, Past

\* A task that is to remove socket c does so, hands c to `stuck`, or goes on.
LEMMA RemovalGoesOn ==
  ASSUME IInv, [Next]_vars, NEW c \in Conns, sid[c] \in Sids, NEW t \in Tasks,
         task[t].sock = c, task[t].pc \in {"flag", "take", "handler", "remove"}
  PROVE  \/ /\ task'[t].sock = c
            /\ \/ task'[t].pc \in {"take", "handler", "remove"}
               \/ task'[t].pc = "flag" /\ task[t].pc = "flag"
         \/ c \in stuck'
         \/ sockets'[sid[c]] = None
<1> USE DEF IInv, TypeOK
<1>1. ASSUME task'[t] # task[t]  PROVE CloseStep(t)
  <2>1. ASSUME NEW u \in Tasks, CloseStep(u)  PROVE u = t
    BY <1>1, <2>1 DEF CloseStep, ClearConnected, TakeHandler, ExtractErr,
       NoHandler, HandlerDone, RemoveSocket, LeaveRooms
  <2>2. ASSUME NEW u \in Tasks, NEW d, BeginClose(u, d)  PROVE FALSE
    BY <1>1, <2>2 DEF BeginClose, Idle
  <2>3. ASSUME NEW s \in Sids, NEW u \in Tasks, BeginClose(u, sockets[s])
        PROVE  FALSE
    BY <1>1, <2>3 DEF BeginClose, Idle
  <2> QED BY <1>1, <2>1, <2>2, <2>3, TaskCases
<1>2. CASE CloseStep(t)
  BY <1>2 DEF CloseStep, ClearConnected, TakeHandler, ExtractErr, NoHandler,
     HandlerDone, RemoveSocket, LeaveRooms
<1> QED BY <1>1, <1>2

\* stuck only grows.
LEMMA StuckGrows ==
  ASSUME [Next]_vars
  PROVE  stuck \subseteq stuck'
  BY DEF Next, vars, ConnectStep, RecvConnect, EnterGuard, Ignore,
     MiddlewareErr, MiddlewareOk, ConnectDelAll, Refuse, SendConnect,
     SendConnectErr, Abort, Accept, DropGuard, CloseStep, ClearConnected,
     TakeHandler, ExtractErr, NoHandler, HandlerDone, RemoveSocket, LeaveRooms,
     CloseSession, EngineStep, Stall, CloseChannel, OnDisconnect, RecvDisconnect,
     Disconnect, Join, OnDisconnectHandler, DeleteNs, CloseServer, AdminStep,
     Snapshot, NsCloseEnd, NsCloseSocket, NsCloseTransport, history

\* A sid finds a new socket only by MiddlewareOk.
LEMMA NewSocket ==
  ASSUME IInv, [Next]_vars, NEW s \in Sids, sockets'[s] # None,
         sockets'[s] # sockets[s]
  PROVE  \E c \in Conns : sockets'[s] = c /\ MiddlewareOk(c) /\ sid[c] = s
<1> USE DEF IInv, TypeOK
<1>1. ASSUME NEW c \in Conns,
             ConnectStep(c) \/ \E r \in Sids : RecvConnect(c, r)
      PROVE  sockets'[s] = c /\ MiddlewareOk(c) /\ sid[c] = s
  BY <1>1 DEF ConnectStep, RecvConnect, EnterGuard, Ignore, MiddlewareErr,
     MiddlewareOk, ConnectDelAll, Refuse, SendConnect, SendConnectErr, Abort,
     Accept, DropGuard
<1>2. ASSUME NEW t \in Tasks, RemoveSocket(t)  PROVE FALSE
  BY <1>2 DEF RemoveSocket
<1> QED BY <1>1, <1>2, NextCases, OtherKeepsCore DEF core, vars

\* The attempt of a socket that stays in the map leaves "sending" only by
\* sending the answer.
LEMMA SendingGoesOn ==
  ASSUME IInv, [Next]_vars, NEW c \in Conns, conn[c] = "sending",
         sockets'[sid[c]] = c
  PROVE  conn'[c] = "sending" \/ SendConnect(c)
<1> USE ConstantsOK DEF IInv, TypeOK
<1>1. sid[c] \in Sids
  BY DEF MapOK
<1>2. ASSUME NEW d \in Conns,
             ConnectStep(d) \/ \E r \in Sids : RecvConnect(d, r)
      PROVE  conn'[c] = "sending" \/ SendConnect(c)
  BY <1>1, <1>2 DEF ConnectStep, RecvConnect, EnterGuard, Ignore,
     MiddlewareErr, MiddlewareOk, ConnectDelAll, Refuse, SendConnect,
     SendConnectErr, Abort, Accept, DropGuard, Goto
<1>3. ASSUME NEW t \in Tasks, RemoveSocket(t)  PROVE conn' = conn
  BY <1>3 DEF RemoveSocket
<1> QED BY <1>2, <1>3, NextCases, OtherKeepsCore DEF core, vars

\* engine[s] becomes "gone", and registered TRUE, in no other way.
LEMMA GoneCases ==
  ASSUME IInv, [Next]_vars, NEW s \in Sids, engine'[s] = "gone", registered'
  PROVE  registered /\ (engine[s] = "gone" \/ OnDisconnect(s))
  BY DEF IInv, TypeOK, Next, vars, ConnectStep, RecvConnect, EnterGuard, Ignore,
     MiddlewareErr, MiddlewareOk, ConnectDelAll, Refuse, SendConnect,
     SendConnectErr, Abort, Accept, DropGuard, CloseStep, ClearConnected,
     TakeHandler, ExtractErr, NoHandler, HandlerDone, RemoveSocket, LeaveRooms,
     CloseSession, EngineStep, Stall, CloseChannel, OnDisconnect, RecvDisconnect,
     Disconnect, Join, OnDisconnectHandler, DeleteNs, CloseServer, AdminStep,
     Snapshot, NsCloseEnd, NsCloseSocket, NsCloseTransport, EsocketClose,
     adminVars

LEMMA LeakStep ==
  ASSUME IInv, LeakInv, [Next]_vars
  PROVE  LeakInv'
<1> SUFFICES ASSUME NEW s \in Sids, NEW c \in Conns,
                    engine'[s] = "gone", registered', sockets'[s] = c
             PROVE  c \in stuck' \/ conn'[c] = "sending" \/ Removing(c)'
  BY StepInv DEF LeakInv, IInv, TypeOK, Removing
<1> USE DEF IInv, TypeOK
<1>1. CASE sockets[s] # c
  BY <1>1, NewSocket, ConstantsOK DEF MiddlewareOk, Goto
<1>2. CASE sockets[s] = c /\ engine[s] = "gone"
  <2>1. sid[c] = s
    BY <1>2, ConstantsOK DEF MapOK
  <2>2. c \in stuck \/ conn[c] = "sending" \/ Removing(c)
    BY <1>2, GoneCases, ConstantsOK DEF LeakInv
  <2>3. CASE c \in stuck
    BY <2>3, StuckGrows
  <2>4. CASE conn[c] = "sending"
    BY <1>2, <2>1, <2>4, SendingGoesOn DEF SendConnect, Unreachable
  <2>5. CASE Removing(c)
    BY <2>1, <2>5, RemovalGoesOn, ConstantsOK DEF Removing
  <2> QED BY <2>2, <2>3, <2>4, <2>5
<1>3. CASE sockets[s] = c /\ OnDisconnect(s)
  <2>1. BeginClose(s, c)
    BY <1>3, GoneCases, ConstantsOK DEF OnDisconnect
  <2>2. s \in Tasks
    BY DEF Tasks
  <2> QED BY <2>1, <2>2 DEF BeginClose, Removing
<1> QED BY <1>1, <1>2, <1>3, GoneCases

\* The attempt of a socket that stays in the map leaves "flagging" only by
\* setting the flag.
LEMMA FlaggingGoesOn ==
  ASSUME IInv, [Next]_vars, NEW c \in Conns, conn[c] = "flagging"
  PROVE  conn'[c] = "flagging" \/ c \in connected'
<1> USE DEF IInv, TypeOK
<1>1. ASSUME NEW d \in Conns,
             ConnectStep(d) \/ \E r \in Sids : RecvConnect(d, r)
      PROVE  conn'[c] = "flagging" \/ c \in connected'
  BY <1>1 DEF ConnectStep, RecvConnect, EnterGuard, Ignore, MiddlewareErr,
     MiddlewareOk, ConnectDelAll, Refuse, SendConnect, SendConnectErr, Abort,
     Accept, DropGuard, Goto
<1>2. ASSUME NEW t \in Tasks, RemoveSocket(t)  PROVE conn' = conn
  BY <1>2 DEF RemoveSocket
<1> QED BY <1>1, <1>2, NextCases, OtherKeepsCore DEF core, vars

\* The flag is cleared only by ClearConnected.
LEMMA FlagCases ==
  ASSUME IInv, [Next]_vars, NEW c \in connected
  PROVE  \/ c \in connected'
         \/ \E t \in Tasks : ClearConnected(t) /\ c = task[t].sock
  BY DEF IInv, Next, vars, ConnectStep, RecvConnect, EnterGuard, Ignore,
     MiddlewareErr, MiddlewareOk, ConnectDelAll, Refuse, SendConnect,
     SendConnectErr, Abort, Accept, DropGuard, CloseStep, ClearConnected,
     TakeHandler, ExtractErr, NoHandler, HandlerDone, RemoveSocket, LeaveRooms,
     CloseSession, EngineStep, Stall, CloseChannel, OnDisconnect,
     RecvDisconnect, Disconnect, Join, OnDisconnectHandler, DeleteNs,
     CloseServer, AdminStep, Snapshot, NsCloseEnd, NsCloseSocket,
     NsCloseTransport, socketVars

LEMMA ClosedStep ==
  ASSUME IInv, ClosedInv, [Next]_vars
  PROVE  ClosedInv'
<1> DEFINE Closing(c) == \E t \in Tasks :
             task'[t].sock = c /\ task'[t].pc \in {"take", "handler", "remove"}
<1> SUFFICES ASSUME NEW s \in Sids, NEW c \in Conns, sockets'[s] = c,
                    c \notin connected', c \notin stuck'
             PROVE  conn'[c] \in {"sending", "flagging"} \/ Closing(c)
  BY StepInv DEF ClosedInv, IInv, TypeOK
<1> USE DEF IInv, TypeOK
<1>1. CASE sockets[s] # c
  BY <1>1, NewSocket, ConstantsOK DEF MiddlewareOk, Goto
<1>2. CASE sockets[s] = c
  <2>1. sid[c] = s /\ c \notin stuck
    BY <1>2, StuckGrows, ConstantsOK DEF MapOK
  <2>2. CASE c \in connected
    <3>1. PICK t \in Tasks : ClearConnected(t) /\ c = task[t].sock
      BY <2>2, FlagCases
    <3>2. task'[t].sock = c /\ task'[t].pc = "take"
      BY <3>1 DEF ClearConnected
    <3> QED BY <3>2
  <2>3. CASE conn[c] = "sending"
    BY <2>1, <2>3, SendingGoesOn DEF SendConnect, Goto
  <2>4. CASE conn[c] = "flagging"
    BY <2>4, FlaggingGoesOn
  <2>5. ASSUME NEW t \in Tasks, task[t].sock = c,
               task[t].pc \in {"take", "handler", "remove"}
        PROVE  Closing(c)
    BY <2>1, <2>5, RemovalGoesOn, ConstantsOK
  <2> QED BY <1>2, <2>1, <2>2, <2>3, <2>4, <2>5, ConstantsOK DEF ClosedInv
<1> QED BY <1>1, <1>2

\* Only Join adds a room, and `late` shrinks with the rooms.
LEMMA RoomCases ==
  ASSUME IInv, [Next]_vars, NEW s \in rooms' \ late'
  PROVE  s \in rooms \ late \/ \E c \in Conns : Join(c) /\ s = sid[c]
  BY DEF Next, vars, ConnectStep, RecvConnect, EnterGuard, Ignore,
     MiddlewareErr, MiddlewareOk, ConnectDelAll, Refuse, SendConnect,
     SendConnectErr, Abort, Accept, DropGuard, CloseStep, ClearConnected,
     TakeHandler, ExtractErr, NoHandler, HandlerDone, RemoveSocket, LeaveRooms,
     CloseSession, EngineStep, Stall, CloseChannel, OnDisconnect, RecvDisconnect,
     Disconnect, Join, OnDisconnectHandler, DeleteNs, CloseServer, AdminStep,
     Snapshot, NsCloseEnd, NsCloseSocket, NsCloseTransport, DelAll, history

\* A sid loses its socket only to a step that then leaves the rooms.
LEMMA LostSocket ==
  ASSUME IInv, [Next]_vars, NEW s \in Sids, sockets[s] # None,
         sockets'[s] = None
  PROVE  Leaving(s)'
<1> USE ConstantsOK DEF IInv, TypeOK
<1>1. ASSUME NEW c \in Conns,
             ConnectStep(c) \/ \E r \in Sids : RecvConnect(c, r)
      PROVE  Leaving(s)'
  <2>1. sid'[c] = s /\ conn'[c] \in {"rejected", "unsent"}
    BY <1>1 DEF ConnectStep, RecvConnect, EnterGuard, Ignore, MiddlewareErr,
       MiddlewareOk, ConnectDelAll, Refuse, SendConnect, SendConnectErr, Abort,
       Accept, DropGuard, Goto
  <2> QED BY <2>1 DEF Leaving
<1>2. ASSUME NEW t \in Tasks, RemoveSocket(t)  PROVE Leaving(s)'
  <2>1. task'[t].pc = "leave" /\ sid'[task'[t].sock] = s
    BY <1>2 DEF RemoveSocket
  <2> QED BY <2>1 DEF Leaving
<1> QED BY <1>1, <1>2, NextCases, OtherKeepsCore DEF core, vars

LEMMA RoomStep ==
  ASSUME IInv, ClosedPast, RoomInv, [Next]_vars
  PROVE  RoomInv'
<1> SUFFICES ASSUME NEW s \in Sids, s \in rooms', s \notin late',
                    sockets'[s] = None
             PROVE  Leaving(s)'
  BY DEF RoomInv
<1> USE DEF IInv, TypeOK
<1>1. ASSUME NEW c \in Conns, Join(c), s = sid[c]  PROVE Leaving(s)'
  <2>1. conn'[c] = "middleware" /\ sid'[c] = s
    BY <1>1, ConstantsOK DEF Join
  <2> QED BY <2>1 DEF Leaving
<1>2. CASE sockets[s] # None
  BY <1>2, LostSocket
<1>3. CASE s \in rooms \ late /\ sockets[s] = None
  <2>1. ASSUME NEW c \in Conns, sid[c] = s,
               conn[c] \in {"middleware", "rejected", "unsent"}
        PROVE  sid'[c] = s /\ conn'[c] \in {"middleware", "rejected", "unsent"}
    <3>1. ASSUME NEW d \in Conns,
                 ConnectStep(d) \/ \E r \in Sids : RecvConnect(d, r)
          PROVE  sid'[c] = s /\ conn'[c] \in {"middleware", "rejected", "unsent"}
      BY <2>1, <3>1, ConstantsOK DEF ConnectStep, RecvConnect, EnterGuard,
         Ignore, MiddlewareErr, MiddlewareOk, ConnectDelAll, DelAll, Refuse,
         SendConnect, SendConnectErr, Abort, Accept, DropGuard, Goto
    <3>2. ASSUME NEW t \in Tasks, RemoveSocket(t)  PROVE UNCHANGED <<sid, conn>>
      BY <3>2 DEF RemoveSocket
    <3> QED BY <2>1, <3>1, <3>2, NextCases, OtherKeepsCore DEF core, vars
  <2>2. ASSUME NEW t \in Tasks, task[t].pc = "leave", sid[task[t].sock] = s
        PROVE  task'[t] = task[t] /\ sid'[task'[t].sock] = s
    <3>1. ~LeaveRooms(t)
      BY <2>2 DEF LeaveRooms, DelAll
    <3>2. ASSUME NEW u \in Tasks, CloseStep(u)  PROVE task'[t] = task[t]
      BY <2>2, <3>1, <3>2 DEF CloseStep, ClearConnected, TakeHandler,
         ExtractErr, NoHandler, HandlerDone, RemoveSocket, LeaveRooms
    <3>3. ASSUME NEW u \in Tasks, NEW d \in Conns, BeginClose(u, d)
          PROVE  task'[t] = task[t]
      BY <2>2, <3>3 DEF BeginClose, Idle
    <3>4. task'[t] = task[t]
      BY <3>2, <3>3, TaskCases, MapPast
    <3>5. task[t].sock \in Conns
      BY <2>2 DEF TasksOK
    <3>6. conn[task[t].sock] # "none" => sid'[task[t].sock] = s
      <4>1. ASSUME NEW d \in Conns,
                   ConnectStep(d) \/ \E r \in Sids : RecvConnect(d, r),
                   conn[task[t].sock] # "none"
            PROVE  sid'[task[t].sock] = s
        BY <2>2, <3>5, <4>1, ConnectFrame
      <4>2. ASSUME NEW u \in Tasks, RemoveSocket(u)  PROVE sid' = sid
        BY <4>2 DEF RemoveSocket
      <4> QED BY <2>2, <4>1, <4>2, NextCases, OtherKeepsCore DEF core, vars
    <3> QED BY <2>2, <3>4, <3>5, <3>6 DEF ClosedPast, Past
  <2> QED BY <1>3, <2>1, <2>2 DEF RoomInv, Leaving
<1> QED BY <1>1, <1>2, <1>3, RoomCases

-----------------------------------------------------------------------------
(* The theorems                                                            *)

LEMMA SInvStep == IInv /\ SInv /\ [Next]_vars => SInv'
  BY HandlerStep, AnswerStep, ClosedPastStep, LeakStep, ClosedStep, RoomStep
     DEF SInv

LEMMA SInvAlways == Spec => [](IInv /\ SInv)
<1>1. IInv /\ SInv /\ [Next]_vars => (IInv /\ SInv)'
  BY StepInv, SInvStep
<1> QED BY InitInv, InitSInv, <1>1, PTL DEF Spec

\* However many causes close a socket at once, its disconnect handler runs at
\* most once: Socket::close takes it under its lock.
THEOREM HandlerAtMostOnce == Spec => []HandlerOnce
<1>1. SInv => HandlerOnce
  BY DEF SInv, HandlerInv, HandlerOnce
<1> QED BY SInvAlways, <1>1, PTL

\* A socket is flagged connected only after its CONNECT answer was sent.
THEOREM AnswerFirst == Spec => []ConnectedAfterAnswer
<1>1. SInv => ConnectedAfterAnswer
  BY DEF SInv, AnswerInv, ConnectedAfterAnswer
<1> QED BY SInvAlways, <1>1, PTL

\* When a session is gone and its tasks have finished, the namespace has no
\* socket for it: either on_disconnect finds it, or its CONNECT cannot be sent.
THEOREM NoLeak == Spec => []NoSocketLeak
<1>1. IInv /\ SInv => NoSocketLeak
  <2> SUFFICES ASSUME IInv, SInv, NEW s \in Sids, engine[s] = "gone", Quiet(s),
                      registered, sockets[s] # None
               PROVE  sockets[s] \in stuck
    BY DEF NoSocketLeak
  <2>1. sockets[s] \in Conns /\ sid[sockets[s]] = s
    BY DEF IInv, TypeOK, MapOK
  <2>2. conn[sockets[s]] # "sending"
    BY <2>1 DEF Quiet, Guarded
  <2>3. ~Removing(sockets[s])
    BY <2>1 DEF Quiet, Removing, Idle
  <2> QED BY <2>2, <2>3 DEF SInv, LeakInv
<1> QED BY SInvAlways, <1>1, PTL

\* Whoever closes a socket, and whenever: what stays in the namespace when its
\* tasks have finished is connected (or stuck).
THEOREM CloseRemoves == Spec => []ClosedLeaves
<1>1. IInv /\ SInv => ClosedLeaves
  <2> SUFFICES ASSUME IInv, SInv, NEW s \in Sids, Quiet(s), sockets[s] # None
               PROVE  sockets[s] \in connected \cup stuck
    BY DEF ClosedLeaves
  <2>1. sockets[s] \in Conns /\ sid[sockets[s]] = s
    BY ConstantsOK DEF IInv, TypeOK, MapOK
  <2>2. conn[sockets[s]] \notin {"sending", "flagging"}
    BY <2>1 DEF Quiet, Guarded
  <2> QED BY <2>1, <2>2, ConstantsOK DEF Quiet, Idle, SInv, ClosedInv
<1> QED BY SInvAlways, <1>1, PTL

\* The rooms joined in a middleware or while in the namespace disappear with
\* the socket.
THEOREM NoRoomLeft == Spec => []NoRoomLeak
<1>1. IInv /\ SInv => NoRoomLeak
  <2> SUFFICES ASSUME IInv, SInv, NEW s \in Sids, s \in rooms, s \notin late,
                      sockets[s] = None, Quiet(s)
               PROVE  FALSE
    BY DEF NoRoomLeak
  <2>1. Leaving(s)
    BY DEF SInv, RoomInv
  <2> QED BY <2>1 DEF Leaving, Quiet, Guarded, Idle
<1> QED BY SInvAlways, <1>1, PTL
=============================================================================
