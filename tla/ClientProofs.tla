---------------------------- MODULE ClientProofs ----------------------------
(***************************************************************************)
(* Proofs about Client, for any sessions, packets, paths and instances:    *)
(* a session that is gone has no socket in a registered namespace, and     *)
(* each instance implements Membership.                                    *)
(***************************************************************************)
EXTENDS Client, TLAPS

-----------------------------------------------------------------------------
(* The inductive invariant                                                 *)

\* Where an attempt is agrees with its session, its instance and its socket.
Placed == \A c \in Conns :
  /\ conn[c] = "none" => sid[c] = None /\ inst[c] = None
  /\ conn[c] # "none" => sid[c] \in Sids
  /\ conn[c] \notin {"none", "over"} => inst[c] # None
  /\ inst[c] # None => inst[c] \in 1..created
  /\ c \in sockets => conn[c] \in {"sending", "ok", "done"}

\* Only instances that were created are waited for or registered.
Numbered ==
  /\ adding \subseteq 1..created
  /\ \A p \in Paths : nsps[p] # None => nsps[p] \in 1..created

\* An instance whose adapter is starting is not registered, and nobody but the
\* attempt that created it connects to it.
Fresh ==
  /\ \A i \in adding :
       (\A c \in Conns : inst[c] # i) /\ (\A p \in Paths : nsps[p] # i)
  /\ \A c \in Conns : conn[c] = "init" =>
       /\ \A d \in Conns \ {c} : inst[d] # inst[c]
       /\ \A p \in Paths : nsps[p] # inst[c]

Alive(c) == conn[c] \in {"trying", "sending"} \/ c \in sockets

\* A session has one attempt that is alive in each instance.
OneAlive == \A c, d \in Conns :
  Alive(c) /\ Alive(d) /\ sid[c] = sid[d] /\ inst[c] = inst[d] => c = d

IInv == TypeOK /\ Placed /\ Numbered /\ Fresh /\ OneAlive /\ NoSocketLeak

USE DEF nsVars, sessVars, attemptVars
-----------------------------------------------------------------------------
(* Initiation and consecution                                              *)

LEMMA InitInv == Init => IInv
  BY ConstantsOK DEF Init, IInv, TypeOK, Placed, Numbered, Fresh, OneAlive,
     Alive, NoSocketLeak, Paths, Insts, Stage

\* Every variable keeps its type.
LEMMA TypeNext ==
  ASSUME TypeOK, [Next]_vars
  PROVE  TypeOK'
<1> USE DEF TypeOK, Insts, Stage
<1>1. ASSUME NEW p \in Paths, AddNs(p) PROVE TypeOK'
  BY <1>1, ConstantsOK DEF AddNs, Create
<1>2. ASSUME NEW p \in Paths, DeleteNs(p) PROVE TypeOK'
  BY <1>2 DEF DeleteNs, Locked
<1>3. ASSUME NEW i \in Insts, NsAdded(i) PROVE TypeOK'
  BY <1>3 DEF NsAdded, Locked
<1>4. CASE CloseServer
  BY <1>4 DEF CloseServer, Closed, Locked
<1>5. ASSUME NEW c \in Conns, Guard(c) PROVE TypeOK'
  BY <1>5 DEF Guard, Goto
<1>6. ASSUME NEW c \in Conns, Refuse(c) PROVE TypeOK'
  BY <1>6 DEF Refuse, Goto
<1>7. ASSUME NEW c \in Conns, Insert(c) PROVE TypeOK'
  BY <1>7 DEF Insert, Goto
<1>8. ASSUME NEW c \in Conns, Answer(c) PROVE TypeOK'
  BY <1>8 DEF Answer, Goto, TakesPackets
<1>9. ASSUME NEW c \in Conns, AnswerErr(c) PROVE TypeOK'
  BY <1>9 DEF AnswerErr, Goto, Closed, SocketsOf
<1>10. ASSUME NEW c \in Conns, CancelTimeout(c) PROVE TypeOK'
  BY <1>10 DEF CancelTimeout, Goto
<1>11. ASSUME NEW c \in Conns, DynamicReady(c) PROVE TypeOK'
  BY <1>11 DEF DynamicReady, Goto, Locked
<1>12. ASSUME NEW c \in Conns, DynamicErr(c) PROVE TypeOK'
  BY <1>12 DEF DynamicErr, Goto
<1>13. ASSUME NEW c \in Conns, DeleteNsClose(c) PROVE TypeOK'
  BY <1>13 DEF DeleteNsClose, SocketsOf
<1>14. ASSUME NEW c \in Conns, OnDisconnectClose(c) PROVE TypeOK'
  BY <1>14 DEF OnDisconnectClose, SocketsOf
<1>15. ASSUME NEW s \in Sids, NEW c \in Conns, OnConnectV4(s, c) PROVE TypeOK'
  <2>1. CASE nsps[Root] # None
    BY <1>15, <2>1 DEF OnConnectV4, Goto, Paths
  <2>2. CASE nsps[Root] = None
    BY <1>15, <2>2 DEF OnConnectV4, Goto
  <2> QED BY <2>1, <2>2
<1>16. ASSUME NEW c \in Conns, NEW s \in Sids, NEW p \in Paths,
             RecvConnect(c, s, p)
      PROVE  TypeOK'
  BY <1>16, ConstantsOK DEF RecvConnect, SockConnect, Goto, Closed, Create
<1>17. ASSUME NEW s \in Sids, NEW p \in Paths,
             RecvDisconnect(s, p)
      PROVE  TypeOK'
  BY <1>17 DEF RecvDisconnect, SocketsOf
<1>18. ASSUME NEW s \in Sids, NEW p \in Paths, RecvForGone(s, p) PROVE TypeOK'
  BY <1>18 DEF RecvForGone, Closed
<1>19. ASSUME NEW s \in Sids, OnConnectV5(s) PROVE TypeOK'
  BY <1>19 DEF OnConnectV5
<1>20. ASSUME NEW s \in Sids, ConnectTimeout(s) PROVE TypeOK'
  BY <1>20 DEF ConnectTimeout, Closed
<1>21. ASSUME NEW s \in Sids, SessionEnds(s) PROVE TypeOK'
  BY <1>21 DEF SessionEnds, Closed
<1>22. ASSUME NEW s \in Sids, CloseChannel(s) PROVE TypeOK'
  BY <1>22 DEF CloseChannel
<1>23. ASSUME NEW s \in Sids, OnDisconnect(s) PROVE TypeOK'
  BY <1>23 DEF OnDisconnect, SocketsOf
<1>24. CASE UNCHANGED vars
  BY <1>24 DEF vars
<1> QED BY <1>1, <1>2, <1>3, <1>4, <1>5, <1>6, <1>7, <1>8, <1>9, <1>10, <1>11,
   <1>12, <1>13, <1>14, <1>15, <1>16, <1>17, <1>18, <1>19, <1>20, <1>21, <1>22,
   <1>23, <1>24 DEF Next, Connect

\* An attempt gets its session and its instance together with its stage.
LEMMA PlacedNext ==
  ASSUME TypeOK, Placed, Numbered, [Next]_vars
  PROVE  Placed'
<1> USE DEF TypeOK, Placed, Numbered, Insts
<1>1. ASSUME NEW p \in Paths, AddNs(p) PROVE Placed'
  BY <1>1 DEF AddNs, Create
<1>2. ASSUME NEW p \in Paths, DeleteNs(p) PROVE Placed'
  BY <1>2 DEF DeleteNs, Locked
<1>3. ASSUME NEW i \in Insts, NsAdded(i) PROVE Placed'
  BY <1>3 DEF NsAdded, Locked
<1>4. CASE CloseServer
  BY <1>4 DEF CloseServer, Closed, Locked
<1>5. ASSUME NEW c \in Conns, Guard(c) PROVE Placed'
  BY <1>5 DEF Guard, Goto
<1>6. ASSUME NEW c \in Conns, Refuse(c) PROVE Placed'
  BY <1>6 DEF Refuse, Goto
<1>7. ASSUME NEW c \in Conns, Insert(c) PROVE Placed'
  BY <1>7 DEF Insert, Goto
<1>8. ASSUME NEW c \in Conns, Answer(c) PROVE Placed'
  BY <1>8 DEF Answer, Goto, TakesPackets
<1>9. ASSUME NEW c \in Conns, AnswerErr(c) PROVE Placed'
  BY <1>9 DEF AnswerErr, Goto, Closed, SocketsOf
<1>10. ASSUME NEW c \in Conns, CancelTimeout(c) PROVE Placed'
  BY <1>10 DEF CancelTimeout, Goto
<1>11. ASSUME NEW c \in Conns, DynamicReady(c) PROVE Placed'
  BY <1>11 DEF DynamicReady, Goto, Locked
<1>12. ASSUME NEW c \in Conns, DynamicErr(c) PROVE Placed'
  BY <1>12 DEF DynamicErr, Goto
<1>13. ASSUME NEW c \in Conns, DeleteNsClose(c) PROVE Placed'
  BY <1>13 DEF DeleteNsClose, SocketsOf
<1>14. ASSUME NEW c \in Conns, OnDisconnectClose(c) PROVE Placed'
  BY <1>14 DEF OnDisconnectClose, SocketsOf
<1>15. ASSUME NEW s \in Sids, NEW c \in Conns, OnConnectV4(s, c) PROVE Placed'
  <2>1. CASE nsps[Root] # None
    BY <1>15, <2>1 DEF OnConnectV4, Goto, Paths
  <2>2. CASE nsps[Root] = None
    BY <1>15, <2>2 DEF OnConnectV4, Goto
  <2> QED BY <2>1, <2>2
<1>16. ASSUME NEW c \in Conns, NEW s \in Sids, NEW p \in Paths,
             RecvConnect(c, s, p)
      PROVE  Placed'
  <2>1. CASE nsps[p] # None
    BY <1>16, <2>1 DEF RecvConnect, SockConnect, Goto
  <2>2. CASE nsps[p] = None /\ p \in Dynamic
    <3>1. created + 1 \in 1..created' /\ created' = created + 1
      BY <1>16, <2>2, ConstantsOK DEF RecvConnect, SockConnect, Create
    <3>2. created + 1 # None
      BY <1>16, <2>2, ConstantsOK DEF RecvConnect, SockConnect, Create
    <3> QED BY <1>16, <2>2, <3>1, <3>2 DEF RecvConnect, SockConnect, Goto
  <2>3. CASE nsps[p] = None /\ p \notin Dynamic
    BY <1>16, <2>3 DEF RecvConnect, SockConnect, Goto
  <2> QED BY <2>1, <2>2, <2>3
<1>17. ASSUME NEW s \in Sids, NEW p \in Paths,
             RecvDisconnect(s, p)
      PROVE  Placed'
  BY <1>17 DEF RecvDisconnect, SocketsOf
<1>18. ASSUME NEW s \in Sids, NEW p \in Paths, RecvForGone(s, p) PROVE Placed'
  BY <1>18 DEF RecvForGone, Closed
<1>19. ASSUME NEW s \in Sids, OnConnectV5(s) PROVE Placed'
  BY <1>19 DEF OnConnectV5
<1>20. ASSUME NEW s \in Sids, ConnectTimeout(s) PROVE Placed'
  BY <1>20 DEF ConnectTimeout, Closed
<1>21. ASSUME NEW s \in Sids, SessionEnds(s) PROVE Placed'
  BY <1>21 DEF SessionEnds, Closed
<1>22. ASSUME NEW s \in Sids, CloseChannel(s) PROVE Placed'
  BY <1>22 DEF CloseChannel
<1>23. ASSUME NEW s \in Sids, OnDisconnect(s) PROVE Placed'
  BY <1>23 DEF OnDisconnect, SocketsOf
<1>24. CASE UNCHANGED vars
  BY <1>24 DEF vars
<1> QED BY <1>1, <1>2, <1>3, <1>4, <1>5, <1>6, <1>7, <1>8, <1>9, <1>10, <1>11,
   <1>12, <1>13, <1>14, <1>15, <1>16, <1>17, <1>18, <1>19, <1>20, <1>21, <1>22,
   <1>23, <1>24 DEF Next, Connect

\* An instance is waited for, then registered, once it was created.
LEMMA NumberedNext ==
  ASSUME TypeOK, Placed, Numbered, [Next]_vars
  PROVE  Numbered'
<1> USE DEF TypeOK, Placed, Numbered, Insts
<1>1. ASSUME NEW p \in Paths, AddNs(p) PROVE Numbered'
  BY <1>1 DEF AddNs, Create
<1>2. ASSUME NEW p \in Paths, DeleteNs(p) PROVE Numbered'
  BY <1>2 DEF DeleteNs, Locked
<1>3. ASSUME NEW i \in Insts, NsAdded(i) PROVE Numbered'
  BY <1>3 DEF NsAdded, Locked
<1>4. CASE CloseServer
  BY <1>4 DEF CloseServer, Closed, Locked
<1>5. ASSUME NEW c \in Conns, Guard(c) PROVE Numbered'
  BY <1>5 DEF Guard, Goto
<1>6. ASSUME NEW c \in Conns, Refuse(c) PROVE Numbered'
  BY <1>6 DEF Refuse, Goto
<1>7. ASSUME NEW c \in Conns, Insert(c) PROVE Numbered'
  BY <1>7 DEF Insert, Goto
<1>8. ASSUME NEW c \in Conns, Answer(c) PROVE Numbered'
  BY <1>8 DEF Answer, Goto, TakesPackets
<1>9. ASSUME NEW c \in Conns, AnswerErr(c) PROVE Numbered'
  BY <1>9 DEF AnswerErr, Goto, Closed, SocketsOf
<1>10. ASSUME NEW c \in Conns, CancelTimeout(c) PROVE Numbered'
  BY <1>10 DEF CancelTimeout, Goto
<1>11. ASSUME NEW c \in Conns, DynamicReady(c) PROVE Numbered'
  BY <1>11 DEF DynamicReady, Goto, Locked
<1>12. ASSUME NEW c \in Conns, DynamicErr(c) PROVE Numbered'
  BY <1>12 DEF DynamicErr, Goto
<1>13. ASSUME NEW c \in Conns, DeleteNsClose(c) PROVE Numbered'
  BY <1>13 DEF DeleteNsClose, SocketsOf
<1>14. ASSUME NEW c \in Conns, OnDisconnectClose(c) PROVE Numbered'
  BY <1>14 DEF OnDisconnectClose, SocketsOf
<1>15. ASSUME NEW s \in Sids, NEW c \in Conns,
             OnConnectV4(s, c)
      PROVE  Numbered'
  BY <1>15 DEF OnConnectV4, Goto
<1>16. ASSUME NEW c \in Conns, NEW s \in Sids, NEW p \in Paths,
             RecvConnect(c, s, p)
      PROVE  Numbered'
  BY <1>16 DEF RecvConnect, SockConnect, Goto, Closed, Create
<1>17. ASSUME NEW s \in Sids, NEW p \in Paths,
             RecvDisconnect(s, p)
      PROVE  Numbered'
  BY <1>17 DEF RecvDisconnect, SocketsOf
<1>18. ASSUME NEW s \in Sids, NEW p \in Paths,
             RecvForGone(s, p)
      PROVE  Numbered'
  BY <1>18 DEF RecvForGone, Closed
<1>19. ASSUME NEW s \in Sids, OnConnectV5(s) PROVE Numbered'
  BY <1>19 DEF OnConnectV5
<1>20. ASSUME NEW s \in Sids, ConnectTimeout(s) PROVE Numbered'
  BY <1>20 DEF ConnectTimeout, Closed
<1>21. ASSUME NEW s \in Sids, SessionEnds(s) PROVE Numbered'
  BY <1>21 DEF SessionEnds, Closed
<1>22. ASSUME NEW s \in Sids, CloseChannel(s) PROVE Numbered'
  BY <1>22 DEF CloseChannel
<1>23. ASSUME NEW s \in Sids, OnDisconnect(s) PROVE Numbered'
  BY <1>23 DEF OnDisconnect, SocketsOf
<1>24. CASE UNCHANGED vars
  BY <1>24 DEF vars
<1> QED BY <1>1, <1>2, <1>3, <1>4, <1>5, <1>6, <1>7, <1>8, <1>9, <1>10, <1>11,
   <1>12, <1>13, <1>14, <1>15, <1>16, <1>17, <1>18, <1>19, <1>20, <1>21, <1>22,
   <1>23, <1>24 DEF Next, Connect

\* A new instance has a number that no attempt and no path has.
LEMMA FreshNext ==
  ASSUME TypeOK, Placed, Numbered, Fresh, [Next]_vars
  PROVE  Fresh'
<1> USE DEF TypeOK, Placed, Numbered, Fresh, Insts
<1>1. ASSUME NEW p \in Paths, AddNs(p) PROVE Fresh'
  <2>1. /\ created + 1 \in Insts /\ created + 1 \notin 1..created
        /\ created + 1 # None
    BY <1>1, ConstantsOK DEF AddNs, Create
  <2>2. /\ \A d \in Conns : inst[d] # created + 1
        /\ \A q \in Paths : nsps[q] # created + 1
    BY <2>1
  <2> QED BY <1>1, <2>2 DEF AddNs, Create
<1>2. ASSUME NEW p \in Paths, DeleteNs(p) PROVE Fresh'
  BY <1>2, ConstantsOK DEF DeleteNs, Locked
<1>3. ASSUME NEW i \in Insts, NsAdded(i) PROVE Fresh'
  BY <1>3 DEF NsAdded, Locked
<1>4. CASE CloseServer
  BY <1>4, ConstantsOK DEF CloseServer, Closed, Locked
<1>5. ASSUME NEW c \in Conns, Guard(c) PROVE Fresh'
  BY <1>5 DEF Guard, Goto
<1>6. ASSUME NEW c \in Conns, Refuse(c) PROVE Fresh'
  BY <1>6 DEF Refuse, Goto
<1>7. ASSUME NEW c \in Conns, Insert(c) PROVE Fresh'
  BY <1>7 DEF Insert, Goto
<1>8. ASSUME NEW c \in Conns, Answer(c) PROVE Fresh'
  BY <1>8 DEF Answer, Goto, TakesPackets
<1>9. ASSUME NEW c \in Conns, AnswerErr(c) PROVE Fresh'
  BY <1>9 DEF AnswerErr, Goto, Closed, SocketsOf
<1>10. ASSUME NEW c \in Conns, CancelTimeout(c) PROVE Fresh'
  BY <1>10 DEF CancelTimeout, Goto
<1>11. ASSUME NEW c \in Conns, DynamicReady(c) PROVE Fresh'
  BY <1>11 DEF DynamicReady, Goto, Locked
<1>12. ASSUME NEW c \in Conns, DynamicErr(c) PROVE Fresh'
  BY <1>12, ConstantsOK DEF DynamicErr, Goto
<1>13. ASSUME NEW c \in Conns, DeleteNsClose(c) PROVE Fresh'
  BY <1>13 DEF DeleteNsClose, SocketsOf
<1>14. ASSUME NEW c \in Conns, OnDisconnectClose(c) PROVE Fresh'
  BY <1>14 DEF OnDisconnectClose, SocketsOf
<1>15. ASSUME NEW s \in Sids, NEW c \in Conns, OnConnectV4(s, c) PROVE Fresh'
  <2>1. /\ \A d \in Conns \ {c} : inst'[d] = inst[d] /\ conn'[d] = conn[d]
        /\ conn'[c] # "init" /\ nsps' = nsps /\ adding' = adding
    BY <1>15 DEF OnConnectV4, Goto
  <2>2. inst'[c] \in {None, nsps[Root]} /\ Root \in Paths
    BY <1>15 DEF OnConnectV4, Goto, Paths
  <2>3. \A i \in Insts : (\A p \in Paths : nsps[p] # i) => inst'[c] # i
    BY <2>2, ConstantsOK
  <2> QED BY <2>1, <2>3
<1>16. ASSUME NEW c \in Conns, NEW s \in Sids, NEW p \in Paths,
             RecvConnect(c, s, p)
      PROVE  Fresh'
  BY <1>16, ConstantsOK DEF RecvConnect, SockConnect, Goto, Closed, Create
<1>17. ASSUME NEW s \in Sids, NEW p \in Paths,
             RecvDisconnect(s, p)
      PROVE  Fresh'
  BY <1>17 DEF RecvDisconnect, SocketsOf
<1>18. ASSUME NEW s \in Sids, NEW p \in Paths, RecvForGone(s, p) PROVE Fresh'
  BY <1>18 DEF RecvForGone, Closed
<1>19. ASSUME NEW s \in Sids, OnConnectV5(s) PROVE Fresh'
  BY <1>19 DEF OnConnectV5
<1>20. ASSUME NEW s \in Sids, ConnectTimeout(s) PROVE Fresh'
  BY <1>20 DEF ConnectTimeout, Closed
<1>21. ASSUME NEW s \in Sids, SessionEnds(s) PROVE Fresh'
  BY <1>21 DEF SessionEnds, Closed
<1>22. ASSUME NEW s \in Sids, CloseChannel(s) PROVE Fresh'
  BY <1>22 DEF CloseChannel
<1>23. ASSUME NEW s \in Sids, OnDisconnect(s) PROVE Fresh'
  BY <1>23 DEF OnDisconnect, SocketsOf
<1>24. CASE UNCHANGED vars
  BY <1>24 DEF vars
<1> QED BY <1>1, <1>2, <1>3, <1>4, <1>5, <1>6, <1>7, <1>8, <1>9, <1>10, <1>11,
   <1>12, <1>13, <1>14, <1>15, <1>16, <1>17, <1>18, <1>19, <1>20, <1>21, <1>22,
   <1>23, <1>24 DEF Next, Connect

\* The guard admits an attempt that has no rival; the rivals of an attempt are
\* alive, and those that are not alive yet have their guard before them.
LEMMA OneAliveNext ==
  ASSUME TypeOK, Placed, OneAlive, [Next]_vars
  PROVE  OneAlive'
<1> USE DEF TypeOK, Placed, OneAlive, Alive
<1>1. ASSUME NEW p \in Paths, AddNs(p) PROVE OneAlive'
  BY <1>1 DEF AddNs, Create
<1>2. ASSUME NEW p \in Paths, DeleteNs(p) PROVE OneAlive'
  BY <1>2 DEF DeleteNs, Locked
<1>3. ASSUME NEW i \in Insts, NsAdded(i) PROVE OneAlive'
  BY <1>3 DEF NsAdded, Locked
<1>4. CASE CloseServer
  BY <1>4 DEF CloseServer, Closed, Locked
<1>5. ASSUME NEW c \in Conns, Guard(c) PROVE OneAlive'
  BY <1>5 DEF Guard, Goto, Rivals
<1>6. ASSUME NEW c \in Conns, Refuse(c) PROVE OneAlive'
  BY <1>6 DEF Refuse, Goto
<1>7. ASSUME NEW c \in Conns, Insert(c) PROVE OneAlive'
  BY <1>7 DEF Insert, Goto
<1>8. ASSUME NEW c \in Conns, Answer(c) PROVE OneAlive'
  BY <1>8 DEF Answer, Goto, TakesPackets
<1>9. ASSUME NEW c \in Conns, AnswerErr(c) PROVE OneAlive'
  BY <1>9 DEF AnswerErr, Goto, Closed, SocketsOf
<1>10. ASSUME NEW c \in Conns, CancelTimeout(c) PROVE OneAlive'
  BY <1>10 DEF CancelTimeout, Goto
<1>11. ASSUME NEW c \in Conns, DynamicReady(c) PROVE OneAlive'
  BY <1>11 DEF DynamicReady, Goto, Locked
<1>12. ASSUME NEW c \in Conns, DynamicErr(c) PROVE OneAlive'
  BY <1>12 DEF DynamicErr, Goto
<1>13. ASSUME NEW c \in Conns, DeleteNsClose(c) PROVE OneAlive'
  BY <1>13 DEF DeleteNsClose, SocketsOf
<1>14. ASSUME NEW c \in Conns, OnDisconnectClose(c) PROVE OneAlive'
  BY <1>14 DEF OnDisconnectClose, SocketsOf
<1>15. ASSUME NEW s \in Sids, NEW c \in Conns,
             OnConnectV4(s, c)
      PROVE  OneAlive'
  BY <1>15 DEF OnConnectV4, Goto
<1>16. ASSUME NEW c \in Conns, NEW s \in Sids, NEW p \in Paths,
             RecvConnect(c, s, p)
      PROVE  OneAlive'
  BY <1>16 DEF RecvConnect, SockConnect, Goto, Closed, Create
<1>17. ASSUME NEW s \in Sids, NEW p \in Paths,
             RecvDisconnect(s, p)
      PROVE  OneAlive'
  BY <1>17 DEF RecvDisconnect, SocketsOf
<1>18. ASSUME NEW s \in Sids, NEW p \in Paths,
             RecvForGone(s, p)
      PROVE  OneAlive'
  BY <1>18 DEF RecvForGone, Closed
<1>19. ASSUME NEW s \in Sids, OnConnectV5(s) PROVE OneAlive'
  BY <1>19 DEF OnConnectV5
<1>20. ASSUME NEW s \in Sids, ConnectTimeout(s) PROVE OneAlive'
  BY <1>20 DEF ConnectTimeout, Closed
<1>21. ASSUME NEW s \in Sids, SessionEnds(s) PROVE OneAlive'
  BY <1>21 DEF SessionEnds, Closed
<1>22. ASSUME NEW s \in Sids, CloseChannel(s) PROVE OneAlive'
  BY <1>22 DEF CloseChannel
<1>23. ASSUME NEW s \in Sids, OnDisconnect(s) PROVE OneAlive'
  BY <1>23 DEF OnDisconnect, SocketsOf
<1>24. CASE UNCHANGED vars
  BY <1>24 DEF vars
<1> QED BY <1>1, <1>2, <1>3, <1>4, <1>5, <1>6, <1>7, <1>8, <1>9, <1>10, <1>11,
   <1>12, <1>13, <1>14, <1>15, <1>16, <1>17, <1>18, <1>19, <1>20, <1>21, <1>22,
   <1>23, <1>24 DEF Next, Connect

\* An instance that enters the map has no socket; an answer needs a session
\* that takes packets; on_disconnect finds the sockets of every registered
\* instance.
LEMMA LeakNext ==
  ASSUME TypeOK, Placed, Numbered, Fresh, NoSocketLeak, [Next]_vars
  PROVE  NoSocketLeak'
<1> USE DEF TypeOK, Placed, Numbered, Fresh, NoSocketLeak, Registered, Insts
<1>1. ASSUME NEW p \in Paths, AddNs(p) PROVE NoSocketLeak'
  BY <1>1 DEF AddNs, Create
<1>2. ASSUME NEW p \in Paths, DeleteNs(p) PROVE NoSocketLeak'
  BY <1>2 DEF DeleteNs, Locked
<1>3. ASSUME NEW i \in Insts, NsAdded(i) PROVE NoSocketLeak'
  BY <1>3 DEF NsAdded, Locked
<1>4. CASE CloseServer
  BY <1>4 DEF CloseServer, Closed, Locked
<1>5. ASSUME NEW c \in Conns, Guard(c) PROVE NoSocketLeak'
  BY <1>5 DEF Guard, Goto
<1>6. ASSUME NEW c \in Conns, Refuse(c) PROVE NoSocketLeak'
  BY <1>6 DEF Refuse, Goto
<1>7. ASSUME NEW c \in Conns, Insert(c) PROVE NoSocketLeak'
  BY <1>7 DEF Insert, Goto
<1>8. ASSUME NEW c \in Conns, Answer(c) PROVE NoSocketLeak'
  BY <1>8 DEF Answer, Goto, TakesPackets
<1>9. ASSUME NEW c \in Conns, AnswerErr(c) PROVE NoSocketLeak'
  BY <1>9 DEF AnswerErr, Goto, Closed, SocketsOf
<1>10. ASSUME NEW c \in Conns, CancelTimeout(c) PROVE NoSocketLeak'
  BY <1>10 DEF CancelTimeout, Goto
<1>11. ASSUME NEW c \in Conns, DynamicReady(c) PROVE NoSocketLeak'
  BY <1>11 DEF DynamicReady, Goto, Locked
<1>12. ASSUME NEW c \in Conns, DynamicErr(c) PROVE NoSocketLeak'
  BY <1>12 DEF DynamicErr, Goto
<1>13. ASSUME NEW c \in Conns, DeleteNsClose(c) PROVE NoSocketLeak'
  BY <1>13 DEF DeleteNsClose, SocketsOf
<1>14. ASSUME NEW c \in Conns, OnDisconnectClose(c) PROVE NoSocketLeak'
  BY <1>14 DEF OnDisconnectClose, SocketsOf
<1>15. ASSUME NEW s \in Sids, NEW c \in Conns,
             OnConnectV4(s, c)
      PROVE  NoSocketLeak'
  BY <1>15 DEF OnConnectV4, Goto
<1>16. ASSUME NEW c \in Conns, NEW s \in Sids, NEW p \in Paths,
             RecvConnect(c, s, p)
      PROVE  NoSocketLeak'
  BY <1>16 DEF RecvConnect, SockConnect, Goto, Closed, Create
<1>17. ASSUME NEW s \in Sids, NEW p \in Paths,
             RecvDisconnect(s, p)
      PROVE  NoSocketLeak'
  BY <1>17 DEF RecvDisconnect, SocketsOf
<1>18. ASSUME NEW s \in Sids, NEW p \in Paths,
             RecvForGone(s, p)
      PROVE  NoSocketLeak'
  BY <1>18 DEF RecvForGone, Closed
<1>19. ASSUME NEW s \in Sids, OnConnectV5(s) PROVE NoSocketLeak'
  BY <1>19 DEF OnConnectV5
<1>20. ASSUME NEW s \in Sids, ConnectTimeout(s) PROVE NoSocketLeak'
  BY <1>20 DEF ConnectTimeout, Closed
<1>21. ASSUME NEW s \in Sids, SessionEnds(s) PROVE NoSocketLeak'
  BY <1>21 DEF SessionEnds, Closed
<1>22. ASSUME NEW s \in Sids, CloseChannel(s) PROVE NoSocketLeak'
  BY <1>22 DEF CloseChannel
<1>23. ASSUME NEW s \in Sids, OnDisconnect(s) PROVE NoSocketLeak'
  BY <1>23 DEF OnDisconnect, SocketsOf
<1>24. CASE UNCHANGED vars
  BY <1>24 DEF vars
<1> QED BY <1>1, <1>2, <1>3, <1>4, <1>5, <1>6, <1>7, <1>8, <1>9, <1>10, <1>11,
   <1>12, <1>13, <1>14, <1>15, <1>16, <1>17, <1>18, <1>19, <1>20, <1>21, <1>22,
   <1>23, <1>24 DEF Next, Connect

LEMMA Consecution == IInv /\ [Next]_vars => IInv'
  BY TypeNext, PlacedNext, NumberedNext, FreshNext, OneAliveNext, LeakNext
     DEF IInv

\* The invariant of the map of namespaces and of the attempts.
THEOREM Invariance == Spec => []IInv
  BY InitInv, Consecution, PTL DEF Spec

\* A session that is gone has no socket left in a registered namespace, for
\* any number of sessions, packets and namespaces: SocketsOf in on_disconnect
\* sees all of them, and no answer reaches a session that is gone.
THEOREM NoLeak == Spec => []NoSocketLeak
<1>1. IInv => NoSocketLeak
  BY DEF IInv
<1> QED BY Invariance, <1>1, PTL

-----------------------------------------------------------------------------
(* Refinement of Membership                                                *)

LifeMap == [c \in Conns |-> Life(c)]

Owner(c) == IF Life(c) = "new" THEN None ELSE <<inst[c], sid[c]>>
OwnerMap == [c \in Conns |-> Owner(c)]

\* The mapping, spelled out for each stage.
LEMMA LifeCases ==
  ASSUME NEW c \in Conns
  PROVE  /\ conn[c] \in {"none", "init"} => Life(c) = "new"
         /\ conn[c] = "spawned" => Life(c) = "arrived"
         /\ conn[c] = "trying" => Life(c) = "trying"
         /\ conn[c] \notin {"none", "init", "spawned", "trying"} =>
              Life(c) = IF c \in sockets THEN "member"
                        ELSE IF inst[c] = None THEN "new" ELSE "out"
  BY DEF Life

LEMMA LifeCasesNext ==
  ASSUME NEW c \in Conns
  PROVE  /\ conn'[c] \in {"none", "init"} => Life(c)' = "new"
         /\ conn'[c] = "spawned" => Life(c)' = "arrived"
         /\ conn'[c] = "trying" => Life(c)' = "trying"
         /\ conn'[c] \notin {"none", "init", "spawned", "trying"} =>
              Life(c)' = IF c \in sockets' THEN "member"
                         ELSE IF inst'[c] = None THEN "new" ELSE "out"
  BY DEF Life

\* An attempt that a step does not touch stays as it is.
Untouched(d) ==
  /\ conn'[d] = conn[d] /\ inst'[d] = inst[d] /\ sid'[d] = sid[d]
  /\ d \in sockets' <=> d \in sockets

LEMMA UntouchedSame ==
  ASSUME NEW d \in Conns, Untouched(d)
  PROVE  Life(d)' = Life(d) /\ Owner(d)' = Owner(d)
<1>1. Life(d)' = Life(d)
  BY DEF Untouched, Life
<1> QED BY <1>1 DEF Untouched, Owner

\* What a step does to the abstract state, from what it does to each attempt.
LEMMA RefineSame ==
  ASSUME \A d \in Conns : Life(d)' = Life(d) /\ Owner(d)' = Owner(d)
  PROVE  UNCHANGED M!vars
<1>1. LifeMap' = LifeMap
  BY DEF LifeMap
<1>2. OwnerMap' = OwnerMap
  BY DEF OwnerMap
<1> QED BY <1>1, <1>2 DEF M!vars, LifeMap, OwnerMap, Owner

LEMMA RefineArrive ==
  ASSUME NEW c \in Conns, Life(c) = "new", Life(c)' = "arrived",
         \A d \in Conns \ {c} : Untouched(d),
         NEW o \in Insts \X Sids, Owner(c)' = o
  PROVE  M!Next
<1>1. \A d \in Conns \ {c} : Life(d)' = Life(d) /\ Owner(d)' = Owner(d)
  BY UntouchedSame
<1>2. LifeMap' = [LifeMap EXCEPT ![c] = "arrived"]
  BY <1>1 DEF LifeMap
<1>3. OwnerMap' = [OwnerMap EXCEPT ![c] = o]
  BY <1>1 DEF OwnerMap
<1>4. M!Arrive(c, o)
  BY <1>2, <1>3 DEF M!Arrive, M!Become, LifeMap, OwnerMap, Owner
<1> QED BY <1>4 DEF M!Next

\* The step of one attempt that keeps its owner.
LEMMA RefineBecome ==
  ASSUME NEW c \in Conns, NEW stage, Life(c)' = stage, Owner(c)' = Owner(c),
         \A d \in Conns \ {c} : Untouched(d)
  PROVE  LifeMap' = [LifeMap EXCEPT ![c] = stage] /\ OwnerMap' = OwnerMap
<1>1. \A d \in Conns \ {c} : Life(d)' = Life(d) /\ Owner(d)' = Owner(d)
  BY UntouchedSame
<1> QED BY <1>1 DEF LifeMap, OwnerMap

LEMMA RefineLeave ==
  ASSUME NEW c \in Conns, Life(c) \in {"arrived", "trying", "member"},
         Life(c)' = "out", Owner(c)' = Owner(c),
         \A d \in Conns \ {c} : Untouched(d)
  PROVE  M!Next
<1>1. LifeMap' = [LifeMap EXCEPT ![c] = "out"] /\ OwnerMap' = OwnerMap
  BY RefineBecome
<1>2. M!Leave(c)
  BY <1>1 DEF M!Leave, M!Become, LifeMap, OwnerMap, Owner
<1> QED BY <1>2 DEF M!Next

\* An attempt that passes the guard has no rival that is tried or admitted.
LEMMA RefineGuard ==
  ASSUME IInv, NEW c \in Conns, Guard(c)
  PROVE  M!Next
<1> USE DEF IInv, TypeOK, Placed, Guard, Goto
<1>1. Life(c) = "arrived" /\ inst[c] # None
  BY LifeCases
<1>2. \A d \in Conns \ {c} : Untouched(d)
  BY DEF Untouched
<1>3. CASE Rivals(c) # {}
  <2>1. Life(c)' = "out"
    BY <1>1, <1>3, LifeCasesNext
  <2>2. Owner(c)' = Owner(c)
    BY <1>1, <2>1 DEF Owner
  <2> QED BY <1>1, <1>2, <2>1, <2>2, RefineLeave
<1>4. CASE Rivals(c) = {}
  <2>1. Life(c)' = "trying"
    BY <1>4, LifeCasesNext
  <2>2. Owner(c)' = Owner(c)
    BY <1>1, <2>1 DEF Owner
  <2>3. LifeMap' = [LifeMap EXCEPT ![c] = "trying"] /\ OwnerMap' = OwnerMap
    BY <1>2, <2>1, <2>2, RefineBecome
  <2>4. ASSUME NEW d \in Conns, Owner(d) = Owner(c),
               Life(d) \in {"trying", "member"}
        PROVE  FALSE
    <3>1. inst[d] = inst[c] /\ sid[d] = sid[c]
      BY <1>1, <2>4 DEF Owner
    <3>2. conn[d] = "trying" \/ d \in sockets
      BY <2>4 DEF Life
    <3>3. d # c
      BY <1>1, <2>4
    <3> QED BY <1>4, <3>1, <3>2, <3>3 DEF Rivals
  <2>5. M!Try(c)
    BY <1>1, <2>3, <2>4 DEF M!Try, M!Become, LifeMap, OwnerMap, Owner
  <2> QED BY <2>5 DEF M!Next
<1> QED BY <1>3, <1>4

\* The other steps of the task of an attempt.
LEMMA RefineConnect ==
  ASSUME IInv, NEW c \in Conns, Connect(c) \/ DynamicReady(c) \/ DynamicErr(c)
  PROVE  M!Next \/ UNCHANGED M!vars
<1> USE DEF IInv, TypeOK, Placed, Goto
<1>1. CASE Guard(c)
  BY <1>1, RefineGuard
<1>2. CASE Refuse(c)
  <2>1. \A d \in Conns \ {c} : Untouched(d)
    BY <1>2 DEF Refuse, Untouched
  <2>2. Life(c) = "trying" /\ Life(c)' = "out"
    BY <1>2, LifeCases, LifeCasesNext DEF Refuse
  <2>3. Owner(c)' = Owner(c)
    BY <1>2, <2>2 DEF Refuse, Owner
  <2> QED BY <2>1, <2>2, <2>3, RefineLeave
<1>3. CASE Insert(c)
  <2>1. \A d \in Conns \ {c} : Untouched(d)
    BY <1>3 DEF Insert, Untouched
  <2>2. Life(c) = "trying" /\ Life(c)' = "member"
    BY <1>3, LifeCases, LifeCasesNext DEF Insert
  <2>3. Owner(c)' = Owner(c)
    BY <1>3, <2>2 DEF Insert, Owner
  <2>4. LifeMap' = [LifeMap EXCEPT ![c] = "member"] /\ OwnerMap' = OwnerMap
    BY <2>1, <2>2, <2>3, RefineBecome
  <2>5. M!Admit(c)
    BY <2>2, <2>4 DEF M!Admit, M!Become, LifeMap, OwnerMap, Owner
  <2> QED BY <2>5 DEF M!Next
<1>4. CASE Answer(c) \/ CancelTimeout(c)
  <2>1. \A d \in Conns \ {c} : Untouched(d)
    BY <1>4 DEF Answer, CancelTimeout, Untouched
  <2>2. Life(c)' = Life(c)
    BY <1>4, LifeCases, LifeCasesNext DEF Answer, CancelTimeout
  <2>3. Owner(c)' = Owner(c)
    BY <1>4, <2>2 DEF Answer, CancelTimeout, Owner
  <2> QED BY <2>1, <2>2, <2>3, UntouchedSame, RefineSame
<1>5. CASE AnswerErr(c)
  <2>1. \A d \in SocketsOf(sid[c], {inst[c]}) : d = c
    BY <1>5 DEF AnswerErr, SocketsOf, OneAlive, Alive
  <2>2. \A d \in Conns \ {c} : Untouched(d)
    BY <1>5, <2>1 DEF AnswerErr, Untouched
  <2>3. c \notin sockets'
    BY <1>5 DEF AnswerErr, SocketsOf
  <2>4. Life(c)' = "out" /\ Life(c) \in {"member", "out"}
    BY <1>5, <2>3, LifeCases, LifeCasesNext DEF AnswerErr
  <2>5. Owner(c)' = Owner(c)
    BY <1>5, <2>4 DEF AnswerErr, Owner
  <2>6. CASE Life(c) = "member"
    BY <2>2, <2>4, <2>5, <2>6, RefineLeave
  <2>7. CASE Life(c) = "out"
    BY <2>2, <2>4, <2>5, <2>7, UntouchedSame, RefineSame
  <2> QED BY <2>4, <2>6, <2>7
<1>6. CASE DynamicReady(c)
  <2>1. \A d \in Conns \ {c} : Untouched(d)
    BY <1>6 DEF DynamicReady, Untouched
  <2>2. Life(c) = "new" /\ Life(c)' = "arrived"
    BY <1>6, LifeCases, LifeCasesNext DEF DynamicReady
  <2>3. Owner(c)' = <<inst[c], sid[c]>>
    BY <1>6, <2>2 DEF DynamicReady, Owner
  <2>4. inst[c] \in Insts /\ sid[c] \in Sids
    BY <1>6 DEF DynamicReady
  <2> QED BY <2>1, <2>2, <2>3, <2>4, RefineArrive
<1>7. CASE DynamicErr(c)
  <2>1. \A d \in Conns \ {c} : Untouched(d)
    BY <1>7 DEF DynamicErr, Untouched
  <2>2. Life(c) = "new" /\ Life(c)' = "new"
    BY <1>7, LifeCases, LifeCasesNext DEF DynamicErr
  <2>3. Owner(c)' = Owner(c)
    BY <2>2 DEF Owner
  <2> QED BY <2>1, <2>2, <2>3, UntouchedSame, RefineSame
<1> QED BY <1>1, <1>2, <1>3, <1>4, <1>5, <1>6, <1>7 DEF Connect

\* The first step of an attempt: it arrives at a registered instance, or waits
\* for its own, or ends.
LEMMA RefineFirst ==
  ASSUME IInv, NEW c \in Conns, NEW s \in Sids,
         OnConnectV4(s, c) \/ \E p \in Paths : RecvConnect(c, s, p)
  PROVE  M!Next \/ UNCHANGED M!vars
<1> USE DEF IInv, TypeOK, Placed, Goto
<1>1. /\ conn[c] = "none" /\ inst[c] = None /\ c \notin sockets
      /\ sid' = [sid EXCEPT ![c] = s] /\ sockets' = sockets
  BY DEF OnConnectV4, RecvConnect, SockConnect
<1>2. Life(c) = "new"
  BY <1>1, LifeCases
<1>3. \A d \in Conns \ {c} : Untouched(d)
  BY <1>1 DEF OnConnectV4, RecvConnect, SockConnect, Untouched
<1>4. CASE conn'[c] = "spawned"
  <2>1. inst'[c] \in Insts
    BY <1>1, <1>4 DEF OnConnectV4, RecvConnect, SockConnect, Paths
  <2>2. Life(c)' = "arrived"
    BY <1>4, LifeCasesNext
  <2>3. Owner(c)' = <<inst'[c], s>>
    BY <1>1, <2>2 DEF Owner
  <2> QED BY <1>2, <1>3, <2>1, <2>2, <2>3, RefineArrive
<1>5. CASE conn'[c] # "spawned"
  <2>1. conn'[c] = "init" \/ (conn'[c] = "over" /\ inst'[c] = None)
    BY <1>1, <1>5 DEF OnConnectV4, RecvConnect, SockConnect
  <2>2. Life(c)' = "new"
    BY <1>1, <2>1, LifeCasesNext
  <2>3. Owner(c)' = Owner(c)
    BY <1>2, <2>2 DEF Owner
  <2> QED BY <1>2, <1>3, <2>2, <2>3, UntouchedSame, RefineSame
<1> QED BY <1>4, <1>5

\* Closing the socket that a session has in an instance takes one member out.
LEMMA RefineRemove ==
  ASSUME IInv, NEW s, NEW i, UNCHANGED <<conn, sid, inst>>,
         sockets' = sockets \ SocketsOf(s, {i})
  PROVE  M!Next \/ UNCHANGED M!vars
<1> USE DEF IInv, TypeOK, Placed
<1>1. CASE SocketsOf(s, {i}) = {}
  <2>1. \A d \in Conns : Untouched(d)
    BY <1>1 DEF Untouched
  <2> QED BY <2>1, UntouchedSame, RefineSame
<1>2. CASE SocketsOf(s, {i}) # {}
  <2>1. PICK c \in sockets : sid[c] = s /\ inst[c] = i
    BY <1>2 DEF SocketsOf
  <2>2. \A d \in SocketsOf(s, {i}) : d = c
    BY <2>1 DEF SocketsOf, OneAlive, Alive
  <2>3. \A d \in Conns \ {c} : Untouched(d)
    BY <2>2 DEF Untouched
  <2>4. c \in Conns /\ c \notin sockets'
    BY <2>1 DEF SocketsOf
  <2>5. Life(c) = "member" /\ Life(c)' = "out"
    BY <2>1, <2>4, LifeCases, LifeCasesNext
  <2>6. Owner(c)' = Owner(c)
    BY <2>5 DEF Owner
  <2> QED BY <2>3, <2>4, <2>5, <2>6, RefineLeave
<1> QED BY <1>1, <1>2

\* Each instance implements Membership: in it a session is tried or admitted by
\* one attempt at most, and an attempt that is out never comes back, while
\* instances are created, registered, replaced and deleted.
THEOREM Refinement == Spec => RefinesMembership
<1>1. Init => M!Init
  BY DEF Init, M!Init, Life
<1>2. IInv /\ [Next]_vars => [M!Next]_(M!vars)
  <2> SUFFICES ASSUME IInv, [Next]_vars
               PROVE  M!Next \/ UNCHANGED M!vars
    OBVIOUS
  <2>1. ASSUME UNCHANGED <<conn, sid, inst, sockets>>
        PROVE  UNCHANGED M!vars
    <3>1. \A d \in Conns : Untouched(d)
      BY <2>1 DEF Untouched
    <3> QED BY <3>1, UntouchedSame, RefineSame
  <2>2. CASE \E c \in Conns :
               Connect(c) \/ DynamicReady(c) \/ DynamicErr(c)
    BY <2>2, RefineConnect
  <2>3. CASE \E s \in Sids, c \in Conns :
               OnConnectV4(s, c) \/ \E p \in Paths : RecvConnect(c, s, p)
    BY <2>3, RefineFirst
  <2>4. ASSUME NEW c \in Conns, DeleteNsClose(c) \/ OnDisconnectClose(c)
        PROVE  M!Next \/ UNCHANGED M!vars
    <3>1. /\ sockets' = sockets \ SocketsOf(sid[c], {inst[c]})
          /\ UNCHANGED <<conn, sid, inst>>
      BY <2>4 DEF DeleteNsClose, OnDisconnectClose
    <3> QED BY <3>1, RefineRemove
  <2>5. ASSUME NEW s \in Sids, NEW p \in Paths, RecvDisconnect(s, p)
        PROVE  M!Next \/ UNCHANGED M!vars
    BY <2>5, RefineRemove DEF RecvDisconnect
  <2>6. CASE \/ CloseServer
             \/ \E p \in Paths : AddNs(p) \/ DeleteNs(p)
             \/ \E i \in Insts : NsAdded(i)
             \/ \E s \in Sids, p \in Paths : RecvForGone(s, p)
             \/ \E s \in Sids : \/ OnConnectV5(s) \/ ConnectTimeout(s)
                                \/ SessionEnds(s) \/ CloseChannel(s)
                                \/ OnDisconnect(s)
             \/ UNCHANGED vars
    <3>1. UNCHANGED <<conn, sid, inst, sockets>>
      BY <2>6 DEF CloseServer, AddNs, DeleteNs, NsAdded, RecvForGone,
         OnConnectV5, ConnectTimeout, SessionEnds, CloseChannel, OnDisconnect,
         vars
    <3> QED BY <2>1, <3>1
  <2> QED BY <2>2, <2>3, <2>4, <2>5, <2>6 DEF Next
<1> QED BY Invariance, <1>1, <1>2, PTL DEF Spec, RefinesMembership, M!Spec
=============================================================================
