------------------------------ MODULE RemoteAck ------------------------------
(***************************************************************************)
(* One request of a server to the other servers of its cluster, and the    *)
(* stream of their answers (socketioxide-core/src/adapter: heartbeat.rs,   *)
(* request.rs, stream.rs; the remote adapters, of which the mongodb one is *)
(* followed here).                                                         *)
(*                                                                         *)
(* There are two kinds of requests.  "ack" is broadcast_with_ack: each     *)
(* server first says how many answers will come, then gives them as its    *)
(* clients answer (AckStream).  "collect" is rooms or fetch_sockets: each  *)
(* server answers once (wait_responses).                                   *)
(*                                                                         *)
(* Abstracted: contents of answers (an error of a client is an answer);    *)
(* time (a timer fires at any moment).  The responses of a server travel   *)
(* in order, as a change stream or a subscription delivers them, so that a *)
(* response is sent, received and routed in one step; a lost one is sent   *)
(* and not routed.  Any server may crash, start late, lose its heartbeat.  *)
(***************************************************************************)
EXTENDS Naturals, FiniteSets, Sequences

CONSTANTS
  Nodes,      \* the other servers
  MaxAcks,    \* bound: sockets of a server that a broadcast selects
  MaxLocal,   \* bound: sockets of this server that it selects
  Buffer,     \* ack_response_buffer
  Kinds       \* the kinds of requests, subset of {"ack", "collect"}

ASSUME ConstantsOK ==
  /\ IsFiniteSet(Nodes)
  /\ MaxAcks \in Nat /\ MaxLocal \in Nat /\ Buffer \in Nat
  /\ Kinds \subseteq {"ack", "collect"}

VARIABLES
  \* The other servers
  up,         \* up[n]: not started, running or crashed
  beating,    \* the servers whose heartbeat_loop runs
  seen,       \* seen[n]: nodes_liveness has no entry, a recent one, an old one
  \* The request, as the other servers see it
  pending,    \* the servers it is on its way to
  task,       \* task[n]: what the task of the request on n sends next
  left,       \* left[n]: the answers n has still to send
  \* The caller
  kind,       \* the kind of the request
  pc,         \* where the caller stands
  handler,    \* the request has an entry in `responses`
  chan,       \* the channel of that entry
  poll,       \* the stream: due to be polled, in poll_remote, or parked
  servCnt,    \* serv_cnt: servers still to be counted (Take: still to answer)
  ackCnt,     \* ack_cnt: answers still to come
  local,      \* local answers to come
  ready,      \* local answers that came
  elapsed,    \* the timer has run out
  stopped,    \* TakeUntil has noticed
  \* History, read by the properties only
  expected,   \* the value serv_cnt started from
  received,   \* the servers that got the request
  size,       \* size[n]: how many answers n was going to give
  counted,    \* the servers whose count was accepted
  got         \* the answers of other servers the stream has yielded

nodeVars == <<up, beating, seen>>
serverVars == <<pending, task, left, received, size>>
streamVars == <<servCnt, ackCnt, counted, got>>
localVars == <<local, ready>>
timerVars == <<elapsed, stopped>>
callVars == <<kind, expected>>
vars == <<up, beating, seen, pending, task, left, kind, pc, handler, chan,
          poll, servCnt, ackCnt, local, ready, elapsed, stopped, expected,
          received, size, counted, got>>

Count(n, m) == [type |-> "count", from |-> n, val |-> m]
Answer(n, i) == [type |-> "answer", from |-> n, val |-> i]
Response == [type : {"count", "answer"}, from : Nodes, val : Nat]

\* The answers of the servers in S.
AnswersOf(S) == UNION {{<<n, i>> : i \in 1..size[n]} : n \in S}

Unexpired == {n \in Nodes : seen[n] = "fresh"}

TypeOK ==
  /\ up \in [Nodes -> {"off", "up", "down"}]
  /\ beating \subseteq Nodes
  /\ seen \in [Nodes -> {"no", "fresh", "old"}]
  /\ pending \subseteq Nodes
  /\ task \in [Nodes -> {"none", "count", "answers"}]
  /\ left \in [Nodes -> Nat]
  /\ kind \in {"ack", "collect"}
  /\ pc \in {"idle", "sending", "open", "ended", "failed", "dropped"}
  /\ handler \in BOOLEAN
  /\ chan \in Seq(Response)
  /\ poll \in {"due", "remote", "parked"}
  /\ servCnt \in Nat /\ ackCnt \in Nat
  /\ local \in Nat /\ ready \in Nat
  /\ elapsed \in BOOLEAN /\ stopped \in BOOLEAN
  /\ expected \in Nat
  /\ received \subseteq Nodes
  /\ size \in [Nodes -> Nat]
  /\ counted \subseteq Nodes
  /\ got \subseteq Nodes \X Nat

\* A cluster in any state: servers that are not known yet, that are known and
\* dead, that run without their heartbeat.
Init ==
  /\ up \in [Nodes -> {"off", "up", "down"}]
  /\ beating \in SUBSET {n \in Nodes : up[n] = "up"}
  /\ seen \in [Nodes -> {"no", "fresh"}]
  /\ \A n \in Nodes : up[n] = "off" => seen[n] = "no"
  /\ pending = {} /\ received = {} /\ counted = {} /\ got = {}
  /\ task = [n \in Nodes |-> "none"]
  /\ left = [n \in Nodes |-> 0] /\ size = [n \in Nodes |-> 0]
  /\ kind \in Kinds
  /\ pc = "idle" /\ handler = FALSE /\ chan = << >> /\ poll = "due"
  /\ servCnt = 0 /\ ackCnt = 0 /\ expected = 0
  /\ local = 0 /\ ready = 0
  /\ elapsed = FALSE /\ stopped = FALSE
-----------------------------------------------------------------------------
(* The cluster                                                             *)

\* A server starts; it hears requests before its first heartbeat is heard.
Start(n) ==
  /\ up[n] = "off"
  /\ up' = [up EXCEPT ![n] = "up"]
  /\ beating' = beating \cup {n}
  /\ UNCHANGED <<seen, serverVars, callVars, pc, handler, chan, poll,
                 streamVars, localVars, timerVars>>

\* HeartbeatTracker::on_heartbeat
OnHeartbeat(n) ==
  /\ n \in beating
  /\ seen' = [seen EXCEPT ![n] = "fresh"]
  /\ UNCHANGED <<up, beating, serverVars, callVars, pc, handler, chan, poll,
                 streamVars, localVars, timerVars>>

\* heartbeat_loop returns the first time a heartbeat cannot be emitted.
HeartbeatLoopEnds(n) ==
  /\ n \in beating
  /\ beating' = beating \ {n}
  /\ UNCHANGED <<up, seen, serverVars, callVars, pc, handler, chan, poll,
                 streamVars, localVars, timerVars>>

\* hb_timeout has passed since the last heartbeat, which is more than the
\* interval of a server whose loop runs.
Expire(n) ==
  /\ seen[n] = "fresh" /\ n \notin beating
  /\ seen' = [seen EXCEPT ![n] = "old"]
  /\ UNCHANGED <<up, beating, serverVars, callVars, pc, handler, chan, poll,
                 streamVars, localVars, timerVars>>

Crash(n) ==
  /\ up[n] = "up"
  /\ up' = [up EXCEPT ![n] = "down"]
  /\ beating' = beating \ {n}
  /\ pending' = pending \ {n}
  /\ task' = [task EXCEPT ![n] = "none"]
  /\ UNCHANGED <<seen, left, received, size, callVars, pc, handler, chan, poll,
                 streamVars, localVars, timerVars>>
-----------------------------------------------------------------------------
(* The caller                                                              *)

\* server_count prunes the tracker and counts; the handler is inserted before
\* the request is sent.
Begin ==
  /\ pc = "idle"
  /\ servCnt' = Cardinality(Unexpired)
  /\ expected' = servCnt'
  /\ seen' = [n \in Nodes |-> IF seen[n] = "old" THEN "no" ELSE seen[n]]
  /\ handler' = TRUE
  /\ pc' = "sending"
  /\ UNCHANGED <<up, beating, serverVars, kind, chan, poll, ackCnt, counted,
                 got, localVars, timerVars>>

\* The request is out, to all servers that run; the local part follows.
SendReq ==
  /\ pc = "sending"
  /\ pending' = {n \in Nodes : up[n] = "up"}
  /\ local' \in IF kind = "ack" THEN 0..MaxLocal ELSE {0}
  /\ pc' = "open"
  /\ UNCHANGED <<nodeVars, task, left, received, size, callVars, handler, chan,
                 poll, streamVars, ready, timerVars>>

\* Mutant: the stream that removes the handler is built after the request.
SendReqErrLeaks ==
  /\ pc = "sending"
  /\ pc' = "failed"
  /\ UNCHANGED <<nodeVars, serverVars, callVars, handler, chan, poll,
                 streamVars, localVars, timerVars>>

\* The request fails, or its caller is dropped at the await: so is DropStream.
SendReqErr ==
  /\ pc = "sending"
  /\ pc' = "failed"
  /\ handler' = FALSE
  /\ UNCHANGED <<nodeVars, serverVars, callVars, chan, poll, streamVars,
                 localVars, timerVars>>

\* The caller drops the stream, at its end or before.
DropStream ==
  /\ pc \in {"open", "ended"}
  /\ pc' = "dropped"
  /\ handler' = FALSE
  /\ chan' = << >>
  /\ UNCHANGED <<nodeVars, serverVars, callVars, poll, streamVars, localVars,
                 timerVars>>

Wake == poll' = IF poll = "parked" THEN "due" ELSE poll

Elapse ==
  /\ pc = "open" /\ ~elapsed
  /\ elapsed' = TRUE
  /\ Wake
  /\ UNCHANGED <<nodeVars, serverVars, callVars, pc, handler, chan, streamVars,
                 localVars, stopped>>

\* A client of this server answers, or its answer is known not to come.
LocalAnswer ==
  /\ pc = "open" /\ local > 0
  /\ local' = local - 1
  /\ ready' = ready + 1
  /\ Wake
  /\ UNCHANGED <<nodeVars, serverVars, callVars, pc, handler, chan, streamVars,
                 timerVars>>
-----------------------------------------------------------------------------
(* A server that gets the request                                          *)

LoseReq(n) ==
  /\ n \in pending
  /\ pending' = pending \ {n}
  /\ UNCHANGED <<nodeVars, task, left, received, size, callVars, pc, handler,
                 chan, poll, streamVars, localVars, timerVars>>

\* recv_req: the local broadcast yields the number of answers to expect.
RecvReq(n) ==
  /\ n \in pending
  /\ pending' = pending \ {n}
  /\ received' = received \cup {n}
  /\ \E m \in IF kind = "ack" THEN 0..MaxAcks ELSE {1} :
       /\ size' = [size EXCEPT ![n] = m]
       /\ left' = [left EXCEPT ![n] = m]
  /\ task' = [task EXCEPT ![n] = IF kind = "ack" THEN "count" ELSE "answers"]
  /\ UNCHANGED <<nodeVars, callVars, pc, handler, chan, poll, streamVars,
                 localVars, timerVars>>

Capacity == IF kind = "ack" THEN Buffer + expected
            ELSE IF expected = 0 THEN 1 ELSE expected

\* Mutant: a response is routed twice (delivered again after a reconnection).
RouteTwice(r) ==
  IF handler /\ Len(chan) + 1 < Capacity
  THEN chan' = chan \o <<r, r>> /\ Wake
  ELSE UNCHANGED <<chan, poll>>

\* The response reaches the caller's server: into the channel of the handler,
\* if there is one with room for it.
Route(r) ==
  IF handler /\ Len(chan) < Capacity
  THEN chan' = Append(chan, r) /\ Wake
  ELSE UNCHANGED <<chan, poll>>

SendCount(n) ==
  /\ task[n] = "count"
  /\ task' = [task EXCEPT ![n] = "answers"]
  /\ Route(Count(n, size[n]))
  /\ UNCHANGED <<nodeVars, pending, left, received, size, callVars, pc,
                 handler, streamVars, localVars, timerVars>>

SendAnswer(n) ==
  /\ task[n] = "answers" /\ left[n] > 0
  /\ left' = [left EXCEPT ![n] = @ - 1]
  /\ Route(Answer(n, left[n]))
  /\ UNCHANGED <<nodeVars, pending, task, received, size, callVars, pc,
                 handler, streamVars, localVars, timerVars>>

\* The response is lost on its way.
LoseRes(n) ==
  /\ \/ /\ task[n] = "count"
        /\ task' = [task EXCEPT ![n] = "answers"]
        /\ UNCHANGED left
     \/ /\ task[n] = "answers" /\ left[n] > 0
        /\ left' = [left EXCEPT ![n] = @ - 1]
        /\ UNCHANGED task
  /\ UNCHANGED <<nodeVars, pending, received, size, callVars, pc, handler,
                 chan, poll, streamVars, localVars, timerVars>>

\* send_res fails: the task returns, its other answers are never sent.
SendResErr(n) ==
  /\ task[n] # "none"
  /\ task' = [task EXCEPT ![n] = "none"]
  /\ UNCHANGED <<nodeVars, pending, left, received, size, callVars, pc,
                 handler, chan, poll, streamVars, localVars, timerVars>>
-----------------------------------------------------------------------------
(* The stream of answers: AckStream                                        *)

LocalOver == local = 0 /\ ready = 0

\* Mutant: the servers still to be counted are forgotten.
RemoteOverIgnoresServers == ackCnt = 0 \/ stopped

\* The remote half of is_terminated.
RemoteOver == (ackCnt = 0 /\ servCnt = 0) \/ stopped

\* poll_next: local answers first, then poll_remote, whose first line looks at
\* is_terminated.
PollLocal ==
  /\ pc = "open" /\ poll = "due" /\ kind = "ack" /\ ready > 0
  /\ ready' = ready - 1
  /\ UNCHANGED <<nodeVars, serverVars, callVars, pc, handler, chan, poll,
                 streamVars, local, timerVars>>

PollRemote ==
  /\ pc = "open" /\ poll = "due" /\ kind = "ack" /\ ready = 0
  /\ IF LocalOver /\ RemoteOver
     THEN pc' = "ended" /\ UNCHANGED poll
     ELSE poll' = "remote" /\ UNCHANGED pc
  /\ UNCHANGED <<nodeVars, serverVars, callVars, handler, chan, streamVars,
                 localVars, timerVars>>

\* The poll is over without an item; a local answer has woken the task already.
Park == poll' = IF ready > 0 THEN "due" ELSE "parked"

InLoop == pc = "open" /\ poll = "remote" /\ kind = "ack"

\* Mutant: poll_next answers Pending whenever the remote half is over.
StopRemotePends ==
  /\ InLoop /\ (elapsed \/ stopped)
  /\ stopped' = TRUE
  /\ Park
  /\ UNCHANGED <<nodeVars, serverVars, callVars, pc, handler, chan, streamVars,
                 localVars, elapsed>>

\* TakeUntil looks at its timer before the channel, and ends what is in it.
StopRemote ==
  /\ InLoop /\ (elapsed \/ stopped)
  /\ stopped' = TRUE
  /\ IF LocalOver THEN pc' = "ended" /\ UNCHANGED poll
                  ELSE Park /\ UNCHANGED pc
  /\ UNCHANGED <<nodeVars, serverVars, callVars, handler, chan, streamVars,
                 localVars, elapsed>>

ChannelEmpty ==
  /\ InLoop /\ ~elapsed /\ ~stopped /\ chan = << >>
  /\ Park
  /\ UNCHANGED <<nodeVars, serverVars, callVars, pc, handler, chan, streamVars,
                 localVars, timerVars>>

\* One turn of the loop with the response r, not the last one.
Receive(type) ==
  /\ InLoop /\ ~elapsed /\ ~stopped /\ chan # << >>
  /\ Head(chan).type = type
  /\ chan' = Tail(chan)

TakeCount ==
  /\ Receive("count") /\ servCnt > 0
  /\ ackCnt' = ackCnt + Head(chan).val
  /\ servCnt' = servCnt - 1
  /\ counted' = counted \cup {Head(chan).from}
  /\ UNCHANGED <<nodeVars, serverVars, callVars, pc, handler, poll, got,
                 localVars, timerVars>>

TakeAnswer ==
  /\ Receive("answer") /\ ackCnt > 0
  /\ ackCnt' = ackCnt - 1
  /\ got' = got \cup {<<Head(chan).from, Head(chan).val>>}
  /\ poll' = "due"
  /\ UNCHANGED <<nodeVars, serverVars, callVars, pc, handler, servCnt, counted,
                 localVars, timerVars>>

\* "unexpected response type"
TakeUnexpected ==
  /\ \/ Receive("count") /\ servCnt = 0
     \/ Receive("answer") /\ ackCnt = 0
  /\ UNCHANGED <<nodeVars, serverVars, callVars, pc, handler, poll, streamVars,
                 localVars, timerVars>>
-----------------------------------------------------------------------------
(* The stream of answers: wait_responses                                   *)

Polled == pc = "open" /\ poll = "due" /\ kind = "collect"

CollectEnd ==
  /\ Polled /\ (elapsed \/ servCnt = 0)
  /\ pc' = "ended"
  /\ UNCHANGED <<nodeVars, serverVars, callVars, handler, chan, poll,
                 streamVars, localVars, timerVars>>

CollectNext ==
  /\ Polled /\ ~elapsed /\ servCnt > 0 /\ chan # << >>
  /\ chan' = Tail(chan)
  /\ servCnt' = servCnt - 1
  /\ got' = got \cup {<<Head(chan).from, Head(chan).val>>}
  /\ UNCHANGED <<nodeVars, serverVars, callVars, pc, handler, poll, ackCnt,
                 counted, localVars, timerVars>>

CollectPark ==
  /\ Polled /\ ~elapsed /\ servCnt > 0 /\ chan = << >>
  /\ poll' = "parked"
  /\ UNCHANGED <<nodeVars, serverVars, callVars, pc, handler, chan, streamVars,
                 localVars, timerVars>>
-----------------------------------------------------------------------------
Cluster(n) == Start(n) \/ OnHeartbeat(n) \/ HeartbeatLoopEnds(n) \/ Expire(n)
              \/ Crash(n)
Server(n) == LoseReq(n) \/ RecvReq(n) \/ SendCount(n) \/ SendAnswer(n)
             \/ LoseRes(n) \/ SendResErr(n)
Call == Begin \/ SendReq \/ SendReqErr \/ DropStream
Poll == \/ PollLocal \/ PollRemote \/ StopRemote \/ ChannelEmpty
        \/ TakeCount \/ TakeAnswer \/ TakeUnexpected
        \/ CollectEnd \/ CollectNext \/ CollectPark

Next == \/ Call \/ Poll \/ Elapse \/ LocalAnswer
        \/ \E n \in Nodes : Cluster(n) \/ Server(n)

Spec == Init /\ [][Next]_vars

\* The caller polls its stream until it ends and the runtime fires timers.
\* Nothing is assumed of the other servers.
FairSpec == Spec /\ WF_vars(Poll) /\ WF_vars(Elapse)
-----------------------------------------------------------------------------
(* Properties                                                              *)

\* A request has its entry in the table of handlers exactly while somebody may
\* read its responses: a request that fails or is abandoned leaves none, one
\* that is under way has it before the first response can come (DropStream).
HandlerOwned == handler <=> pc \in {"sending", "open", "ended"}

\* A stream that ends before its timeout has given every answer of every
\* server that got the request, each once, unless more servers got it than
\* were known: whatever was lost or crashed, it does not end early on a part
\* of the answers (serv_cnt and ack_cnt of AckStream, take of wait_responses).
EarlyEndComplete ==
  pc = "ended" /\ ~elapsed /\ Cardinality(received) <= expected
    => got = AnswersOf(received)

\* No answer is taken twice for another one: the answers the stream has
\* yielded and those it still waits for are those announced to it.
Accounted ==
  IF kind = "ack"
  THEN ackCnt + Cardinality(got) = Cardinality(AnswersOf(counted))
  ELSE pc # "idle" => servCnt + Cardinality(got) = expected

\* Whatever happens to the other servers, a stream ends (or is dropped): the
\* timer of TakeUntil, once noticed, ends it as soon as the local answers are
\* over, and these end by their own timeout.
StreamEnds == pc = "open" /\ local = 0 ~> pc # "open"

\* mongodb lib.rs:417: the protocol is there "to close the stream at the right
\* time": a stream with nothing left to wait for does not wait.
WaitsForSomething ==
  pc = "open" /\ poll = "parked" /\ kind = "ack" /\ LocalOver => ~RemoteOver
=============================================================================
