------------------------------- MODULE AckMap -------------------------------
(***************************************************************************)
(* The acknowledgements a socket waits for: callers of emit_with_ack that  *)
(* number their packet, register for its answer and send it, the answers   *)
(* of the client, timeouts, callers that give up, and the sweep of the     *)
(* table (socket.rs, ack.rs).                                              *)
(*                                                                         *)
(* A call k stands for one caller with its oneshot channel: its sender is  *)
(* in ack_message under the number id[k], its receiver in an               *)
(* AckResultWithId.  Abstracted: what is sent and answered; time (a        *)
(* timeout elapses at any moment).  The client answers what it likes: any  *)
(* number so far, answered or not.                                         *)
(***************************************************************************)
EXTENDS Naturals, FiniteSets

CONSTANTS
  Calls,      \* calls of emit_with_ack on this socket, each used once
  SweepMin    \* ACK_SWEEP_MIN

ASSUME SweepMinOK == SweepMin \in Nat \ {0}

VARIABLES
  counter,    \* Socket::ack_counter
  id,         \* the ack id of each call, 0 before it has one
  call,       \* call[k]: where call k stands
  table,      \* Socket::ack_message, as the calls whose sender it holds
  sweepAt,    \* Socket::ack_sweep_at
  delivered,  \* the calls whose channel holds a value
  alive,      \* the Socket object exists
  \* History, read by the properties only:
  replied,    \* calls the client answered after it got their packet
  peak,       \* the most callers the table ever had waiting at once
  since       \* insertions since the last sweep

vars == <<counter, id, call, table, sweepAt, delivered, alive, replied, peak,
          since>>
history == <<replied, peak, since>>
tableVars == <<table, sweepAt, peak, since>>

CallStage == {"none", "numbered", "inserted", "waiting", "answered",
              "timedout", "closed", "dropped", "failed"}

TypeOK ==
  /\ counter \in Nat
  /\ id \in [Calls -> 0..counter]
  /\ call \in [Calls -> CallStage]
  /\ table \subseteq Calls
  /\ sweepAt \in Nat
  /\ delivered \subseteq Calls
  /\ alive \in BOOLEAN
  /\ replied \subseteq Calls
  /\ peak \in Nat
  /\ since \in Nat

Init ==
  /\ counter = 0
  /\ id = [k \in Calls |-> 0]
  /\ call = [k \in Calls |-> "none"]
  /\ table = {}
  /\ sweepAt = SweepMin
  /\ delivered = {}
  /\ alive = TRUE
  /\ replied = {}
  /\ peak = 0
  /\ since = 0

Larger(a, b) == IF a >= b THEN a ELSE b

Become(k, stage) == call' = [call EXCEPT ![k] = stage]

\* The receiver exists: a sender that is not closed.  A timeout that elapsed
\* does not drop it.
Open(k) == call[k] \in {"numbered", "inserted", "waiting", "timedout"}

\* The client has got the packet.
Sent(k) == call[k] \notin {"none", "numbered", "inserted", "failed"}

-----------------------------------------------------------------------------
(* send_with_ack                                                           *)

\* There is room in the channel for the packet (reserve).
Number(k) ==
  /\ call[k] = "none" /\ alive
  /\ counter' = counter + 1
  /\ id' = [id EXCEPT ![k] = counter + 1]
  /\ Become(k, "numbered")
  /\ UNCHANGED <<tableVars, delivered, alive, replied>>

\* No room, or not connected: the error is returned at once.
Fail(k) ==
  /\ call[k] = "none" /\ alive
  /\ Become(k, "failed")
  /\ UNCHANGED <<counter, id, tableVars, delivered, alive, replied>>

\* Mutant: the threshold leaves no room for new entries.
ThresholdTight(kept) == Larger(Cardinality(kept), SweepMin)

\* The threshold after a sweep that keeps `kept`.
Threshold(kept) == Larger(2 * Cardinality(kept), SweepMin)

\* Mutant: the sweep looks for the callers whose packet was sent.
KeptIfSent == {j \in table : call[j] = "waiting"}

\* What a sweep retains.
Kept == {j \in table : Open(j)}

\* Mutant: the table is swept when it is above the threshold.
MustSweepLate == Cardinality(table) > sweepAt + 1

MustSweep == Cardinality(table) >= sweepAt

\* Under the lock of ack_message: the sweep, then the insertion, which
\* replaces a sender under the same number.
Insert(k) ==
  /\ call[k] = "numbered"
  /\ LET rest == IF MustSweep THEN Kept ELSE table IN
       table' = {j \in rest : id[j] # id[k]} \cup {k}
  /\ sweepAt' = IF MustSweep THEN Threshold(Kept) ELSE sweepAt
  /\ since' = IF MustSweep THEN 1 ELSE since + 1
  /\ peak' = Larger(peak, Cardinality(Kept \cup {k}))
  /\ Become(k, "inserted")
  /\ UNCHANGED <<counter, id, delivered, alive, replied>>

\* permit.send, after the lock was released; the caller then polls the
\* receiver.
Send(k) ==
  /\ call[k] = "inserted"
  /\ Become(k, "waiting")
  /\ UNCHANGED <<counter, id, tableVars, delivered, alive, replied>>

-----------------------------------------------------------------------------
(* recv_ack, and the ends of a call                                        *)

RecvAck(i) ==
  /\ alive /\ i \in 1..counter
  /\ table' = {j \in table : id[j] # i}
  /\ delivered' = delivered \cup {j \in table : id[j] = i /\ Open(j)}
  /\ replied' = replied \cup {j \in Calls : id[j] = i /\ Sent(j)}
  /\ UNCHANGED <<counter, id, call, sweepAt, alive, peak, since>>

Answered(k) ==
  /\ call[k] = "waiting" /\ k \in delivered
  /\ Become(k, "answered")
  /\ UNCHANGED <<counter, id, tableVars, delivered, alive, replied>>

\* Mutant: the elapsed time is looked at before the channel.
TimeOutFirst(k) ==
  /\ call[k] = "waiting"
  /\ Become(k, "timedout")
  /\ UNCHANGED <<counter, id, tableVars, delivered, alive, replied>>

\* The timeout looks at the channel first, even after it has elapsed.
TimeOut(k) ==
  /\ call[k] = "waiting" /\ k \notin delivered
  /\ Become(k, "timedout")
  /\ UNCHANGED <<counter, id, tableVars, delivered, alive, replied>>

\* The sender was dropped without an answer.
Closed(k) ==
  /\ call[k] = "waiting" /\ k \notin delivered \cup table
  /\ Become(k, "closed")
  /\ UNCHANGED <<counter, id, tableVars, delivered, alive, replied>>

\* The stream of answers is dropped.
Drop(k) ==
  /\ call[k] \in {"waiting", "timedout"}
  /\ Become(k, "dropped")
  /\ UNCHANGED <<counter, id, tableVars, delivered, alive, replied>>

\* Nobody refers to the socket any more; a running send_with_ack does.
SocketDropped ==
  /\ alive
  /\ \A k \in Calls : call[k] \notin {"numbered", "inserted"}
  /\ alive' = FALSE
  /\ table' = {}
  /\ UNCHANGED <<counter, id, call, sweepAt, delivered, history>>

-----------------------------------------------------------------------------
CallStep(k) ==
  \/ Number(k) \/ Fail(k) \/ Insert(k) \/ Send(k)
  \/ Answered(k) \/ TimeOut(k) \/ Closed(k) \/ Drop(k)

Next ==
  \/ \E k \in Calls : CallStep(k)
  \/ \E i \in 1..counter : RecvAck(i)
  \/ SocketDropped

Spec == Init /\ [][Next]_vars

-----------------------------------------------------------------------------
(* Properties                                                              *)

\* Every caller who waits is in the table until an answer is in its channel,
\* however sweeps, answers and other callers interleave (the test
\* pending_acks_are_kept), and its number is its own.
NoneForgotten ==
  /\ \A k \in Calls :
       alive /\ call[k] \in {"inserted", "waiting"} => k \in table \cup delivered
  /\ \A j, k \in Calls : id[j] # 0 /\ id[j] = id[k] => j = k

\* A caller who still waits when the client answers gets the answer, and
\* neither a timeout nor an error (ack.rs, AckResultWithId::poll).
AnswerNotLost ==
  [][\A k \in Calls :
       call[k] = "waiting" /\ call'[k] \in {"timedout", "closed"}
         => k \notin replied]_vars

\* Abandoned acks do not accumulate (the tests abandoned_acks... and
\* timed_out_acks...): the table never holds more than twice the callers who
\* ever waited at once.
TableBounded == Cardinality(table) <= Larger(SweepMin, 2 * peak)

\* "The cost of the removal must stay proportional to the number of sent
\* packets" (socket.rs, many_pending_acks...): a sweep goes through at most
\* twice as many entries as were inserted since the previous one (or, for the
\* first one, ever).
SweepsPaidFor == MustSweep => Cardinality(table) <= 2 * since
=============================================================================
