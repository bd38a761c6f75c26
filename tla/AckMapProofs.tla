--------------------------- MODULE AckMapProofs ---------------------------
(***************************************************************************)
(* AckMap: proofs of what its run checks, for any callers and any minimum  *)
(* of the sweep.  NumbersInv and AnswersInv say whose answer is where;     *)
(* SizeInv counts: the entries above half of the threshold were inserted   *)
(* since the last sweep.                                                   *)
(***************************************************************************)
EXTENDS AckMap, FiniteSetTheorems, TLAPS

NumbersInv ==
  /\ \A k \in Calls : id[k] = 0 <=> call[k] \in {"none", "failed"}
  /\ \A k \in table : call[k] \notin {"none", "numbered", "failed"}

AnswersInv ==
  \A k \in replied : Sent(k) /\ (call[k] = "waiting" => k \in delivered)

SizeInv ==
  /\ IsFiniteSet(table)
  /\ Cardinality(table) <= sweepAt
  /\ 2 * Cardinality(table) <= 2 * since + sweepAt
  /\ SweepMin <= sweepAt
  /\ sweepAt <= Larger(SweepMin, 2 * peak)
  /\ Cardinality(Kept) <= peak

Inv == TypeOK /\ NumbersInv /\ NoneForgotten /\ AnswersInv /\ SizeInv

-----------------------------------------------------------------------------
(* Sizes                                                                   *)

LEMMA KeptFinite ==
  ASSUME IsFiniteSet(table)
  PROVE  /\ IsFiniteSet(Kept)
         /\ Cardinality(Kept) \in Nat /\ Cardinality(table) \in Nat
         /\ Cardinality(Kept) <= Cardinality(table)
<1>1. Kept \in SUBSET table
  BY DEF Kept
<1> QED
  BY <1>1, FS_Subset, FS_CardinalityType

LEMMA OneMore ==
  ASSUME NEW S, IsFiniteSet(S), NEW x, NEW T \in SUBSET (S \cup {x})
  PROVE  /\ IsFiniteSet(T) /\ Cardinality(T) \in Nat
         /\ Cardinality(T) <= Cardinality(S) + 1
<1>1. /\ IsFiniteSet(S \cup {x})
      /\ Cardinality(S) \in Nat
      /\ Cardinality(S \cup {x}) \in Nat
      /\ Cardinality(S \cup {x}) <= Cardinality(S) + 1
  BY FS_AddElement, FS_CardinalityType
<1>2. IsFiniteSet(T) /\ Cardinality(T) <= Cardinality(S \cup {x})
  BY <1>1, FS_Subset
<1> QED
  BY <1>1, <1>2, FS_CardinalityType

LEMMA LargerMonotone ==
  ASSUME NEW a \in Nat, NEW b \in Nat, NEW c \in Nat, NEW d \in Nat,
         a <= c, c <= d
  PROVE  Larger(2 * a, b) <= Larger(b, 2 * d)
BY DEF Larger

LEMMA LargerGrows ==
  ASSUME NEW a \in Nat, NEW b \in Nat, NEW c \in Nat, NEW d \in Nat,
         a <= Larger(b, 2 * c), c <= d
  PROVE  a <= Larger(b, 2 * d)
BY DEF Larger

\* A step that inserts nothing: entries and waiting callers only leave.
LEMMA SizeShrinks ==
  ASSUME Inv, table' \subseteq table, Kept' \subseteq Kept,
         UNCHANGED <<sweepAt, peak, since>>
  PROVE  SizeInv'
<1> USE SweepMinOK
<1>1. /\ IsFiniteSet(table) /\ IsFiniteSet(Kept)
      /\ Cardinality(Kept) \in Nat /\ Cardinality(table) \in Nat
  BY KeptFinite DEF Inv, SizeInv
<1>2. /\ IsFiniteSet(table') /\ Cardinality(table') \in Nat
      /\ Cardinality(table') <= Cardinality(table)
  BY <1>1, FS_Subset, FS_CardinalityType
<1>3. Cardinality(Kept') \in Nat /\ Cardinality(Kept') <= Cardinality(Kept)
  BY <1>1, FS_Subset, FS_CardinalityType
<1>4. sweepAt' <= Larger(SweepMin, 2 * peak')
  BY DEF Inv, SizeInv, Larger
<1>5. /\ IsFiniteSet(table')
      /\ Cardinality(table') <= sweepAt'
      /\ 2 * Cardinality(table') <= 2 * since' + sweepAt'
      /\ SweepMin <= sweepAt'
      /\ Cardinality(Kept') <= peak'
  BY <1>1, <1>2, <1>3 DEF Inv, TypeOK, SizeInv
<1> QED
  BY <1>4, <1>5 DEF SizeInv

LEMMA InsertSize ==
  ASSUME Inv, NEW k \in Calls, Insert(k)
  PROVE  SizeInv'
<1> USE SweepMinOK
<1> DEFINE n == Cardinality(Kept)
           m == Cardinality(Kept \cup {k})
<1>1. /\ IsFiniteSet(table) /\ IsFiniteSet(Kept)
      /\ n \in Nat /\ Cardinality(table) \in Nat
  BY KeptFinite DEF Inv, SizeInv
<1>2. IsFiniteSet(Kept \cup {k}) /\ m \in Nat /\ n <= m
  <2>1. IsFiniteSet(Kept \cup {k})
    BY <1>1, FS_AddElement
  <2>2. Kept \in SUBSET (Kept \cup {k})
    OBVIOUS
  <2>3. m \in Nat
    BY <2>1, FS_CardinalityType
  <2>4. n <= m
    BY <2>1, <2>2, FS_Subset
  <2> QED
    BY <2>1, <2>3, <2>4
<1>3. peak' \in Nat /\ peak' >= m /\ peak' >= peak
  BY <1>2 DEF Insert, Larger, Inv, TypeOK
<1>4. Cardinality(Kept') <= peak'
  <2>1. Kept' \subseteq Kept \cup {k}
    BY DEF Insert, Kept, Open, Become, Inv, TypeOK
  <2>2. Cardinality(Kept') <= m /\ Cardinality(Kept') \in Nat
    BY <1>2, <2>1, FS_Subset, FS_CardinalityType
  <2> QED
    BY <1>2, <1>3, <2>2
<1>5. CASE MustSweep
  <2>1. /\ table' \subseteq Kept \cup {k}
        /\ sweepAt' = Larger(2 * n, SweepMin)
        /\ since' = 1
    BY <1>5 DEF Insert, Threshold
  <2>2. /\ IsFiniteSet(table') /\ Cardinality(table') \in Nat
        /\ Cardinality(table') <= n + 1
    BY <1>1, <2>1, OneMore
  <2>3. sweepAt' \in Nat /\ sweepAt' >= 2 * n /\ sweepAt' >= SweepMin
    BY <1>1, <2>1 DEF Larger
  <2>4. Cardinality(table') <= sweepAt'
    <3>1. n + 1 <= sweepAt'
      BY <1>1, <2>3
    <3> QED
      BY <2>2, <2>3, <3>1, <1>1
  <2>5. 2 * Cardinality(table') <= 2 * since' + sweepAt'
    BY <1>1, <2>1, <2>2, <2>3
  <2>6. sweepAt' <= Larger(SweepMin, 2 * peak')
    BY <1>1, <1>2, <1>3, <2>1, LargerMonotone
  <2> QED
    BY <1>4, <2>2, <2>3, <2>4, <2>5, <2>6 DEF SizeInv
<1>6. CASE ~MustSweep
  <2>1. /\ table' \subseteq table \cup {k}
        /\ sweepAt' = sweepAt
        /\ since' = since + 1
    BY <1>6 DEF Insert
  <2>2. /\ IsFiniteSet(table') /\ Cardinality(table') \in Nat
        /\ Cardinality(table') <= Cardinality(table) + 1
    BY <1>1, <2>1, OneMore
  <2>3. Cardinality(table) < sweepAt
    BY <1>1, <1>6 DEF MustSweep, Inv, TypeOK
  <2>4. Cardinality(table') <= sweepAt'
    BY <1>1, <2>1, <2>2, <2>3 DEF Inv, TypeOK
  <2>5. 2 * Cardinality(table') <= 2 * since' + sweepAt'
    BY <1>1, <2>1, <2>2 DEF Inv, TypeOK, SizeInv
  <2>6. sweepAt' <= Larger(SweepMin, 2 * peak')
    BY <1>3, <2>1, LargerGrows DEF Inv, TypeOK, SizeInv
  <2>7. SweepMin <= sweepAt'
    BY <2>1 DEF Inv, SizeInv
  <2> QED
    BY <1>4, <2>2, <2>4, <2>5, <2>6, <2>7 DEF SizeInv
<1> QED
  BY <1>5, <1>6

-----------------------------------------------------------------------------
(* The invariant                                                           *)

LEMMA InitInv == Init => Inv
<1> SUFFICES ASSUME Init PROVE Inv
  OBVIOUS
<1> USE SweepMinOK
<1>1. TypeOK /\ NumbersInv /\ NoneForgotten /\ AnswersInv
  BY DEF Init, TypeOK, NumbersInv, NoneForgotten, AnswersInv, CallStage
<1>2. table = {} /\ Kept = {}
  BY DEF Init, Kept
<1>3. SizeInv
  BY <1>2, FS_EmptySet DEF Init, SizeInv, Larger
<1> QED
  BY <1>1, <1>3 DEF Inv

LEMMA TypeStep == ASSUME Inv, Next PROVE TypeOK'
<1> USE DEF Inv, TypeOK, CallStage, Become
<1>1. ASSUME NEW k \in Calls, Insert(k) PROVE TypeOK'
  <2>1. Cardinality(Kept) \in Nat
    BY KeptFinite DEF SizeInv
  <2>2. Cardinality(Kept \cup {k}) \in Nat
    BY KeptFinite, FS_AddElement, FS_CardinalityType DEF SizeInv
  <2>3. sweepAt' \in Nat /\ peak' \in Nat /\ since' \in Nat
    BY <1>1, <2>1, <2>2, SweepMinOK DEF Insert, Threshold, Larger
  <2> QED
    BY <1>1, <2>3 DEF Insert, Kept
<1>2. ASSUME NEW k \in Calls, Number(k) PROVE TypeOK'
  BY <1>2 DEF Number, tableVars
<1>3. ASSUME NEW k \in Calls,
             Fail(k) \/ Send(k) \/ Answered(k) \/ TimeOut(k) \/ Closed(k) \/ Drop(k)
      PROVE  TypeOK'
  BY <1>3 DEF Fail, Send, Answered, TimeOut, Closed, Drop, tableVars
<1>4. ASSUME NEW i \in 1..counter, RecvAck(i) PROVE TypeOK'
  BY <1>4 DEF RecvAck
<1>5. ASSUME SocketDropped PROVE TypeOK'
  BY <1>5 DEF SocketDropped, history
<1> QED
  BY <1>1, <1>2, <1>3, <1>4, <1>5 DEF Next, CallStep

LEMMA NumbersStep == ASSUME Inv, Next PROVE NumbersInv'
<1> USE DEF Inv, TypeOK, NumbersInv, Become
<1>1. ASSUME NEW k \in Calls, Insert(k) PROVE NumbersInv'
  BY <1>1 DEF Insert, Kept
<1>2. ASSUME NEW k \in Calls, Number(k) PROVE NumbersInv'
  BY <1>2 DEF Number, tableVars
<1>3. ASSUME NEW k \in Calls,
             Fail(k) \/ Send(k) \/ Answered(k) \/ TimeOut(k) \/ Closed(k) \/ Drop(k)
      PROVE  NumbersInv'
  BY <1>3 DEF Fail, Send, Answered, TimeOut, Closed, Drop, tableVars
<1>4. ASSUME NEW i \in 1..counter, RecvAck(i) PROVE NumbersInv'
  BY <1>4 DEF RecvAck
<1>5. ASSUME SocketDropped PROVE NumbersInv'
  BY <1>5 DEF SocketDropped, history
<1> QED
  BY <1>1, <1>2, <1>3, <1>4, <1>5 DEF Next, CallStep

LEMMA ForgottenStep == ASSUME Inv, Next PROVE NoneForgotten'
<1> USE DEF Inv, TypeOK, NumbersInv, NoneForgotten, Become
<1>1. ASSUME NEW k \in Calls, Insert(k) PROVE NoneForgotten'
  <2>1. \A j \in Calls :
          j \in table /\ call[j] \in {"inserted", "waiting"} => j \in table'
    BY <1>1 DEF Insert, Kept, Open
  <2> QED
    BY <1>1, <2>1 DEF Insert
<1>2. ASSUME NEW k \in Calls, Number(k) PROVE NoneForgotten'
  BY <1>2 DEF Number, tableVars
<1>3. ASSUME NEW k \in Calls,
             Fail(k) \/ Send(k) \/ Answered(k) \/ TimeOut(k) \/ Closed(k) \/ Drop(k)
      PROVE  NoneForgotten'
  BY <1>3 DEF Fail, Send, Answered, TimeOut, Closed, Drop, tableVars
<1>4. ASSUME NEW i \in 1..counter, RecvAck(i) PROVE NoneForgotten'
  BY <1>4 DEF RecvAck, Open
<1>5. ASSUME SocketDropped PROVE NoneForgotten'
  BY <1>5 DEF SocketDropped, history
<1> QED
  BY <1>1, <1>2, <1>3, <1>4, <1>5 DEF Next, CallStep

LEMMA AnswersStep == ASSUME Inv, Next PROVE AnswersInv'
<1> USE DEF Inv, TypeOK, AnswersInv, Sent, Become
<1>1. ASSUME NEW k \in Calls, Insert(k) PROVE AnswersInv'
  BY <1>1 DEF Insert
<1>2. ASSUME NEW k \in Calls, Number(k) PROVE AnswersInv'
  BY <1>2 DEF Number, tableVars
<1>3. ASSUME NEW k \in Calls,
             Fail(k) \/ Send(k) \/ Answered(k) \/ TimeOut(k) \/ Closed(k) \/ Drop(k)
      PROVE  AnswersInv'
  BY <1>3 DEF Fail, Send, Answered, TimeOut, Closed, Drop, tableVars
<1>4. ASSUME NEW i \in 1..counter, RecvAck(i) PROVE AnswersInv'
  BY <1>4 DEF RecvAck, NoneForgotten, Open
<1>5. ASSUME SocketDropped PROVE AnswersInv'
  BY <1>5 DEF SocketDropped, history
<1> QED
  BY <1>1, <1>2, <1>3, <1>4, <1>5 DEF Next, CallStep

LEMMA SizeStep == ASSUME Inv, Next PROVE SizeInv'
<1>1. ASSUME NEW k \in Calls, Insert(k) PROVE SizeInv'
  BY <1>1, InsertSize
<1>2. ASSUME NEW k \in Calls, Number(k) PROVE SizeInv'
  <2>1. Kept' \subseteq Kept
    BY <1>2 DEF Number, tableVars, Kept, Open, Become, Inv, TypeOK, NumbersInv
  <2> QED
    BY <1>2, <2>1, SizeShrinks DEF Number, tableVars
<1>3. ASSUME NEW k \in Calls,
             Fail(k) \/ Send(k) \/ Answered(k) \/ TimeOut(k) \/ Closed(k) \/ Drop(k)
      PROVE  SizeInv'
  <2>1. Kept' \subseteq Kept
    BY <1>3 DEF Fail, Send, Answered, TimeOut, Closed, Drop, tableVars, Kept,
       Open, Become, Inv, TypeOK
  <2>2. UNCHANGED tableVars
    BY <1>3 DEF Fail, Send, Answered, TimeOut, Closed, Drop
  <2> QED
    BY <2>1, <2>2, SizeShrinks DEF tableVars
<1>4. ASSUME NEW i \in 1..counter, RecvAck(i) PROVE SizeInv'
  BY <1>4, SizeShrinks DEF RecvAck, Kept, Open
<1>5. ASSUME SocketDropped PROVE SizeInv'
  BY <1>5, SizeShrinks DEF SocketDropped, history, Kept
<1> QED
  BY <1>1, <1>2, <1>3, <1>4, <1>5 DEF Next, CallStep

LEMMA InvStutter == Inv /\ UNCHANGED vars => Inv'
  BY DEF vars, Inv, TypeOK, NumbersInv, NoneForgotten, AnswersInv, SizeInv,
     Sent, Kept, Open

\* The inductive invariant holds in every reachable state.
THEOREM Invariance == Spec => []Inv
<1>1. Inv /\ [Next]_vars => Inv'
  BY TypeStep, NumbersStep, ForgottenStep, AnswersStep, SizeStep, InvStutter
     DEF Inv
<1> QED
  BY InitInv, <1>1, PTL DEF Spec

-----------------------------------------------------------------------------
\* Every variable of the table keeps its type, and no number is above the
\* counter (socket.rs, send_with_ack_permit).
THEOREM TypeCorrect == Spec => []TypeOK
<1>1. Inv => TypeOK
  BY DEF Inv
<1> QED
  BY Invariance, <1>1, PTL

\* A caller who waits is never forgotten by a sweep (socket.rs, the retain of
\* send_with_ack_permit).
THEOREM WaitersKept == Spec => []NoneForgotten
<1>1. Inv => NoneForgotten
  BY DEF Inv
<1> QED
  BY Invariance, <1>1, PTL

\* The table is bounded by the callers who wait, not by those who gave up
\* (socket.rs, ack_sweep_at).
THEOREM Bounded == Spec => []TableBounded
<1>1. Inv => TableBounded
  <2> SUFFICES ASSUME Inv PROVE TableBounded
    OBVIOUS
  <2>1. Cardinality(table) \in Nat
    BY KeptFinite DEF Inv, SizeInv
  <2> QED
    BY <2>1, SweepMinOK DEF Inv, TypeOK, SizeInv, TableBounded, Larger
<1> QED
  BY Invariance, <1>1, PTL

\* The cost of a sweep is proportional to the insertions since the previous
\* one (socket.rs, the threshold of send_with_ack_permit).
THEOREM SweepCost == Spec => []SweepsPaidFor
<1>1. Inv => SweepsPaidFor
  <2> SUFFICES ASSUME Inv, MustSweep PROVE Cardinality(table) <= 2 * since
    BY DEF SweepsPaidFor
  <2>1. Cardinality(table) \in Nat
    BY KeptFinite DEF Inv, SizeInv
  <2> QED
    BY <2>1 DEF Inv, TypeOK, SizeInv, MustSweep
<1> QED
  BY Invariance, <1>1, PTL

\* An answer that comes in time is returned, however it races the timeout, the
\* sweep and the end of the socket (ack.rs, AckResultWithId::poll).
THEOREM AnswerWins == Spec => AnswerNotLost
<1>1. Inv /\ [Next]_vars
        => [\A k \in Calls :
              call[k] = "waiting" /\ call'[k] \in {"timedout", "closed"}
                => k \notin replied]_vars
  <2> SUFFICES ASSUME Inv, Next, NEW k \in Calls, call[k] = "waiting",
                      call'[k] \in {"timedout", "closed"}
               PROVE  k \notin replied
    OBVIOUS
  <2>1. k \notin delivered
    <3> USE DEF Inv, TypeOK, Become
    <3>1. ASSUME NEW j \in Calls, CallStep(j) PROVE k \notin delivered
      BY <3>1 DEF CallStep, Number, Fail, Insert, Send, Answered, TimeOut,
         Closed, Drop
    <3>2. ASSUME NEW i \in 1..counter, RecvAck(i) PROVE FALSE
      BY <3>2 DEF RecvAck
    <3>3. ASSUME SocketDropped PROVE FALSE
      BY <3>3 DEF SocketDropped
    <3> QED
      BY <3>1, <3>2, <3>3 DEF Next
  <2> QED
    BY <2>1 DEF Inv, AnswersInv
<1> QED
  BY Invariance, <1>1, PTL DEF Spec, AnswerNotLost
=============================================================================
