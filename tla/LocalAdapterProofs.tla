------------------------- MODULE LocalAdapterProofs -------------------------
(***************************************************************************)
(* Proofs about LocalAdapter, for any sets of sockets and rooms and any    *)
(* length of the room lists: the maps agree, a broadcast reaches the       *)
(* sockets its options mean, and the adapter implements the relation       *)
(* between sockets and rooms of RoomRelation.                              *)
(***************************************************************************)
EXTENDS LocalAdapter, WellFoundedInduction, TLAPS

-----------------------------------------------------------------------------
(* The options of a broadcast                                              *)

\* A member of Options has the fields its type says, and its room list is a
\* sequence of rooms.
LEMMA OptionFields ==
  ASSUME NEW o \in Options
  PROVE  /\ o.rooms \in Seq(Rooms)
         /\ o.except \subseteq Rooms
         /\ o.sid \in Sids \cup {None}
         /\ o.broadcast \in BOOLEAN
         /\ o.except # {} => o.broadcast
<1>1. /\ o.rooms \in BoundedSeq(Rooms, MaxRooms)
      /\ o.except \in SUBSET Rooms
      /\ o.sid \in Sids \cup {None}
      /\ o.broadcast \in BOOLEAN
      /\ o.except # {} => o.broadcast
  BY DEF Options
<1>2. o.rooms \in UNION {[1..m -> Rooms] : m \in 0..MaxRooms}
  BY <1>1 DEF BoundedSeq, SeqOf
<1>3. PICK m \in 0..MaxRooms : o.rooms \in [1..m -> Rooms]
  BY <1>2
<1>4. m \in Nat
  BY <1>3, ArgumentsOK
<1>5. o.rooms \in Seq(Rooms)
  BY <1>3, <1>4
<1> QED
  BY <1>1, <1>5

\* Only sockets are selected.
LEMMA SelectedAreSids ==
  ASSUME TypeOK, NEW o \in Options
  PROVE  Selected(o) \subseteq Sids
<1>1. \A i \in 1..Len(o.rooms) : Yields(o, i) \subseteq Sids
  BY OptionFields DEF Yields, TypeOK
<1> QED
  BY <1>1, OptionFields DEF Selected, TypeOK

-----------------------------------------------------------------------------
(* The invariant                                                           *)

\* MapsAgree is inductive with the types.
Inv == TypeOK /\ MapsAgree

LEMMA InitInv == Init => Inv
BY DEF Init, Inv, TypeOK, MapsAgree

LEMMA AddAllInv ==
  ASSUME Inv, NEW s \in Sids, NEW R \in SUBSET Rooms, AddAll(s, R)
  PROVE  Inv'
<1>1. TypeOK'
  BY DEF Inv, TypeOK, AddAll
<1>2. MapsAgree'
  BY DEF Inv, TypeOK, MapsAgree, AddAll
<1> QED
  BY <1>1, <1>2 DEF Inv

LEMMA DelInv ==
  ASSUME Inv, NEW s \in Sids, NEW R \in SUBSET Rooms, Del(s, R)
  PROVE  Inv'
<1>1. TypeOK'
  BY DEF Inv, TypeOK, Del
<1>2. MapsAgree'
  BY DEF Inv, TypeOK, MapsAgree, Del
<1> QED
  BY <1>1, <1>2 DEF Inv

LEMMA DelAllInv ==
  ASSUME Inv, NEW s \in Sids, DelAll(s)
  PROVE  Inv'
<1>1. TypeOK'
  BY DEF Inv, TypeOK, DelAll
<1>2. MapsAgree'
  BY DEF Inv, TypeOK, MapsAgree, DelAll
<1> QED
  BY <1>1, <1>2 DEF Inv

LEMMA AddSocketsInv ==
  ASSUME Inv, NEW o \in Options, NEW R \in SUBSET Rooms, AddSockets(o, R)
  PROVE  Inv'
<1> DEFINE sids == Selected(o)
<1>1. sids \subseteq Sids
  BY SelectedAreSids DEF Inv
<1>2. /\ rooms' = [r \in Rooms |->
                     IF r \in R THEN rooms[r] \cup sids ELSE rooms[r]]
      /\ roomKeys' = roomKeys \cup R
      /\ sockets' = [s \in Sids |->
                       IF s \in sids THEN sockets[s] \cup R ELSE sockets[s]]
      /\ UNCHANGED <<present, closed>>
  BY DEF AddSockets
<1> HIDE DEF sids
<1>3. TypeOK'
  BY <1>1, <1>2 DEF Inv, TypeOK
<1>4. MapsAgree'
  BY <1>1, <1>2 DEF Inv, TypeOK, MapsAgree
<1> QED
  BY <1>3, <1>4 DEF Inv

LEMMA DelSocketsInv ==
  ASSUME Inv, NEW o \in Options, NEW R \in SUBSET Rooms, DelSockets(o, R)
  PROVE  Inv'
<1> DEFINE sids == Selected(o)
<1>1. sids \subseteq Sids
  BY SelectedAreSids DEF Inv
<1>2. /\ rooms' = [r \in Rooms |->
                     IF r \in R THEN rooms[r] \ sids ELSE rooms[r]]
      /\ roomKeys' = roomKeys \ {r \in R : sids # {} /\ rooms[r] \subseteq sids}
      /\ sockets' = [s \in Sids |->
                       IF s \in sids THEN sockets[s] \ R ELSE sockets[s]]
      /\ UNCHANGED <<present, closed>>
  BY DEF DelSockets
<1> HIDE DEF sids
<1>3. TypeOK'
  BY <1>1, <1>2 DEF Inv, TypeOK
<1>4. MapsAgree'
  BY <1>1, <1>2 DEF Inv, TypeOK, MapsAgree
<1> QED
  BY <1>3, <1>4 DEF Inv

LEMMA StepInv == Inv /\ [Next]_vars => Inv'
<1> SUFFICES ASSUME Inv, [Next]_vars
             PROVE  Inv'
  OBVIOUS
<1>1. ASSUME NEW s \in Sids, Arrive(s)
      PROVE  Inv'
  BY <1>1 DEF Inv, TypeOK, MapsAgree, Arrive
<1>2. ASSUME NEW s \in Sids, Depart(s)
      PROVE  Inv'
  BY <1>2 DEF Inv, TypeOK, MapsAgree, Depart
<1>3. CASE CloseAdapter
  BY <1>3 DEF Inv, TypeOK, MapsAgree, CloseAdapter
<1>4. CASE UNCHANGED vars
  BY <1>4 DEF Inv, TypeOK, MapsAgree, vars
<1> QED
  BY <1>1, <1>2, <1>3, <1>4, AddAllInv, DelInv, DelAllInv, AddSocketsInv,
     DelSocketsInv DEF Next

\* Both maps have their types after any sequence of operations: a selection
\* never yields the absent sender.
THEOREM TypeCorrect == Spec => []TypeOK
<1>1. Inv => TypeOK
  BY DEF Inv
<1> QED
  BY <1>1, InitInv, StepInv, PTL DEF Spec

\* The two maps agree after any sequence of operations on one socket or on a
\* selection of sockets, and the rooms never know more than the sockets.
THEOREM Agreement == Spec => []MapsAgree
<1>1. Inv => MapsAgree
  BY DEF Inv
<1> QED
  BY <1>1, InitInv, StepInv, PTL DEF Spec

-----------------------------------------------------------------------------
(* The selection                                                           *)

\* Some room is the first of the list with the socket in it.
LEMMA FirstRoom ==
  ASSUME NEW o \in Options, NEW s,
         \E i \in 1..Len(o.rooms) : s \in rooms[o.rooms[i]]
  PROVE  \E i \in 1..Len(o.rooms) :
            /\ s \in rooms[o.rooms[i]]
            /\ \A j \in 1..(i - 1) : s \notin rooms[o.rooms[j]]
<1> DEFINE T == {i \in 1..Len(o.rooms) : s \in rooms[o.rooms[i]]}
<1>1. Len(o.rooms) \in Nat
  BY OptionFields
<1>2. T \subseteq Nat /\ T # {}
  BY <1>1
<1>3. PICK i \in T : \A j \in T : ~ (<<j, i>> \in OpToRel(<, Nat))
  <2> HIDE DEF T
  <2> QED
    BY <1>2, WFMin, NatLessThanWellFounded
<1>4. \A j \in T : ~ (j < i)
  BY <1>2, <1>3 DEF OpToRel
<1>5. \A j \in 1..(i - 1) : j \in 1..Len(o.rooms) /\ j < i
  BY <1>1
<1> QED
  BY <1>4, <1>5

\* What the iterator returns is what the options mean for the relation.
LEMMA SelectedMatches ==
  ASSUME TypeOK, NEW o \in Options
  PROVE  Selected(o) = Relation!Matching(o)
<1>1. \A s \in Sids, r \in Rooms : Relation!In(s, r) <=> s \in rooms[r]
  BY DEF Relation!In, Joined
<1>2. \A s \in Sids :
        s \in ExceptSids(o) <=>
          \/ \E r \in o.except : Relation!In(s, r)
          \/ o.broadcast /\ s = o.sid
  BY <1>1, OptionFields, ArgumentsOK DEF ExceptSids
<1>3. CASE o.rooms = <<>> /\ o.broadcast
  BY <1>2, <1>3, OptionFields DEF Selected, Relation!Matching, TypeOK
<1>4. CASE o.rooms = <<>> /\ ~o.broadcast
  BY <1>2, <1>4, OptionFields DEF Selected, Relation!Matching, TypeOK
<1>5. CASE o.rooms # <<>>
  <2>1. DOMAIN o.rooms = 1..Len(o.rooms)
    BY OptionFields
  <2>2. \A s \in Sids :
          s \in Selected(o) <=> /\ \E i \in 1..Len(o.rooms) : s \in rooms[o.rooms[i]]
                               /\ s \notin ExceptSids(o)
    <3> SUFFICES ASSUME NEW s \in Sids
                 PROVE  s \in Selected(o) <=>
                           /\ \E i \in 1..Len(o.rooms) : s \in rooms[o.rooms[i]]
                           /\ s \notin ExceptSids(o)
      OBVIOUS
    <3>1. s \in Selected(o) <=> \E i \in 1..Len(o.rooms) : s \in Yields(o, i)
      BY <1>5 DEF Selected
    <3>2. ASSUME \E i \in 1..Len(o.rooms) : s \in rooms[o.rooms[i]],
                 s \notin ExceptSids(o)
          PROVE  \E i \in 1..Len(o.rooms) : s \in Yields(o, i)
      BY <3>2, FirstRoom DEF Yields
    <3> QED
      BY <3>1, <3>2 DEF Yields
  <2>3. \A i \in 1..Len(o.rooms) : o.rooms[i] \in Rooms
    BY OptionFields
  <2>4. \A s \in Sids : s \in Selected(o) <=> s \in Relation!Matching(o)
    BY <1>1, <1>2, <1>5, <2>1, <2>2, <2>3 DEF Relation!Matching
  <2>5. Selected(o) \subseteq Sids /\ Relation!Matching(o) \subseteq Sids
    BY <1>5, SelectedAreSids DEF Relation!Matching
  <2> QED
    BY <2>4, <2>5
<1> QED
  BY <1>3, <1>4, <1>5, OptionFields

-----------------------------------------------------------------------------
(* The refinement                                                          *)

\* Removing the sockets S from the rooms R, in a map of rooms, is leaving.
LEMMA LeaveStep ==
  ASSUME NEW S \in SUBSET Sids, NEW R \in SUBSET Rooms,
         \A r \in Rooms : rooms'[r] = IF r \in R THEN rooms[r] \ S ELSE rooms[r],
         UNCHANGED present
  PROVE  Relation!Leave(S, R)
<1>1. Joined' = Joined \ (S \X R)
  BY DEF Joined
<1> QED
  BY <1>1 DEF Relation!Leave

\* Adding them is joining.
LEMMA JoinStep ==
  ASSUME NEW S \in SUBSET Sids, NEW R \in SUBSET Rooms,
         \A r \in Rooms : rooms'[r] = IF r \in R THEN rooms[r] \cup S ELSE rooms[r],
         UNCHANGED present
  PROVE  Relation!Join(S, R)
<1>1. Joined' = Joined \cup (S \X R)
  BY DEF Joined
<1> QED
  BY <1>1 DEF Relation!Join

LEMMA RefinementStep ==
  ASSUME Inv, [Next]_vars
  PROVE  [Relation!Next]_(Relation!vars)
<1>1. ASSUME NEW s \in Sids, NEW R \in SUBSET Rooms, AddAll(s, R)
      PROVE  Relation!Next
  <2>1. Relation!Join({s}, R)
    BY <1>1, JoinStep DEF AddAll
  <2> QED
    BY <2>1 DEF Relation!Next
<1>2. ASSUME NEW s \in Sids, NEW R \in SUBSET Rooms, Del(s, R)
      PROVE  Relation!Next
  <2>1. Relation!Leave({s}, R)
    BY <1>2, LeaveStep DEF Del
  <2> QED
    BY <2>1 DEF Relation!Next
<1>3. ASSUME NEW s \in Sids, DelAll(s)
      PROVE  Relation!Next
  \* A room that is not in the map of the socket does not hold the socket.
  <2>1. \A r \in Rooms \ sockets[s] : rooms[r] \ {s} = rooms[r]
    BY DEF Inv, TypeOK, MapsAgree
  <2>2. \A r \in Rooms : rooms'[r] = IF r \in Rooms THEN rooms[r] \ {s} ELSE rooms[r]
    BY <1>3, <2>1 DEF DelAll
  <2>3. Relation!Leave({s}, Rooms)
    BY <1>3, <2>2, LeaveStep DEF DelAll
  <2> QED
    BY <2>3 DEF Relation!Next
<1>4. ASSUME NEW o \in Options, NEW R \in SUBSET Rooms, AddSockets(o, R)
      PROVE  Relation!Next
  <2>1. Selected(o) \in SUBSET Sids
    BY SelectedAreSids DEF Inv
  <2>2. Relation!Join(Selected(o), R)
    BY <1>4, <2>1, JoinStep DEF AddSockets
  <2>3. Relation!Join(Relation!Matching(o), R)
    BY <2>2, SelectedMatches DEF Inv
  <2> QED
    BY <2>3 DEF Relation!Next
<1>5. ASSUME NEW o \in Options, NEW R \in SUBSET Rooms, DelSockets(o, R)
      PROVE  Relation!Next
  <2>1. Selected(o) \in SUBSET Sids
    BY SelectedAreSids DEF Inv
  <2>2. Relation!Leave(Selected(o), R)
    BY <1>5, <2>1, LeaveStep DEF DelSockets
  <2>3. Relation!Leave(Relation!Matching(o), R)
    BY <2>2, SelectedMatches DEF Inv
  <2> QED
    BY <2>3 DEF Relation!Next
<1>6. CASE CloseAdapter
  <2>1. Joined' = {} /\ UNCHANGED present
    BY <1>6 DEF CloseAdapter, Joined
  <2> QED
    BY <2>1 DEF Relation!Next, Relation!Clear
<1>7. ASSUME NEW s \in Sids, Arrive(s) \/ Depart(s)
      PROVE  Relation!Next
  <2>1. UNCHANGED Joined /\ present' \in {present \cup {s}, present \ {s}}
    BY <1>7 DEF Arrive, Depart, Joined
  <2> QED
    BY <2>1 DEF Relation!Next, Relation!Move
<1>8. CASE UNCHANGED vars
  BY <1>8 DEF vars, Joined, Relation!vars
<1> QED
  BY <1>1, <1>2, <1>3, <1>4, <1>5, <1>6, <1>7, <1>8 DEF Next

\* A selection yields the sockets its options mean, for any list of rooms
\* (adapter/mod.rs, apply_opts).
THEOREM Meant == Spec => []SelectionMeant
<1>1. Inv => SelectionMeant
  BY SelectedMatches DEF Inv, SelectionMeant
<1> QED
  BY InitInv, StepInv, <1>1, PTL DEF Spec

\* LocalAdapter implements RoomRelation, for any sets and any length of the
\* room lists: each operation moves the sockets it is for and no other.
THEOREM Refinement == Spec => RefinesRelation
<1>1. Init => Relation!Init
  BY DEF Init, Joined, Relation!Init
<1> QED
  BY <1>1, InitInv, StepInv, RefinementStep, PTL DEF Spec, RefinesRelation, Relation!Spec
=============================================================================
