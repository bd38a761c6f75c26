---------------------------- MODULE RoomRelation ----------------------------
(***************************************************************************)
(* What an adapter promises: a relation between sockets and rooms, and for *)
(* the options of a broadcast the sockets they mean.  LocalAdapter shows   *)
(* that its two maps implement this relation.                              *)
(***************************************************************************)
EXTENDS Naturals, Sequences

CONSTANTS Sids, Rooms, Options, None

VARIABLES
  joined,    \* the pairs <<sid, room>>
  present    \* the sids in the namespace

vars == <<joined, present>>

In(s, r) == <<s, r>> \in joined

\* The sockets of the listed rooms; without rooms, every socket for a
\* broadcast and the sender alone otherwise; but no socket of an excluded room
\* and, for a broadcast, not the sender.
Matching(o) ==
  LET wanted ==
        IF o.rooms # <<>>
          THEN {s \in Sids : \E i \in DOMAIN o.rooms : In(s, o.rooms[i])}
          ELSE IF o.broadcast THEN present ELSE {o.sid} \ {None}
      excluded ==
        {s \in Sids : \/ \E r \in o.except : In(s, r)
                      \/ o.broadcast /\ s = o.sid}
  IN wanted \ excluded

Init == joined = {} /\ present = {}

Join(S, R) == joined' = joined \cup (S \X R) /\ UNCHANGED present
Leave(S, R) == joined' = joined \ (S \X R) /\ UNCHANGED present
Clear == joined' = {} /\ UNCHANGED present
Move(s) == present' \in {present \cup {s}, present \ {s}} /\ UNCHANGED joined

Next ==
  \/ \E s \in Sids : Move(s) \/ Leave({s}, Rooms)
  \/ \E s \in Sids, R \in SUBSET Rooms : Join({s}, R) \/ Leave({s}, R)
  \/ \E o \in Options, R \in SUBSET Rooms :
       Join(Matching(o), R) \/ Leave(Matching(o), R)
  \/ Clear

Spec == Init /\ [][Next]_vars
=============================================================================
