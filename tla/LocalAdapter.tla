---------------------------- MODULE LocalAdapter ----------------------------
(***************************************************************************)
(* The in-memory adapter of a namespace: the rooms of the sockets, kept in *)
(* two maps, and the selection of the sockets a broadcast is for           *)
(* (socketioxide-core, adapter/mod.rs).                                    *)
(*                                                                         *)
(* Every operation takes the locks of the maps it uses for its whole       *)
(* duration, always `rooms` before `sockets`: it is one action, and what   *)
(* is interleaved is whole operations of many tasks.  The arguments that   *)
(* are lists of rooms to join or leave are sets here: their order and      *)
(* repetitions make no difference.  Abstracted: the packets, and which     *)
(* order a HashSet is iterated in.                                         *)
(***************************************************************************)
EXTENDS Naturals, Sequences, SequencesExt

CONSTANTS
  Sids,
  Rooms,
  MaxRooms,   \* length of the room list of a broadcast
  None

ASSUME ArgumentsOK == MaxRooms \in Nat /\ None \notin Sids

VARIABLES
  rooms,     \* CoreLocalAdapter::rooms, {} for a room with no entry
  roomKeys,  \* the rooms that have an entry
  sockets,   \* CoreLocalAdapter::sockets, {} for a socket with no entry
  present,   \* the sids of Namespace::sockets
  closed     \* history: close was called

vars == <<rooms, roomKeys, sockets, present, closed>>

\* BroadcastOptions, as the operators build them: `to`, `except` and
\* `broadcast` set the broadcast flag, `within` does not.
Options ==
  {o \in [rooms : BoundedSeq(Rooms, MaxRooms), except : SUBSET Rooms,
          sid : Sids \cup {None}, broadcast : BOOLEAN] :
     o.except # {} => o.broadcast}

TypeOK ==
  /\ rooms \in [Rooms -> SUBSET Sids]
  /\ roomKeys \subseteq Rooms
  /\ sockets \in [Sids -> SUBSET Rooms]
  /\ present \subseteq Sids
  /\ closed \in BOOLEAN

Init ==
  /\ rooms = [r \in Rooms |-> {}]
  /\ roomKeys = {}
  /\ sockets = [s \in Sids |-> {}]
  /\ present = {}
  /\ closed = FALSE

-----------------------------------------------------------------------------
(* apply_opts                                                              *)

\* Mutant: the sender of a broadcast is not excluded.
ExceptRoomsOnly(o) == UNION {rooms[r] : r \in o.except}

\* get_except_sids, and the sender of a broadcast.
ExceptSids(o) ==
  (UNION {rooms[r] : r \in o.except})
    \cup (IF o.broadcast THEN {o.sid} \ {None} ELSE {})

\* What BroadcastRooms returns while it iterates over the i-th room: with
\* several rooms, each socket it returns is from then on excluded.
Yields(o, i) ==
  {s \in rooms[o.rooms[i]] :
     /\ s \notin ExceptSids(o)
     /\ Len(o.rooms) > 1 => \A j \in 1..(i - 1) : s \notin rooms[o.rooms[j]]}

Selected(o) ==
  IF o.rooms # <<>> THEN UNION {Yields(o, i) : i \in 1..Len(o.rooms)}
  ELSE IF o.broadcast THEN present \ ExceptSids(o)
  ELSE {o.sid} \ {None}

-----------------------------------------------------------------------------
(* The operations                                                          *)

\* Mutant: the socket of a join replaces those of the rooms.
AddAllReplaces(s, R) ==
  /\ rooms' = [r \in Rooms |-> IF r \in R THEN {s} ELSE rooms[r]]
  /\ roomKeys' = roomKeys \cup R
  /\ sockets' = [sockets EXCEPT ![s] = @ \cup R]
  /\ UNCHANGED <<present, closed>>

\* add_all: the socket s joins the rooms R.
AddAll(s, R) ==
  /\ rooms' = [r \in Rooms |-> IF r \in R THEN rooms[r] \cup {s} ELSE rooms[r]]
  /\ roomKeys' = roomKeys \cup R
  /\ sockets' = [sockets EXCEPT ![s] = @ \cup R]
  /\ UNCHANGED <<present, closed>>

\* Mutant: the socket keeps the rooms it left.
DelRoomsOnly(s, R) ==
  /\ rooms' = [r \in Rooms |-> IF r \in R THEN rooms[r] \ {s} ELSE rooms[r]]
  /\ roomKeys' = roomKeys \ {r \in R : rooms[r] \subseteq {s}}
  /\ UNCHANGED <<sockets, present, closed>>

\* del: only the rooms that have an entry are looked at, and an entry that
\* becomes empty is removed.
Del(s, R) ==
  /\ rooms' = [r \in Rooms |-> IF r \in R THEN rooms[r] \ {s} ELSE rooms[r]]
  /\ roomKeys' = roomKeys \ {r \in R : rooms[r] \subseteq {s}}
  /\ sockets' = [sockets EXCEPT ![s] = @ \ (R \cap roomKeys)]
  /\ UNCHANGED <<present, closed>>

\* del_all: the rooms to leave are those of the socket map.
DelAll(s) ==
  /\ rooms' = [r \in Rooms |->
                 IF r \in sockets[s] THEN rooms[r] \ {s} ELSE rooms[r]]
  /\ roomKeys' = roomKeys \ {r \in sockets[s] : rooms[r] \subseteq {s}}
  /\ sockets' = [sockets EXCEPT ![s] = {}]
  /\ UNCHANGED <<present, closed>>

\* add_sockets: the rooms get an entry even if nobody joins them.
AddSockets(o, R) ==
  LET sids == Selected(o) IN
    /\ rooms' = [r \in Rooms |-> IF r \in R THEN rooms[r] \cup sids ELSE rooms[r]]
    /\ roomKeys' = roomKeys \cup R
    /\ sockets' = [s \in Sids |->
                     IF s \in sids THEN sockets[s] \cup R ELSE sockets[s]]
    /\ UNCHANGED <<present, closed>>

\* del_sockets
DelSockets(o, R) ==
  LET sids == Selected(o) IN
    /\ rooms' = [r \in Rooms |-> IF r \in R THEN rooms[r] \ sids ELSE rooms[r]]
    /\ roomKeys' = roomKeys \ {r \in R : sids # {} /\ rooms[r] \subseteq sids}
    /\ sockets' = [s \in Sids |->
                     IF s \in sids THEN sockets[s] \ R ELSE sockets[s]]
    /\ UNCHANGED <<present, closed>>

\* close, for adapters built on this one (those of the repository do not call
\* it): the socket map is not cleared.
CloseAdapter ==
  /\ rooms' = [r \in Rooms |-> {}]
  /\ roomKeys' = {}
  /\ closed' = TRUE
  /\ UNCHANGED <<sockets, present>>

\* A socket enters or leaves the namespace (ns.rs); its rooms are left by a
\* later del_all.
Arrive(s) ==
  /\ present' = present \cup {s}
  /\ UNCHANGED <<rooms, roomKeys, sockets, closed>>

Depart(s) ==
  /\ present' = present \ {s}
  /\ UNCHANGED <<rooms, roomKeys, sockets, closed>>

Next ==
  \/ \E s \in Sids : Arrive(s) \/ Depart(s) \/ DelAll(s)
  \/ \E s \in Sids, R \in SUBSET Rooms : AddAll(s, R) \/ Del(s, R)
  \/ \E o \in Options, R \in SUBSET Rooms : AddSockets(o, R) \/ DelSockets(o, R)
  \/ CloseAdapter

Spec == Init /\ [][Next]_vars

-----------------------------------------------------------------------------
(* Properties                                                              *)

\* A room lists only sockets that know they are in it, so that del_all cleans
\* every room; and as long as the adapter was not closed the two maps say the
\* same (the rooms a socket is told it has, the sockets a room reaches).
MapsAgree ==
  /\ \A s \in Sids, r \in Rooms : s \in rooms[r] => r \in sockets[s]
  /\ ~closed => \A s \in Sids, r \in Rooms : r \in sockets[s] => s \in rooms[r]
  /\ \A r \in Rooms \ roomKeys : rooms[r] = {}

\* The relation the two maps stand for, read from the rooms.
Joined == {p \in Sids \X Rooms : p[1] \in rooms[p[2]]}

Relation == INSTANCE RoomRelation WITH joined <- Joined

\* The sockets selected for a broadcast, a join or a leave are those the options
\* mean, whatever was joined, left, cleaned and closed before (apply_opts).
SelectionMeant == \A o \in Options : Selected(o) = Relation!Matching(o)

\* LocalAdapter implements RoomRelation: an operation that goes through both
\* maps moves the sockets it is for and no other, even when it looks the rooms
\* up in the map that may be stale.
RefinesRelation == Relation!Spec

-----------------------------------------------------------------------------
(* What the documentation says and the code does not do                     *)

\* "Remove a field from a HashSet value and remove it if empty" (mod.rs), and
\* the tests of del and del_all: a room without socket has no entry.
EmptyHasNoEntry == \A r \in roomKeys : rooms[r] # {}
=============================================================================
