------------------------------ MODULE Membership ------------------------------
(***************************************************************************)
(* What a namespace promises about its sockets, whatever tasks run: a      *)
(* connect attempt of a session is tried, then admitted or turned away;    *)
(* a session has at most one attempt that is tried or admitted; an attempt *)
(* that is out never comes back.                                           *)
(***************************************************************************)
CONSTANTS Sids, Conns, None

VARIABLES life, owner
vars == <<life, owner>>

Life == {"new", "arrived", "trying", "member", "out"}

Init ==
  /\ life = [c \in Conns |-> "new"]
  /\ owner = [c \in Conns |-> None]

Become(c, stage) == life' = [life EXCEPT ![c] = stage]

Arrive(c, s) ==
  /\ life[c] = "new"
  /\ Become(c, "arrived")
  /\ owner' = [owner EXCEPT ![c] = s]

\* Only when no other attempt of the same session is tried or admitted.
Try(c) ==
  /\ life[c] = "arrived"
  /\ \A d \in Conns : owner[d] = owner[c] => life[d] \notin {"trying", "member"}
  /\ Become(c, "trying")
  /\ UNCHANGED owner

Admit(c) == life[c] = "trying" /\ Become(c, "member") /\ UNCHANGED owner

\* Ignored, refused, failed, disconnected or gone with its session.
Leave(c) ==
  /\ life[c] \in {"arrived", "trying", "member"}
  /\ Become(c, "out")
  /\ UNCHANGED owner

Next == \E c \in Conns :
  \/ \E s \in Sids : Arrive(c, s)
  \/ Try(c) \/ Admit(c) \/ Leave(c)

Spec == Init /\ [][Next]_vars

\* A session never has two attempts tried or admitted at once.
OneLive == \A c, d \in Conns :
  /\ life[c] \in {"trying", "member"} /\ life[d] \in {"trying", "member"}
  /\ owner[c] = owner[d]
  => c = d
=============================================================================
