----------------------------- MODULE EngineLife -----------------------------
(***************************************************************************)
(* What an engine.io session promises to the layer above it, the socketio  *)
(* client: it is closed once; from then on it first stops taking packets   *)
(* and only then reports the disconnection, once.  Namespace relies on     *)
(* exactly these stages, EngineSession implements them.                    *)
(***************************************************************************)
EXTENDS Naturals

VARIABLES
  engine,   \* the stage of the session
  sent      \* the packets it took from the layer above

Init == engine = "open" /\ sent = 0

\* A packet is taken until the channel is closed.
Send ==
  /\ engine \in {"open", "closing"}
  /\ sent' = sent + 1
  /\ UNCHANGED engine

StartClosing ==
  /\ engine = "open"
  /\ engine' = "closing"
  /\ UNCHANGED sent

CloseChannel ==
  /\ engine = "closing"
  /\ engine' = "closed"
  /\ UNCHANGED sent

OnDisconnect ==
  /\ engine = "closed"
  /\ engine' = "gone"
  /\ UNCHANGED sent

Next == Send \/ StartClosing \/ CloseChannel \/ OnDisconnect

Spec == Init /\ [][Next]_<<engine, sent>>
=============================================================================
