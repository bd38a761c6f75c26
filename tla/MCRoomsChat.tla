----------------------------- MODULE MCRoomsChat -----------------------------
\* One client, whose tasks of an old connection run beside those of a new one.
\* Two rooms, the first one and one to change to.
EXTENDS RoomsChat

\* Of two connections, two messages and a change of room, one is left out.
FourEvents == \A c \in Clients : conns[c] + sent + changes <= 4
=============================================================================
