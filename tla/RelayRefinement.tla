--------------------------- MODULE RelayRefinement ---------------------------
(* LocationServer implements LocationRelay: the refinement mapping. *)
EXTENDS LocationServer

\* The members are the clients of the authenticated slots.
Members == {slots[s].sock : s \in {t \in Occupied : slots[t].authenticated}}

Ended == {c \in Conns : conn[c].peer = "gone"}

\* A relay is in progress while server_broadcast runs, and it still owes the
\* message to the slots its loop has not passed.
InProgress == IF pc = "relay"
              THEN {[msg |-> work.arg, todo |-> {slots[s].sock : s \in Audience}]}
              ELSE {}

\* Locations are told apart, replies and pongs are not.
Seen(m) == IF m.kind = "location" THEN m.arg ELSE Nil

SeenIn(q) == [k \in DOMAIN q |-> Seen(q[k])]

\* The messages written to each connection and not read.
Inbox == [c \in Conns |-> SeenIn(conn[c].outq)]

Relay == INSTANCE LocationRelay WITH
    Clients  <- Conns,
    Messages <- Places,
    Other    <- Nil,
    members  <- Members,
    ended    <- Ended,
    relay    <- InProgress,
    inbox    <- Inbox

\* Every step of the server, its clients and the network is a step of the
\* abstract relay or leaves it alone: locations are neither lost (before the
\* connection ends), duplicated, reordered, nor delivered to the sender or to
\* strangers.
RelaySpec == Relay!Spec
=============================================================================
