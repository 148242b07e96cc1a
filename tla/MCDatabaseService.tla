-------------------------- MODULE MCDatabaseService --------------------------
(* Small instances of DatabaseService for TLC. *)
EXTENDS DatabaseService

CONSTANTS user1, user2, p1

\* "pass1", and two passwords of one hash, "xAb" and "xBA".
Pass1 == <<112, 97, 115, 115, 49>>
Passwords2 == {Pass1, <<120, 65, 98>>, <<120, 66, 65>>}
User1 == [username |-> user1, password |-> Pass1]
User2 == [username |-> user2, password |-> <<120, 65, 98>>]
=============================================================================
