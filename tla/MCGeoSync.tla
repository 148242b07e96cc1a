------------------------------ MODULE MCGeoSync ------------------------------
(* Small instances of GeoSync for TLC. *)
EXTENDS GeoSync

CONSTANTS c1, c2, user1, ann, p1

\* "pass1".
Pass1 == <<112, 97, 115, 115, 49>>

\* With a wrong one a login would be refused, as is ann's before she has registered.
OnePassword == {Pass1}
User1 == [username |-> user1, password |-> Pass1]

\* A demo account, one that may be registered, and locations.
AccountInputs ==
    {[kind |-> "auth", arg |-> user1], [kind |-> "auth", arg |-> ann],
     [kind |-> "register", arg |-> ann], [kind |-> "location", arg |-> p1],
     [kind |-> "bad_location", arg |-> p1]}
==============================================================================
