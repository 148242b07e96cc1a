--------------------------- MODULE MCLocationRelay ---------------------------
(* A small instance of RelayRefinement for TLC. *)
EXTENDS MCLocationServer, RelayRefinement

\* A login and a location: enough for a relay to two receivers (without coordinates,
\* which spares the post).
GroupInputs == {AuthAs(u1), [kind |-> "bad_location", arg |-> p1]}
=============================================================================
