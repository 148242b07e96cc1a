-------------------------- MODULE MCLocationServer --------------------------
(* Small instances of LocationServer for TLC. *)
EXTENDS LocationServer, TLC

CONSTANTS c1, c2, c3, u1, u2, p1, p2

Plain(kind) == [kind |-> kind, arg |-> Nil]
AuthAs(u) == [kind |-> "auth", arg |-> u]
At(p) == [kind |-> "location", arg |-> p]

\* Logging in, switching identity, moving, and frames cut short.
SessionInputs == {AuthAs(u1), AuthAs(u2), At(p1), Plain("partial")}

\* A login, a location and a frame cut short: each way the server can wait.
WaitingInputs == {AuthAs(u1), At(p1), Plain("partial")}

\* One frame of every kind the server tells apart, on one connection.
EveryKind ==
    {Plain(k) : k \in PlainTextKinds \union ControlKinds} \union
    {AuthAs(u1), Plain("auth"), Plain("register"), [kind |-> "register", arg |-> u2], At(p1), [kind |-> "bad_location", arg |-> p1]}

HandleSymmetry == Permutations({c1, c2, c3} \intersect Conns)
=============================================================================
