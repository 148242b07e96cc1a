---------------------------- MODULE LocationRelay ----------------------------
(***************************************************************************)
(* What the server promises about location messages, without slots, frames *)
(* or sockets: a group of members, one message relayed at a time, and each *)
(* message appended exactly once to the inbox of every member other than   *)
(* its sender, except those whose connection has ended.  Since a relay is  *)
(* finished before the next begins, any two members see the messages both  *)
(* receive in the same order.                                              *)
(***************************************************************************)
EXTENDS Sequences

CONSTANTS
    Clients,    \* who may become a member
    Messages,   \* what may be relayed
    Other       \* anything else that a client may be sent, and no message

VARIABLES
    members,    \* the clients that are logged in
    ended,      \* the clients whose connection is over and not cleaned up yet
    relay,      \* the relay in progress, if there is one: its message and
                \* the members that it has not reached yet
    inbox       \* what has been written to each client and not read by it

vars == <<members, ended, relay, inbox>>

Idle == relay = {}

Init ==
    /\ members = {} /\ ended = {}
    /\ relay = {}
    /\ inbox = [c \in Clients |-> <<>>]

Join(c) ==
    /\ Idle
    /\ members' = members \union {c}
    /\ UNCHANGED <<ended, relay, inbox>>

Publish(c, m) ==
    /\ Idle /\ c \in members
    /\ relay' = {[msg |-> m, todo |-> members \ {c}]}
    /\ UNCHANGED <<members, ended, inbox>>

Deliver(c) ==
    /\ c \notin ended
    /\ \E r \in relay :
         /\ c \in r.todo
         /\ relay' = {[r EXCEPT !.todo = @ \ {c}]}
         /\ inbox' = [inbox EXCEPT ![c] = Append(@, r.msg)]
    /\ UNCHANGED <<members, ended>>

\* The only excuse for leaving a member out.
Miss(c) ==
    /\ c \in ended
    /\ \E r \in relay : c \in r.todo /\ relay' = {[r EXCEPT !.todo = @ \ {c}]}
    /\ UNCHANGED <<members, ended, inbox>>

Finish ==
    /\ \E r \in relay : r.todo = {}
    /\ relay' = {}
    /\ UNCHANGED <<members, ended, inbox>>

\* Between two relays c may be sent something else.
Reply(c) ==
    /\ Idle /\ c \notin ended
    /\ inbox' = [inbox EXCEPT ![c] = Append(@, Other)]
    /\ UNCHANGED <<members, ended, relay>>

Receive(c) ==
    /\ c \notin ended /\ inbox[c] # <<>>
    /\ inbox' = [inbox EXCEPT ![c] = Tail(@)]
    /\ UNCHANGED <<members, ended, relay>>

\* c's connection ends: what it has not read is lost.
End(c) ==
    /\ ended' = ended \union {c}
    /\ inbox' = [inbox EXCEPT ![c] = <<>>]
    /\ UNCHANGED <<members, relay>>

\* The server closes c's connection, or notices that it has ended.
Remove(c) ==
    /\ Idle
    /\ members' = members \ {c}
    /\ ended' = ended \ {c}
    /\ inbox' = [inbox EXCEPT ![c] = <<>>]
    /\ UNCHANGED relay

\* The program ends, between two relays.
Stop ==
    /\ Idle
    /\ members' = {} /\ ended' = {}
    /\ inbox' = [c \in Clients |-> <<>>]
    /\ UNCHANGED relay

Next ==
    \/ Finish \/ Stop
    \/ \E c \in Clients :
         \/ Join(c) \/ Deliver(c) \/ Miss(c) \/ Reply(c) \/ Receive(c) \/ End(c) \/ Remove(c)
         \/ \E m \in Messages : Publish(c, m)

Spec == Init /\ [][Next]_vars
=============================================================================
