------------------------------ MODULE GeoSync ------------------------------
(***************************************************************************)
(* The whole back end: LocationServer with the service that it posts to.   *)
(* LocationServer alone lets every post return anything; here a handler of *)
(* protocol.c enters http_post_json with a document and gets what          *)
(* DatabaseService makes of it.  The clients are those of LocationServer.  *)
(* The posts of log_event, whose answers nobody reads, and /stats change   *)
(* nothing that either side looks at, and are left to DatabaseService.     *)
(***************************************************************************)
EXTENDS LocationServer

CONSTANTS
    Passwords, Levels, Demo1, Demo2, \* as in DatabaseService
    MaxPosts,   \* bound: frames sent, and so calls of http_post_json
    NoCall

ASSUME PasswordsAssumption == Passwords \subseteq Seq(Nat)
ASSUME DemoAssumption == {Demo1, Demo2} \subseteq [username : Users, password : Passwords]
ASSUME PostsAssumption == MaxPosts \in Nat /\ NoCall \notin Nat

VARIABLES
    service, users, locations, logs, stats, requests, call, posts, confirmed,
    relayed     \* history: the locations whose relay has begun, each with its
                \* post and what came back from it

DB == INSTANCE DatabaseService

dbVars == <<service, users, locations, logs, stats, requests, call, posts, confirmed>>
geoVars == <<vars, dbVars, relayed>>

GeoInit == Init /\ DB!Init /\ relayed = {}
-----------------------------------------------------------------------------
\* The document a handler posts for message m of the client in slot s.  A
\* user's frame may carry any of the passwords.
Documents(s, m) ==
    IF m.kind = "location"
    THEN {[endpoint |-> "/location", body |-> [user_id |-> slots[s].user, place |-> m.arg]]}
    ELSE [endpoint : {IF m.kind = "auth" THEN "/auth" ELSE "/register"},
          body : [username : {m.arg}, password : Passwords]]

\* handle_auth, handle_register or handle_location up to its post.
EnterPost(s) ==
    /\ Credentials(s) \/ Location(s)
    /\ pc' = "post"
    /\ \E q \in Documents(s, work') : DB!Post(q)
    /\ UNCHANGED relayed

\* What this step adds to relayed: a step to the relay is the start of one.
Begun(post, result) ==
    relayed' = relayed \union
               {r \in {[kind |-> work'.kind, post |-> post, result |-> result]} :
                  pc # "relay" /\ pc' = "relay"}

\* http_post_json returns to the handler.
LeavePost == \E r \in Results : HttpReturn(r) /\ DB!Return(r) /\ Begun(call, r)

\* Every other step of the server.
ServerStep == ServerNext /\ pc' # "post" /\ UNCHANGED dbVars /\ Begun(NoCall, "none")

\* The frames that have been sent and not read.
Unread == UNION {{c} \X {k \in DOMAIN conn[c].inq : conn[c].inq[k] \notin {Upgrade, BadUpgrade}}
                 : c \in Conns}

\* Bound: MaxPosts holds back the clients, so that it never stops the server.
ClientStep(c) ==
    /\ ClientNext(c)
    /\ Send(c) => posts + Cardinality(Unread) < MaxPosts
    /\ UNCHANGED <<dbVars, relayed>>

GeoNext ==
    \/ ServerStep \/ LeavePost
    \/ \E s \in Slots : EnterPost(s)
    \/ DB!ServiceNext /\ UNCHANGED <<vars, relayed>>
    \/ Interrupt /\ UNCHANGED <<dbVars, relayed>>
    \/ Restart /\ UNCHANGED <<dbVars, relayed>>
    \/ \E c \in Conns : ClientStep(c)

GeoSpec == GeoInit /\ [][GeoNext]_geoVars

\* What FairSpec assumes, with the two-second timeouts of http_client.c:30-32
\* in the place of a backend that answers: nothing is assumed of the service.
GeoFairSpec ==
    /\ GeoSpec
    /\ WF_geoVars(ServerStep \/ \E s \in Slots : EnterPost(s))
    /\ WF_geoVars(LeavePost)
    /\ \A c \in Conns : WF_geoVars(Expire(c) /\ UNCHANGED <<dbVars, relayed>>)
-----------------------------------------------------------------------------
(* Properties.                                                             *)

\* A client that is logged in has an account, whatever became of the service
\* since: identities come from answers the service gave after its commit.
LoggedInUsersExist ==
    \A s \in Occupied : slots[s].authenticated => DB!Taken(users, slots[s].user)

\* Every stored location belongs to an account.  service.py:41 declares the
\* reference, but SQLite does not enforce it unless told to: it rests on
\* handle_message, which lets only clients that are logged in post one.
LocationsHaveOwners ==
    \A k \in DOMAIN locations : DB!Taken(users, locations[k].user_id)

\* The table and the maps tell the same story but for what timed out: nothing
\* is stored that was not relayed too (or is about to be), even by a request
\* that its caller gave up; what the service confirmed is stored; and what is
\* relayed without a post has no coordinates (protocol.c:210).
MapAndTableAgree ==
    /\ \A k \in DOMAIN locations :
         locations[k].post = call \/ \E r \in relayed : r.post = locations[k].post
    /\ \A r \in relayed :
         LET stored == \E k \in DOMAIN locations : locations[k].post = r.post
         IN  /\ r.result = "ok" => stored
             /\ r.result = "refused" => ~stored
             /\ r.post = NoCall => r.kind = "bad_location"

\* The composition implements LocationServer, its fairness included: although
\* the service may stop or hang at any time, every post returns.
ServerImplemented == FairSpec
=============================================================================
