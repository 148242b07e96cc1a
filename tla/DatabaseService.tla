--------------------------- MODULE DatabaseService ---------------------------
(***************************************************************************)
(* The Flask service of scripts/service.py over its SQLite file, and the   *)
(* client side of it, http_post_json of src/http_client.c.                 *)
(*                                                                         *)
(* Flask runs each request in a thread of its own and the C server makes   *)
(* one call at a time, but a call that times out leaves its request behind *)
(* in the service: several may be under way at once, and what a request    *)
(* does to the tables may happen long after its caller has given up.  Each *)
(* handler makes one SQL statement and commits it: one step here.          *)
(* /stats, which the page polls, makes five statements and no transaction. *)
(***************************************************************************)
EXTENDS Integers, Sequences, SequencesExt

CONSTANTS
    Users, Places,
    Passwords,   \* each the sequence of its code points
    Levels,      \* of log entries, which stand for the whole entry
    Demo1,       \* the two accounts init_db seeds
    Demo2,
    MaxPosts,    \* bound: calls of http_post_json
    NoCall       \* the C server is not in http_post_json

Credentials == [username : Users, password : Passwords]

\* What the C server posts: the endpoint and its JSON document.
Request ==
    [endpoint : {"/auth", "/register"}, body : Credentials] \union
    [endpoint : {"/location"}, body : [user_id : Users, place : Places]] \union
    [endpoint : {"/log"}, body : [level : Levels]]

ASSUME PasswordsAssumption == Passwords \subseteq Seq(Nat)
ASSUME DemoAssumption == Demo1 \in Credentials /\ Demo2 \in Credentials
ASSUME PostsAssumption == MaxPosts \in Nat /\ NoCall \notin Nat

VARIABLES
    service,    \* "down" or "up"
    users,      \* table users in id order; rows are never deleted, so the
                \* user name of a row stands for its id
    locations,  \* table locations in id order, with the post each is from
    logs,       \* table logs in id order
    stats,      \* what the /stats under way has read, <<>> if there is none
    requests,   \* posts in the service, answered or not
    call,       \* the post http_post_json is waiting for, or NoCall
    posts,      \* http_post_json calls so far
    confirmed   \* history: the posts that were answered with success

dbVars == <<service, users, locations, logs, stats, requests, call, posts, confirmed>>

Answers == {"none", "ok", "refused"}

Init ==
    /\ service = "down"
    /\ users = <<>> /\ locations = <<>> /\ logs = <<>> /\ stats = <<>>
    /\ requests = {} /\ call = NoCall /\ posts = 0
    /\ confirmed = {}
-----------------------------------------------------------------------------
(* The tables.                                                             *)

\* hash_val in two halves of 16 bits.  The hash is no secret of its password:
\* a login with another one of the same hash is accepted.
hash_password(password) ==
    FoldLeft(LAMBDA hash_val, c :
               LET low == 33 * hash_val[2] + c
               IN  <<(33 * hash_val[1] + low \div 2^16) % 2^16, low % 2^16>>,
             <<0, 5381>>, password)

\* Mutant of Row: the password is stored as it is.
RowInClear(c) == [username |-> c.username, password_hash |-> c.password]

Row(c) == [username |-> c.username, password_hash |-> hash_password(c.password)]

Taken(table, name) == \E k \in DOMAIN table : table[k].username = name

\* INSERT OR IGNORE INTO users.
Seeded(table, c) == IF Taken(table, c.username) THEN table ELSE Append(table, Row(c))

\* The tables that init_db may leave: an error at one of its two INSERTs skips
\* the rest and keeps nobody from starting.
init_db(table) ==
    LET one == Seeded(table, Demo1)
    IN  {table, one, Seeded(one, Demo2)}

\* Mutant of ServiceStart: init_db drops the tables first.
ServiceStartDrops ==
    /\ service = "down"
    /\ service' = "up"
    /\ users' \in init_db(<<>>)
    /\ locations' = <<>>
    /\ UNCHANGED <<logs, stats, requests, call, posts, confirmed>>

\* init_db, then app.run.
ServiceStart ==
    /\ service = "down"
    /\ service' = "up"
    /\ users' \in init_db(users)
    /\ UNCHANGED <<locations, logs, stats, requests, call, posts, confirmed>>

\* The service is stopped or killed: its threads end, what they have
\* committed stays.
ServiceStop ==
    /\ service = "up"
    /\ service' = "down"
    /\ requests' = {} /\ stats' = <<>>
    /\ UNCHANGED <<users, locations, logs, call, posts, confirmed>>
-----------------------------------------------------------------------------
(* The handlers.  Answer(r, a): request r is answered; nobody reads the    *)
(* answer if its caller has given up.                                      *)

Answer(r, a) ==
    /\ r.answer = "none"
    /\ requests' = (requests \ {r}) \union
                   {t \in {[r EXCEPT !.answer = a]} : t.post = call}
    /\ UNCHANGED <<service, stats, call, posts, confirmed>>

\* auth
Auth(r) ==
    /\ r.request.endpoint = "/auth"
    /\ Answer(r, IF \E k \in DOMAIN users : users[k] = Row(r.request.body)
                 THEN "ok" ELSE "refused")
    /\ UNCHANGED <<users, locations, logs>>

\* Mutant of Register: the column is not UNIQUE.
RegisterTwice(r) ==
    /\ r.request.endpoint = "/register"
    /\ Answer(r, "ok") /\ users' = Append(users, Row(r.request.body))
    /\ UNCHANGED <<locations, logs>>

\* register: the UNIQUE constraint refuses a second account of that name.
Register(r) ==
    /\ r.request.endpoint = "/register"
    /\ IF Taken(users, r.request.body.username)
       THEN Answer(r, "refused") /\ UNCHANGED users
       ELSE Answer(r, "ok") /\ users' = Append(users, Row(r.request.body))
    /\ UNCHANGED <<locations, logs>>

\* Mutant of Location: the row is committed, and the request handled again.
LocationTwice(r) ==
    /\ r.request.endpoint = "/location" /\ r.answer = "none"
    /\ locations' = Append(locations, [user_id |-> r.request.body.user_id,
                                       place |-> r.request.body.place, post |-> r.post])
    /\ Len(locations) < MaxPosts
    /\ UNCHANGED <<service, users, logs, stats, requests, call, posts, confirmed>>

\* location
Location(r) ==
    /\ r.request.endpoint = "/location"
    /\ Answer(r, "ok")
    /\ locations' = Append(locations, [user_id |-> r.request.body.user_id,
                                       place |-> r.request.body.place, post |-> r.post])
    /\ UNCHANGED <<users, logs>>

\* log_event: success is reported even if the insertion failed.
Log(r) ==
    /\ r.request.endpoint = "/log"
    /\ Answer(r, "ok")
    /\ logs' = Append(logs, r.request.body.level) \/ UNCHANGED logs
    /\ UNCHANGED <<users, locations>>

\* Mutant of Refuse: an error is swallowed and success is reported.
RefuseAsSuccess(r) == Answer(r, "ok") /\ UNCHANGED <<users, locations, logs>>

\* SQLite reports an error (locked, disk full), or Flask cannot use the
\* document: an answer without success, and no table changes.
Refuse(r) ==
    /\ Answer(r, "refused")
    /\ UNCHANGED <<users, locations, logs>>

Handle(r) == Auth(r) \/ Register(r) \/ Location(r) \/ Log(r) \/ Refuse(r)

\* Mutant of Columns: the newest rows are asked for before the counts.
ColumnsSwapped == <<"users", "last_location", "last_log", "locations", "logs">>

\* The five statements of /stats, in order.
Columns == <<"users", "locations", "logs", "last_location", "last_log">>

\* COUNT(*), or MAX(timestamp): rows are in the order of their timestamps, so
\* that a row's number stands for its timestamp.
Value == [users |-> Len(users), locations |-> Len(locations), logs |-> Len(logs),
          last_location |-> Len(locations), last_log |-> Len(logs)]

StatsQuery ==
    /\ service = "up"
    /\ \E k \in DOMAIN Columns :
         /\ DOMAIN stats = {Columns[n] : n \in 1 .. k - 1}
         /\ stats' = [column \in DOMAIN stats \union {Columns[k]} |->
                        IF column = Columns[k] THEN Value[column] ELSE stats[column]]
    /\ UNCHANGED <<service, users, locations, logs, requests, call, posts, confirmed>>

\* The answer, or an error ("stats_unavailable") at any statement.
StatsDone ==
    /\ stats # <<>> /\ stats' = <<>>
    /\ UNCHANGED <<service, users, locations, logs, requests, call, posts, confirmed>>
-----------------------------------------------------------------------------
(* http_post_json                                                          *)

\* Connect and send.  Without a service the connection is refused, and the
\* call can only fail.
Post(q) ==
    /\ call = NoCall /\ posts < MaxPosts
    /\ posts' = posts + 1 /\ call' = posts + 1
    /\ requests' = requests \union
                   {r \in {[post |-> posts + 1, request |-> q, answer |-> "none"]} :
                      service = "up"}
    /\ UNCHANGED <<service, users, locations, logs, stats, confirmed>>

\* The answer arrives: 0, and the handler in protocol.c parses it.
Answered(result) ==
    \E r \in requests :
      /\ r.post = call /\ r.answer = result /\ result \in {"ok", "refused"}
      /\ call' = NoCall
      /\ requests' = requests \ {r}
      /\ confirmed' = confirmed \union
                      {t \in {[post |-> r.post, request |-> r.request]} : result = "ok"}
      /\ UNCHANGED <<service, users, locations, logs, stats, posts>>

\* Mutant of Failed: no timeouts, so only a dead service ends the call.
FailedWithoutTimeout(result) ==
    /\ call # NoCall /\ result = "failed"
    /\ \A r \in requests : r.post # call
    /\ call' = NoCall
    /\ UNCHANGED <<service, users, locations, logs, stats, requests, posts, confirmed>>

\* Connection refused or reset, or two seconds without a byte: -1.
Failed(result) ==
    /\ call # NoCall /\ result = "failed"
    /\ call' = NoCall
    /\ requests' = {r \in requests : r.answer = "none"}
    /\ UNCHANGED <<service, users, locations, logs, stats, posts, confirmed>>

Return(result) == Answered(result) \/ Failed(result)

ServiceNext == ServiceStart \/ ServiceStop \/ \E r \in requests : Handle(r)

StatsNext == StatsQuery \/ StatsDone

Results == {"ok", "refused", "failed"}

Next ==
    \/ ServiceNext \/ StatsNext
    \/ \E q \in Request : Post(q)
    \/ \E result \in Results : Return(result)

Spec == Init /\ [][Next]_dbVars
-----------------------------------------------------------------------------
(* Properties.                                                             *)

Account == [username : Users, password_hash : {hash_password(p) : p \in Passwords}]

LocationRow == [user_id : Users, place : Places, post : Nat]

TypeOK ==
    /\ service \in {"down", "up"}
    /\ users \in Seq(Account) /\ locations \in Seq(LocationRow)
    /\ logs \in Seq(Levels) /\ \A column \in DOMAIN stats : stats[column] \in Nat
    /\ requests \subseteq [post : Nat, request : Request, answer : Answers]
    /\ call \in Nat \union {NoCall} /\ posts \in Nat
    /\ confirmed \subseteq [post : Nat, request : Request]

\* Seen from its tables the service is the layer it replaced, with the same
\* hashes (service.py:12): whatever is handled late, twice at once or across a
\* restart, each change is one a call of database.c would have made, and rows
\* survive (service.py:29-30).
Embedded ==
    INSTANCE EmbeddedDatabase WITH
        db <- service = "up",
        locations <- [k \in DOMAIN locations |-> [user_id |-> locations[k].user_id,
                                                 place |-> locations[k].place]],
        Seeds <- <<Demo1, Demo2>>
Implemented == Embedded!Spec

\* A page is never told of rows without the newest of them: although rows may
\* be committed between any two statements of /stats, the newest location and
\* entry it reports are at least as new as the last ones it counted.
StatsConsistent ==
    DOMAIN stats = DOMAIN Value => /\ stats.locations <= stats.last_location
                                   /\ stats.logs <= stats.last_log

\* A user name is won once: of any number of registrations of it, however
\* late they are handled and whatever was seeded, at most one is confirmed to
\* its caller.
OneOwner ==
    \A a, b \in confirmed :
      /\ a.request.endpoint = "/register" /\ b.request.endpoint = "/register"
      /\ a.request.body.username = b.request.body.username
      => a = b

\* Credentials the C server was told are good belong to an account.
ConfirmedAccounts ==
    \A a \in confirmed :
      a.request.endpoint \in {"/auth", "/register"} =>
        \E k \in DOMAIN users : users[k] = Row(a.request.body)

\* A location is stored at most once, although its caller may have given up,
\* and one that was confirmed is stored before everything posted after it.
\* (One that was given up may still be stored, after later ones.)
ConfirmedInOrder ==
    /\ \A k, l \in DOMAIN locations : locations[k].post = locations[l].post => k = l
    /\ \A a \in confirmed :
         a.request.endpoint = "/location" =>
           \E k \in DOMAIN locations :
             /\ locations[k].post = a.post
             /\ \A l \in 1 .. k : locations[l].post <= a.post
=============================================================================
