------------------------ MODULE DatabaseServiceProofs ------------------------
(***************************************************************************)
(* Theorems about DatabaseService, for every set of users, passwords,      *)
(* places and levels and any number of posts: requests may be handled      *)
(* late, in any order, and the service may restart between any two steps.  *)
(* And DatabaseService implements EmbeddedDatabase: what the threads of    *)
(* the service do to its tables, however late, is what calls of database.c *)
(* would have done one at a time.                                          *)
(***************************************************************************)
EXTENDS DatabaseService, SequenceTheorems, TLAPS

\* Requests are told apart by their posts; the one call that waits is the
\* newest post, and only its request may have been answered.
RequestsByPost ==
    /\ call \in {NoCall, posts}
    /\ \A r \in requests :
         /\ r.post \in 1 .. posts
         /\ r.answer # "none" => r.post = call
         /\ \A q \in requests : r.post = q.post => r = q
    /\ requests # {} => service = "up"

\* A confirmed post is over: no request and no call has its number.
ConfirmedOnce ==
    \A a \in confirmed :
        /\ a.post \in 1 .. posts /\ a.post # call
        /\ \A r \in requests : r.post # a.post
        /\ \A b \in confirmed : a.post = b.post => a = b

\* Posts that have been answered with success, read by the caller or not.
Won == confirmed \union
       {[post |-> r.post, request |-> r.request] : r \in {t \in requests : t.answer = "ok"}}

\* Success was not reported without the effect.
WonTookEffect ==
    \A a \in Won :
        /\ a.request.endpoint \in {"/auth", "/register"} =>
             \E k \in DOMAIN users : users[k] = Row(a.request.body)
        /\ a.request.endpoint = "/location" =>
             \E k \in DOMAIN locations :
               /\ locations[k].post = a.post
               /\ \A l \in 1 .. k : locations[l].post <= a.post

\* A name is won once, by those that have read their answer or will.
NamesWonOnce ==
    \A a, b \in Won :
        /\ a.request.endpoint = "/register" /\ b.request.endpoint = "/register"
        /\ a.request.body.username = b.request.body.username
        => a = b

\* A row of locations is from a post that was made, each from another one, and
\* its request, if it is still there, has been answered with success.
RowsByPost ==
    \A k \in DOMAIN locations :
        /\ locations[k].post \in 1 .. posts
        /\ \A l \in DOMAIN locations : locations[k].post = locations[l].post => k = l
        /\ \A r \in requests : r.post = locations[k].post => r.answer = "ok"

\* /stats reads its columns in order: each is no more than the table has now,
\* and the newest row is no older than the count read before.
StatsInOrder ==
    \A pair \in {<<"locations", "last_location">>, <<"logs", "last_log">>} :
        LET table == IF pair[1] = "locations" THEN Len(locations) ELSE Len(logs)
        IN  /\ pair[1] \in DOMAIN stats => stats[pair[1]] <= table
            /\ pair[2] \in DOMAIN stats =>
                 pair[1] \in DOMAIN stats /\ stats[pair[1]] <= stats[pair[2]]

IInv == /\ TypeOK /\ RequestsByPost /\ ConfirmedOnce /\ WonTookEffect
        /\ NamesWonOnce /\ RowsByPost /\ StatsInOrder
-----------------------------------------------------------------------------
(* Requests, accounts and tables.                                          *)

\* What the body of a request is follows from its endpoint.
LEMMA RequestFields ==
    ASSUME NEW q \in Request
    PROVE  /\ q.endpoint \in {"/auth", "/register"} => q.body \in Credentials
           /\ q.endpoint = "/location" => q.body.user_id \in Users /\ q.body.place \in Places
           /\ q.endpoint = "/log" => q.body.level \in Levels
  BY DEF Request

LEMMA RowType == \A c \in Credentials : Row(c) \in Account
  BY DEF Row, Credentials, Account

\* One table holds all the rows of the other at their places.
Grows(t, u) == DOMAIN t \subseteq DOMAIN u /\ \A k \in DOMAIN t : u[k] = t[k]

LEMMA AppendGrows ==
    ASSUME NEW S, NEW t \in Seq(S), NEW e \in S
    PROVE  /\ Append(t, e) \in Seq(S) /\ Grows(t, Append(t, e))
           /\ DOMAIN t = 1 .. Len(t) /\ DOMAIN Append(t, e) = 1 .. Len(t) + 1
           /\ Append(t, e)[Len(t) + 1] = e /\ Len(Append(t, e)) = Len(t) + 1 /\ Len(t) \in Nat
  BY DEF Grows

\* INSERT OR IGNORE keeps what is there.
LEMMA SeededGrows ==
    ASSUME NEW t \in Seq(Account), NEW c \in Credentials
    PROVE  Seeded(t, c) \in Seq(Account) /\ Grows(t, Seeded(t, c))
  <1>1. CASE Taken(t, c.username)
    BY <1>1 DEF Seeded, Grows
  <1>2. CASE ~Taken(t, c.username)
    BY <1>2, RowType, AppendGrows DEF Seeded
  <1> QED BY <1>1, <1>2

LEMMA GrowsTwice == ASSUME NEW t, NEW u, NEW v, Grows(t, u), Grows(u, v) PROVE Grows(t, v)
  BY DEF Grows

\* Whatever init_db leaves has the rows that were there.
LEMMA StartGrows ==
    ASSUME NEW t \in Seq(Account), NEW u \in init_db(t)
    PROVE  u \in Seq(Account) /\ Grows(t, u)
  <1> DEFINE one == Seeded(t, Demo1)
  <1>1. u \in {t, one, Seeded(one, Demo2)}
    BY DEF init_db
  <1>2. one \in Seq(Account) /\ Grows(t, one)
    BY SeededGrows, DemoAssumption
  <1> HIDE DEF one
  <1>3. Seeded(one, Demo2) \in Seq(Account) /\ Grows(one, Seeded(one, Demo2))
    BY <1>2, SeededGrows, DemoAssumption
  <1>4. Grows(t, Seeded(one, Demo2))
    BY <1>2, <1>3, GrowsTwice
  <1>5. Grows(t, t)
    BY DEF Grows
  <1> QED BY <1>1, <1>2, <1>3, <1>4, <1>5
-----------------------------------------------------------------------------
(* What a step may do to each part of the invariant.                       *)

\* Answering a request: it is gone, or it is the one its caller waits for and
\* then marked.
LEMMA AnswerFields ==
    ASSUME TypeOK, NEW r \in requests, NEW a \in {"ok", "refused"}, Answer(r, a)
    PROVE  /\ requests' \subseteq [post : Nat, request : Request, answer : Answers]
           /\ r.answer = "none"
           /\ \A q \in requests' : \/ q \in requests \ {r}
                                  \/ /\ q.post = r.post /\ q.request = r.request
                                     /\ q.answer = a /\ q.post = call
  <1> DEFINE t == [r EXCEPT !.answer = a]
  <1>1. r \in [post : Nat, request : Request, answer : Answers]
    BY DEF TypeOK
  <1>2. /\ t \in [post : Nat, request : Request, answer : Answers]
        /\ t.post = r.post /\ t.request = r.request /\ t.answer = a
    BY <1>1 DEF Answers
  <1>3. requests' = (requests \ {r}) \union {u \in {t} : u.post = call} /\ r.answer = "none"
    BY DEF Answer
  <1> HIDE DEF t
  <1> QED BY <1>2, <1>3 DEF TypeOK

LEMMA AnswerKeepsPosts ==
    ASSUME TypeOK, RequestsByPost, ConfirmedOnce,
           NEW r \in requests, NEW a \in {"ok", "refused"}, Answer(r, a)
    PROVE  RequestsByPost' /\ ConfirmedOnce'
  <1>1. UNCHANGED <<service, call, posts, confirmed>>
    BY DEF Answer
  <1>2. \A q \in requests' : \/ q \in requests \ {r}
                             \/ /\ q.post = r.post /\ q.request = r.request
                                /\ q.answer = a /\ q.post = call
    BY AnswerFields
  <1>3. \A q \in requests' : q \in [post : Nat, request : Request, answer : Answers]
    BY AnswerFields
  <1>4. \A p, q \in requests' : p.post = q.post => p = q
    BY <1>2, <1>3 DEF RequestsByPost
  <1>5. RequestsByPost'
    BY <1>1, <1>2, <1>4 DEF RequestsByPost
  <1>6. ConfirmedOnce'
    BY <1>1, <1>2 DEF ConfirmedOnce
  <1> QED BY <1>5, <1>6

\* Rows that were promised stay; what is promised anew has its row, and a name
\* that is won anew was free.
LEMMA PromisesKept ==
    ASSUME TypeOK, WonTookEffect, NamesWonOnce,
           Grows(users, users'), Grows(locations, locations'),
           NEW w, \A a \in Won' : a \in Won \/ a = w,
           w \in Won' \ Won =>
             /\ service = "up"
             /\ w.request.endpoint \in {"/auth", "/register"} =>
                  \E k \in DOMAIN users' : users'[k] = Row(w.request.body)
             /\ w.request.endpoint = "/register" => ~Taken(users, w.request.body.username)
             /\ w.request.endpoint = "/location" =>
                  \E k \in DOMAIN locations' :
                    /\ locations'[k].post = w.post
                    /\ \A l \in 1 .. k : locations'[l].post <= w.post
    PROVE  WonTookEffect' /\ NamesWonOnce'
  <1>1. DOMAIN locations = 1 .. Len(locations) /\ Len(locations) \in Nat
    BY DEF TypeOK
  <1>2. ASSUME NEW a \in Won'
        PROVE  /\ a.request.endpoint \in {"/auth", "/register"} =>
                    \E k \in DOMAIN users' : users'[k] = Row(a.request.body)
               /\ a.request.endpoint = "/location" =>
                    \E k \in DOMAIN locations' :
                      /\ locations'[k].post = a.post
                      /\ \A l \in 1 .. k : locations'[l].post <= a.post
    <2>1. CASE a \in Won
      <3>1. ASSUME a.request.endpoint \in {"/auth", "/register"}
            PROVE  \E k \in DOMAIN users' : users'[k] = Row(a.request.body)
        BY <2>1, <3>1 DEF WonTookEffect, Grows
      <3>2. ASSUME a.request.endpoint = "/location"
            PROVE  \E k \in DOMAIN locations' :
                      /\ locations'[k].post = a.post
                      /\ \A l \in 1 .. k : locations'[l].post <= a.post
        <4>1. PICK k \in DOMAIN locations : /\ locations[k].post = a.post
                                            /\ \A l \in 1 .. k : locations[l].post <= a.post
          BY <2>1, <3>2 DEF WonTookEffect
        <4>2. \A l \in 1 .. k : l \in DOMAIN locations
          BY <1>1
        <4> QED BY <4>1, <4>2 DEF Grows
      <3> QED BY <3>1, <3>2
    <2>2. CASE a = w /\ w \notin Won
      BY <1>2, <2>2
    <2> QED BY <1>2, <2>1, <2>2
  <1>3. WonTookEffect'
    BY <1>2 DEF WonTookEffect
  <1>4. ASSUME NEW a \in Won', NEW b \in Won', a.request.endpoint = "/register",
               b.request.endpoint = "/register", a.request.body.username = b.request.body.username
        PROVE  a = b
    <2>1. \A c \in Won : c.request.endpoint = "/register" => Taken(users, c.request.body.username)
      BY DEF WonTookEffect, Taken, Row
    <2>2. CASE a \in Won /\ b \in Won
      BY <1>4, <2>2 DEF NamesWonOnce
    <2>3. CASE a = w /\ a \notin Won /\ b \in Won
      BY <1>4, <2>1, <2>3
    <2>4. CASE a \in Won /\ b = w /\ b \notin Won
      BY <1>4, <2>1, <2>4
    <2>5. CASE a = w /\ b = w
      BY <2>5
    <2> QED BY <1>4, <2>2, <2>3, <2>4, <2>5
  <1> QED BY <1>3, <1>4 DEF NamesWonOnce

\* The same when nothing is promised anew.
LEMMA PromisesStay ==
    ASSUME TypeOK, WonTookEffect, NamesWonOnce,
           Grows(users, users'), Grows(locations, locations'),
           \A a \in Won' : a \in Won
    PROVE  WonTookEffect' /\ NamesWonOnce'
  <1>1. \A a \in Won' : a \in Won \/ a = 0
    OBVIOUS
  <1>2. 0 \notin Won' \ Won
    OBVIOUS
  <1> QED BY <1>1, <1>2, PromisesKept

\* No row is added; requests are answered, dropped, or new.
LEMMA RowsKept ==
    ASSUME RowsByPost, locations' = locations, posts \in Nat, posts' \in {posts, posts + 1},
           \A q \in requests' :
             \/ \E r \in requests : r.post = q.post /\ (r.answer = "ok" => q.answer = "ok")
             \/ q.post = posts + 1
    PROVE  RowsByPost'
  <1>1. \A k \in DOMAIN locations : locations[k].post \in 1 .. posts /\ locations[k].post \in 1 .. posts'
    BY DEF RowsByPost
  <1>2. ASSUME NEW k \in DOMAIN locations, NEW q \in requests', q.post = locations[k].post
        PROVE  q.answer = "ok"
    <2>1. q.post # posts + 1
      BY <1>1, <1>2
    <2>2. PICK r \in requests : r.post = q.post /\ (r.answer = "ok" => q.answer = "ok")
      BY <2>1
    <2> QED BY <1>2, <2>2 DEF RowsByPost
  <1> QED BY <1>1, <1>2 DEF RowsByPost

\* /stats reads nothing in this step.
LEMMA StatsKept ==
    ASSUME TypeOK, StatsInOrder, stats' = stats,
           Len(locations) <= Len(locations'), Len(logs) <= Len(logs'),
           Len(locations') \in Nat, Len(logs') \in Nat
    PROVE  StatsInOrder'
  <1>1. Len(locations) \in Nat /\ Len(logs) \in Nat
    BY DEF TypeOK
  <1> QED BY <1>1 DEF StatsInOrder, TypeOK
-----------------------------------------------------------------------------
(* The service and its handlers.                                           *)

\* The process starts, with init_db, or stops.
LEMMA ProcessKeeps == ASSUME IInv, ServiceStart \/ ServiceStop PROVE IInv'
  <1>1. TypeOK
    BY DEF IInv
  <1>2. CASE ServiceStart
    <2>1. users \in Seq(Account) /\ users' \in init_db(users)
      BY <1>1, <1>2 DEF TypeOK, ServiceStart
    <2>2. users' \in Seq(Account) /\ Grows(users, users')
      BY <2>1, StartGrows
    <2>4. /\ UNCHANGED <<locations, logs, stats, requests, call, posts, confirmed>>
          /\ service' = "up" /\ requests = {}
      BY <1>2 DEF ServiceStart, IInv, RequestsByPost
    <2>5. TypeOK'
      BY <1>1, <2>2, <2>4 DEF TypeOK
    <2>6. RequestsByPost' /\ ConfirmedOnce'
      BY <2>4 DEF IInv, RequestsByPost, ConfirmedOnce
    <2>7. WonTookEffect' /\ NamesWonOnce'
      <3>1. Won' = Won /\ Grows(locations, locations')
        BY <2>4 DEF Won, Grows
      <3> QED BY <1>1, <2>2, <3>1, PromisesStay DEF IInv
    <2>8. RowsByPost' /\ StatsInOrder'
      BY <2>4 DEF IInv, RowsByPost, StatsInOrder
    <2> QED BY <2>5, <2>6, <2>7, <2>8 DEF IInv
  <1>3. CASE ServiceStop
    <2>1. /\ UNCHANGED <<users, locations, logs, call, posts, confirmed>>
          /\ requests' = {} /\ stats' = <<>> /\ service' = "down"
      BY <1>3 DEF ServiceStop
    <2>2. DOMAIN stats' = {}
      BY <2>1
    <2>3. TypeOK'
      BY <1>1, <2>1, <2>2 DEF TypeOK
    <2>4. RequestsByPost' /\ ConfirmedOnce' /\ RowsByPost'
      BY <2>1 DEF IInv, RequestsByPost, ConfirmedOnce, RowsByPost
    <2>5. StatsInOrder'
      BY <2>2 DEF StatsInOrder
    <2>6. WonTookEffect' /\ NamesWonOnce'
      <3>1. \A a \in Won' : a \in Won
        BY <2>1 DEF Won
      <3>2. Grows(users, users') /\ Grows(locations, locations')
        BY <2>1 DEF Grows
      <3> QED BY <1>1, <2>1, <3>1, <3>2, PromisesStay DEF IInv
    <2> QED BY <2>3, <2>4, <2>5, <2>6 DEF IInv
  <1> QED BY <1>2, <1>3

\* A request is answered, and the tables have what the answer promises.
LEMMA AnswerKeeps ==
    ASSUME IInv, NEW r \in requests, NEW a \in {"ok", "refused"}, Answer(r, a),
           users' \in Seq(Account), Grows(users, users'),
           locations' \in Seq(LocationRow), Grows(locations, locations'),
           Len(locations) <= Len(locations'), RowsByPost',
           logs' \in Seq(Levels), Len(logs) <= Len(logs'),
           a = "ok" =>
             /\ r.request.endpoint \in {"/auth", "/register"} =>
                  \E k \in DOMAIN users' : users'[k] = Row(r.request.body)
             /\ r.request.endpoint = "/register" => ~Taken(users, r.request.body.username)
             /\ r.request.endpoint = "/location" /\ r.post = call =>
                  \E k \in DOMAIN locations' :
                    /\ locations'[k].post = r.post
                    /\ \A l \in 1 .. k : locations'[l].post <= r.post
    PROVE  IInv'
  <1> DEFINE w == [post |-> r.post, request |-> r.request]
  <1>1. /\ TypeOK /\ RequestsByPost /\ ConfirmedOnce /\ service = "up"
        /\ r \in [post : Nat, request : Request, answer : Answers]
    BY DEF IInv, TypeOK, RequestsByPost
  <1>2. /\ UNCHANGED <<service, stats, call, posts, confirmed>> /\ r.answer = "none"
    BY DEF Answer
  <1>3. RequestsByPost' /\ ConfirmedOnce'
    BY <1>1, AnswerKeepsPosts
  <1>4. \A b \in Won' : b \in Won \/ (b = w /\ a = "ok" /\ r.post = call)
    BY <1>1, <1>2, AnswerFields DEF Won
  <1>5. TypeOK'
    BY <1>1, <1>2, AnswerFields DEF TypeOK
  <1>6. WonTookEffect' /\ NamesWonOnce'
    <2>2. w.post = r.post /\ w.request = r.request
      OBVIOUS
    <2>3. /\ \A b \in Won' : b \in Won \/ b = w
          /\ w \in Won' \ Won => a = "ok" /\ r.post = call
      BY <1>4
    <2> HIDE DEF w
    <2> QED BY <1>1, <2>2, <2>3, PromisesKept DEF IInv
  <1>7. StatsInOrder'
    <2>1. Len(locations') \in Nat /\ Len(logs') \in Nat
      OBVIOUS
    <2> QED BY <1>1, <1>2, <2>1, StatsKept DEF IInv
  <1> QED BY <1>3, <1>5, <1>6, <1>7 DEF IInv

\* A new row of locations is the last one, and the first from its post.
LEMMA LocationAdded ==
    ASSUME IInv, NEW r \in requests, Location(r)
    PROVE  /\ locations' \in Seq(LocationRow) /\ Grows(locations, locations')
           /\ Len(locations) <= Len(locations')
           /\ RowsByPost'
           /\ r.post = call => \E k \in DOMAIN locations' :
                                  /\ locations'[k].post = r.post
                                  /\ \A l \in 1 .. k : locations'[l].post <= r.post
  <1> DEFINE row == [user_id |-> r.request.body.user_id, place |-> r.request.body.place, post |-> r.post]
             n == Len(locations)
  <1>1. /\ r \in [post : Nat, request : Request, answer : Answers] /\ r.post \in 1 .. posts
        /\ locations \in Seq(LocationRow) /\ posts \in Nat /\ r.request.endpoint = "/location"
        /\ call \in {NoCall, posts}
    BY DEF IInv, TypeOK, RequestsByPost, Location
  <1>2. row \in LocationRow /\ row.post = r.post /\ locations' = Append(locations, row)
    BY <1>1, RequestFields DEF Location, LocationRow
  <1> HIDE DEF row
  <1>3. /\ locations' \in Seq(LocationRow) /\ Grows(locations, locations')
        /\ DOMAIN locations = 1 .. n /\ DOMAIN locations' = 1 .. n + 1
        /\ locations'[n + 1] = row /\ Len(locations') = n + 1 /\ n \in Nat
    BY <1>1, <1>2, AppendGrows
  <1>4. \A k \in 1 .. n : locations'[k] = locations[k] /\ locations[k].post \in 1 .. posts
    BY <1>3 DEF Grows, IInv, RowsByPost
  <1>5. Answer(r, "ok") /\ posts' = posts /\ r.answer = "none"
    BY DEF Location, Answer
  <1>6. \A k \in 1 .. n : locations[k].post # r.post
    BY <1>3, <1>5 DEF IInv, RowsByPost
  <1>7. \A q \in requests' : q \in requests \ {r} \/ (q.post = r.post /\ q.answer = "ok")
    BY <1>5, AnswerFields DEF IInv
  <1>8. \A q \in requests \ {r} : q.post # r.post
    BY DEF IInv, RequestsByPost
  <1>9. ASSUME NEW k \in 1 .. n + 1
        PROVE  /\ locations'[k].post \in 1 .. posts'
               /\ \A l \in 1 .. n + 1 : locations'[k].post = locations'[l].post => k = l
               /\ \A q \in requests' : q.post = locations'[k].post => q.answer = "ok"
    <2>1. CASE k = n + 1
      BY <1>1, <1>2, <1>3, <1>4, <1>5, <1>6, <1>7, <1>8, <2>1
    <2>2. CASE k \in 1 .. n
      <3>1. locations'[k].post \in 1 .. posts'
        BY <1>4, <1>5, <2>2
      <3>2. \A l \in 1 .. n : locations[k].post = locations[l].post => k = l
        BY <1>3, <2>2 DEF IInv, RowsByPost
      <3>3. \A q \in requests : q.post = locations[k].post => q.answer = "ok"
        BY <1>3, <2>2 DEF IInv, RowsByPost
      <3>4. locations'[k] = locations[k] /\ locations'[k].post # r.post
        BY <1>4, <1>6, <2>2
      <3>5. \A l \in 1 .. n + 1 : locations'[k].post = locations'[l].post => k = l
        <4>1. \A l \in 1 .. n : locations'[l] = locations[l]
          BY <1>4
        <4>2. locations'[n + 1].post = r.post
          BY <1>2, <1>3
        <4>3. \A l \in 1 .. n + 1 : l \in 1 .. n \/ l = n + 1
          BY <1>3
        <4> QED BY <3>2, <3>4, <4>1, <4>2, <4>3
      <3> QED BY <1>7, <3>1, <3>3, <3>4, <3>5
    <2> QED BY <1>3, <2>1, <2>2
  <1>10. RowsByPost'
    BY <1>3, <1>9 DEF RowsByPost
  <1>11. ASSUME r.post = call
         PROVE  \A l \in 1 .. n + 1 : locations'[l].post <= r.post
    <2>1. r.post = posts
      BY <1>1, <1>11, PostsAssumption
    <2> QED BY <1>1, <1>2, <1>3, <1>4, <2>1
  <1> QED BY <1>2, <1>3, <1>10, <1>11

LEMMA HandleKeeps == ASSUME IInv, NEW r \in requests, Handle(r) PROVE IInv'
  <1>1. /\ TypeOK /\ r \in [post : Nat, request : Request, answer : Answers]
        /\ Grows(users, users) /\ Grows(locations, locations)
        /\ users \in Seq(Account) /\ locations \in Seq(LocationRow) /\ logs \in Seq(Levels)
        /\ Len(locations) \in Nat /\ Len(logs) \in Nat
    BY DEF IInv, TypeOK, Grows
  <1>2. ASSUME NEW a \in {"ok", "refused"}, Answer(r, a), UNCHANGED locations PROVE RowsByPost'
    <2>1. \A q \in requests' : \E p \in requests : p.post = q.post /\ (p.answer = "ok" => q.answer = "ok")
      BY <1>1, <1>2, AnswerFields
    <2>2. posts \in Nat /\ posts' = posts
      BY <1>1, <1>2 DEF TypeOK, Answer
    <2> QED BY <1>2, <2>1, <2>2, RowsKept DEF IInv
  <1>3. CASE Auth(r)
    <2>1. PICK a \in {"ok", "refused"} :
            /\ Answer(r, a) /\ UNCHANGED <<users, locations, logs>>
            /\ a = "ok" => \E k \in DOMAIN users : users[k] = Row(r.request.body)
      BY <1>3 DEF Auth
    <2>2. r.request.endpoint = "/auth"
      BY <1>3 DEF Auth
    <2>3. RowsByPost'
      BY <1>2, <2>1
    <2> QED BY <1>1, <2>1, <2>2, <2>3, AnswerKeeps
  <1>4. CASE Register(r)
    <2>1. r.request.endpoint = "/register" /\ UNCHANGED <<locations, logs>> /\ r.request.body \in Credentials
      BY <1>1, <1>4, RequestFields DEF Register
    <2>2. CASE Taken(users, r.request.body.username)
      <3>1. Answer(r, "refused") /\ UNCHANGED users
        BY <1>4, <2>2 DEF Register
      <3>2. RowsByPost'
        BY <1>2, <2>1, <3>1
      <3> QED BY <1>1, <2>1, <3>1, <3>2, AnswerKeeps
    <2>3. CASE ~Taken(users, r.request.body.username)
      <3>1. Answer(r, "ok") /\ users' = Append(users, Row(r.request.body))
        BY <1>4, <2>3 DEF Register
      <3>2. RowsByPost'
        BY <1>2, <2>1, <3>1
      <3>3. /\ users' \in Seq(Account) /\ Grows(users, users')
            /\ \E k \in DOMAIN users' : users'[k] = Row(r.request.body)
        <4>1. Row(r.request.body) \in Account
          BY <2>1, RowType
        <4>2. Len(users) + 1 \in 1 .. Len(users) + 1
          BY <1>1
        <4> QED BY <1>1, <3>1, <4>1, <4>2, AppendGrows
      <3>4. /\ locations' \in Seq(LocationRow) /\ Grows(locations, locations') /\ logs' \in Seq(Levels)
            /\ Len(locations) <= Len(locations') /\ Len(logs) <= Len(logs')
        BY <1>1, <2>1
      <3>5. r.request.endpoint # "/location"
        BY <2>1
      <3> QED BY <2>3, <3>1, <3>2, <3>3, <3>4, <3>5, AnswerKeeps
    <2> QED BY <2>2, <2>3
  <1>5. CASE Location(r)
    <2>1. r.request.endpoint = "/location" /\ Answer(r, "ok") /\ UNCHANGED <<users, logs>>
      BY <1>5 DEF Location
    <2> QED BY <1>1, <1>5, <2>1, LocationAdded, AnswerKeeps
  <1>6. CASE Log(r)
    <2>1. /\ r.request.endpoint = "/log" /\ Answer(r, "ok") /\ UNCHANGED <<users, locations>>
          /\ logs' \in {logs, Append(logs, r.request.body.level)}
      BY <1>6 DEF Log
    <2>2. logs' \in Seq(Levels) /\ Len(logs) <= Len(logs')
      <3>1. r.request.body.level \in Levels
        BY <1>1, <2>1, RequestFields
      <3>2. Append(logs, r.request.body.level) \in Seq(Levels) /\ Len(Append(logs, r.request.body.level)) = Len(logs) + 1
        BY <1>1, <3>1, AppendGrows
      <3> QED BY <1>1, <2>1, <3>2, SMTT(30)
    <2>3. RowsByPost'
      BY <1>2, <2>1
    <2> QED BY <1>1, <2>1, <2>2, <2>3, AnswerKeeps
  <1>7. CASE Refuse(r)
    <2>1. Answer(r, "refused") /\ UNCHANGED <<users, locations, logs>>
      BY <1>7 DEF Refuse
    <2>2. RowsByPost'
      BY <1>2, <2>1
    <2> QED BY <1>1, <2>1, <2>2, AnswerKeeps
  <1> QED BY <1>3, <1>4, <1>5, <1>6, <1>7 DEF Handle
-----------------------------------------------------------------------------
(* /stats and http_post_json.                                              *)

\* A column is read after those before it.
LEMMA StatsKeep == ASSUME IInv, StatsNext PROVE IInv'
  <1>1. UNCHANGED <<service, users, locations, logs, requests, call, posts, confirmed>>
    BY DEF StatsNext, StatsQuery, StatsDone
  <1>2. /\ RequestsByPost' /\ ConfirmedOnce' /\ NamesWonOnce' /\ WonTookEffect' /\ RowsByPost'
    BY <1>1 DEF IInv, RequestsByPost, ConfirmedOnce, NamesWonOnce, WonTookEffect, Won, RowsByPost
  <1>3. /\ Len(users) \in Nat /\ Len(locations) \in Nat /\ Len(logs) \in Nat
        /\ \A column \in DOMAIN stats : stats[column] \in Nat
        /\ TypeOK /\ StatsInOrder
    BY DEF IInv, TypeOK
  <1>4. CASE StatsQuery
    <2>1. PICK k \in DOMAIN Columns :
            /\ DOMAIN stats = {Columns[n] : n \in 1 .. k - 1}
            /\ stats' = [column \in DOMAIN stats \union {Columns[k]} |->
                           IF column = Columns[k] THEN Value[column] ELSE stats[column]]
      BY <1>4 DEF StatsQuery
    <2>2. /\ DOMAIN stats' = DOMAIN stats \union {Columns[k]}
          /\ \A c \in DOMAIN stats : c # Columns[k] => stats'[c] = stats[c]
          /\ stats'[Columns[k]] = Value[Columns[k]]
      BY <2>1
    <2>3. /\ DOMAIN Columns = 1 .. 5
          /\ Columns[1] = "users" /\ Columns[2] = "locations" /\ Columns[3] = "logs"
          /\ Columns[4] = "last_location" /\ Columns[5] = "last_log"
      BY DEF Columns
    <2>4. /\ Columns[k] \notin DOMAIN stats
          /\ Columns[k] = "last_location" => "locations" \in DOMAIN stats
          /\ Columns[k] = "last_log" => "logs" \in DOMAIN stats
      BY <2>1, <2>3
    <2>5. /\ Value["users"] = Len(users) /\ Value["locations"] = Len(locations)
          /\ Value["logs"] = Len(logs) /\ Value["last_location"] = Len(locations)
          /\ Value["last_log"] = Len(logs)
      BY DEF Value
    <2>6. Value[Columns[k]] \in Nat
      BY <1>3, <2>3, <2>5
    <2>7. TypeOK'
      BY <1>1, <1>3, <2>2, <2>4, <2>6 DEF TypeOK
    <2>8. StatsInOrder'
      BY <1>1, <1>3, <2>2, <2>4, <2>5 DEF StatsInOrder
    <2> QED BY <1>2, <2>7, <2>8 DEF IInv
  <1>5. CASE StatsDone
    <2>1. stats' = <<>> /\ DOMAIN <<>> = {}
      BY <1>5 DEF StatsDone
    <2>2. TypeOK' /\ StatsInOrder'
      BY <1>1, <1>3, <2>1 DEF TypeOK, StatsInOrder
    <2> QED BY <1>2, <2>2 DEF IInv
  <1> QED BY <1>4, <1>5 DEF StatsNext

\* A new post has a number of its own.
LEMMA PostKeeps == ASSUME IInv, NEW q \in Request, Post(q) PROVE IInv'
  <1> DEFINE new == [post |-> posts + 1, request |-> q, answer |-> "none"]
  <1>1. /\ UNCHANGED <<service, users, locations, logs, stats, confirmed>>
        /\ call = NoCall /\ posts' = posts + 1 /\ call' = posts + 1
        /\ requests' = requests \union {r \in {new} : service = "up"}
    BY DEF Post
  <1>2. /\ TypeOK /\ posts \in Nat /\ NoCall \notin Nat
    BY PostsAssumption DEF IInv, TypeOK
  <1>3. /\ new.post = posts + 1 /\ new.request = q /\ new.answer = "none"
        /\ new \in [post : Nat, request : Request, answer : Answers]
    BY <1>2 DEF Answers
  <1> HIDE DEF new
  <1>4. \A r \in requests : r.post \in 1 .. posts /\ r.answer = "none"
    BY <1>1, <1>2 DEF IInv, RequestsByPost
  <1>5. \A r \in requests' : r \in requests \/ (r = new /\ service = "up")
    BY <1>1
  <1>6. TypeOK'
    BY <1>1, <1>2, <1>3, <1>5 DEF TypeOK
  <1>7. RequestsByPost'
    <2>1. \A r \in requests' : r.post \in 1 .. posts' /\ r.answer = "none"
      BY <1>1, <1>2, <1>3, <1>4, <1>5
    <2>2. \A r, p \in requests' : r.post = p.post => r = p
      BY <1>2, <1>3, <1>4, <1>5 DEF IInv, RequestsByPost
    <2>3. requests' # {} => service' = "up"
      BY <1>1, <1>5 DEF IInv, RequestsByPost
    <2> QED BY <1>1, <2>1, <2>2, <2>3 DEF RequestsByPost
  <1>8. ConfirmedOnce'
    <2>1. \A a \in confirmed : a.post \in 1 .. posts /\ a.post # posts + 1 /\ a.post \in 1 .. posts'
      BY <1>1, <1>2 DEF IInv, ConfirmedOnce
    <2> QED BY <1>1, <1>3, <1>5, <2>1 DEF IInv, ConfirmedOnce
  <1>9. WonTookEffect' /\ NamesWonOnce'
    <2>1. \A a \in Won' : a \in Won
      BY <1>1, <1>3, <1>5 DEF Won
    <2>2. /\ Grows(users, users') /\ Grows(locations, locations')
      BY <1>1 DEF Grows
    <2> QED BY <1>2, <2>1, <2>2, PromisesStay DEF IInv
  <1>10. RowsByPost'
    BY <1>1, <1>2, <1>3, <1>5, RowsKept DEF IInv
  <1>11. StatsInOrder'
    BY <1>1 DEF IInv, StatsInOrder
  <1> QED BY <1>6, <1>7, <1>8, <1>9, <1>10, <1>11 DEF IInv

\* A call ends: with the answer, which leaves the request, or without.
LEMMA ReturnKeeps == ASSUME IInv, NEW result, Return(result) PROVE IInv'
  <1>1. /\ TypeOK /\ posts \in Nat /\ NoCall \notin Nat
    BY PostsAssumption DEF IInv, TypeOK
  <1>2. /\ UNCHANGED <<service, users, locations, logs, stats, posts>> /\ call' = NoCall
        /\ requests' \subseteq requests
    BY DEF Return, Answered, Failed
  <1>3. /\ \A r \in requests' : r.answer = "none"
        /\ \/ confirmed' = confirmed
           \/ \E r \in requests : /\ r.post = call /\ r.answer = "ok" /\ r \notin requests'
                                  /\ confirmed' = confirmed \union {[post |-> r.post, request |-> r.request]}
    <2>1. CASE Answered(result)
      <3>1. PICK r \in requests :
              /\ r.post = call /\ r.answer = result /\ result \in {"ok", "refused"}
              /\ requests' = requests \ {r}
              /\ confirmed' = confirmed \union
                              {t \in {[post |-> r.post, request |-> r.request]} : result = "ok"}
        BY <2>1 DEF Answered
      <3>2. \A q \in requests' : q.answer = "none"
        BY <3>1 DEF IInv, RequestsByPost
      <3>3. CASE result = "ok"
        BY <3>1, <3>2, <3>3
      <3>4. CASE result # "ok"
        <4>1. confirmed' = confirmed
          BY <3>1, <3>4
        <4> QED BY <3>2, <4>1
      <3> QED BY <3>3, <3>4
    <2>2. CASE Failed(result)
      BY <2>2 DEF Failed
    <2> QED BY <2>1, <2>2 DEF Return
  <1>4. \A a \in confirmed' :
          \/ a \in confirmed
          \/ /\ a \in Won /\ a.post = call /\ a.post \in 1 .. posts
             /\ a \in [post : Nat, request : Request]
             /\ \A r \in requests' : r.post # a.post
    BY <1>1, <1>2, <1>3 DEF Won, IInv, TypeOK, RequestsByPost
  <1>5. TypeOK'
    BY <1>1, <1>2, <1>4 DEF TypeOK
  <1>6. RequestsByPost'
    BY <1>2, <1>3 DEF IInv, RequestsByPost
  <1>7. ConfirmedOnce'
    <2>1. \A a, b \in confirmed' : a.post = b.post => a = b
      BY <1>3, <1>4 DEF IInv, ConfirmedOnce
    <2> QED BY <1>1, <1>2, <1>4, <2>1 DEF IInv, ConfirmedOnce
  <1>8. WonTookEffect' /\ NamesWonOnce'
    <2>1. \A a \in Won' : a \in Won
      BY <1>3, <1>4 DEF Won
    <2>2. /\ Grows(users, users') /\ Grows(locations, locations')
      BY <1>2 DEF Grows
    <2> QED BY <1>1, <2>1, <2>2, PromisesStay DEF IInv
  <1>9. RowsByPost'
    BY <1>2 DEF IInv, RowsByPost
  <1>10. StatsInOrder'
    BY <1>2 DEF IInv, StatsInOrder
  <1> QED BY <1>5, <1>6, <1>7, <1>8, <1>9, <1>10 DEF IInv
-----------------------------------------------------------------------------
\* No step deletes or changes a row, and a location is added by its handler.
LEMMA RowsStay ==
    ASSUME TypeOK, [Next]_dbVars
    PROVE  /\ Grows(users, users') /\ Grows(locations, locations')
           /\ locations' = locations \/ \E r \in requests : Location(r)
  <1>1. /\ users \in Seq(Account) /\ locations \in Seq(LocationRow)
        /\ Grows(users, users) /\ Grows(locations, locations)
    BY DEF TypeOK, Grows
  <1>2. CASE ServiceStart
    <2>1. users' \in init_db(users) /\ locations' = locations
      BY <1>2 DEF ServiceStart
    <2> QED BY <1>1, <2>1, StartGrows
  <1>3. ASSUME NEW r \in requests, Handle(r)
        PROVE  /\ Grows(users, users') /\ Grows(locations, locations')
               /\ locations' = locations \/ Location(r)
    <2>1. r.request \in Request
      BY DEF TypeOK
    <2>2. CASE Register(r)
      <3>1. r.request.body \in Credentials /\ UNCHANGED locations
        BY <2>1, <2>2, RequestFields DEF Register
      <3>2. users' = users \/ users' = Append(users, Row(r.request.body))
        BY <2>2 DEF Register
      <3>3. Row(r.request.body) \in Account
        BY <3>1, RowType, Zenon
      <3>4. Grows(users, Append(users, Row(r.request.body)))
        BY <1>1, <3>3, AppendGrows, Zenon
      <3> QED BY <1>1, <3>1, <3>2, <3>4
    <2>3. CASE Location(r)
      <3> DEFINE row == [user_id |-> r.request.body.user_id, place |-> r.request.body.place,
                         post |-> r.post]
      <3>1. row \in LocationRow
        BY <2>1, <2>3, RequestFields DEF Location, LocationRow, TypeOK
      <3>2. locations' = Append(locations, row) /\ UNCHANGED users
        BY <2>3 DEF Location
      <3> HIDE DEF row
      <3> QED BY <1>1, <2>3, <3>1, <3>2, AppendGrows
    <2>4. CASE Auth(r) \/ Log(r) \/ Refuse(r)
      BY <1>1, <2>4 DEF Auth, Log, Refuse
    <2> QED BY <1>3, <2>2, <2>3, <2>4 DEF Handle
  <1>4. CASE UNCHANGED <<users, locations>>
    BY <1>1, <1>4
  <1>5. CASE ServiceStop \/ StatsNext \/ UNCHANGED dbVars
    BY <1>4, <1>5 DEF ServiceStop, StatsNext, StatsQuery, StatsDone, dbVars
  <1>6. CASE \E q \in Request : Post(q)
    BY <1>4, <1>6 DEF Post
  <1>7. CASE \E result \in Results : Return(result)
    BY <1>4, <1>7 DEF Return, Answered, Failed
  <1> QED BY <1>2, <1>3, <1>5, <1>6, <1>7 DEF Next, ServiceNext

-----------------------------------------------------------------------------
(* The invariant and the properties.                                       *)

LEMMA IInvInitially == Init => IInv
  <1> SUFFICES ASSUME Init PROVE IInv
    OBVIOUS
  <1>1. DOMAIN <<>> = {} /\ <<>> \in Seq(Account) /\ <<>> \in Seq(LocationRow) /\ <<>> \in Seq(Levels)
    OBVIOUS
  <1>2. Won = {}
    BY DEF Init, Won
  <1>3. TypeOK /\ StatsInOrder
    BY <1>1 DEF Init, TypeOK, StatsInOrder
  <1>4. RequestsByPost /\ ConfirmedOnce /\ WonTookEffect /\ NamesWonOnce /\ RowsByPost
    BY <1>1, <1>2 DEF Init, RequestsByPost, ConfirmedOnce, WonTookEffect, NamesWonOnce, RowsByPost
  <1> QED BY <1>3, <1>4 DEF IInv

LEMMA IInvPreserved == IInv /\ [Next]_dbVars => IInv'
  <1> SUFFICES ASSUME IInv, [Next]_dbVars PROVE IInv'
    OBVIOUS
  <1>1. CASE ServiceNext
    BY <1>1, ProcessKeeps, HandleKeeps DEF ServiceNext
  <1>2. CASE StatsNext
    BY <1>2, StatsKeep
  <1>3. ASSUME NEW q \in Request, Post(q) PROVE IInv'
    BY <1>3, PostKeeps
  <1>4. ASSUME NEW result \in Results, Return(result) PROVE IInv'
    BY <1>4, ReturnKeeps
  <1>5. CASE UNCHANGED dbVars
    BY <1>5 DEF dbVars, IInv, TypeOK, RequestsByPost, ConfirmedOnce, WonTookEffect, Won,
                NamesWonOnce, RowsByPost, StatsInOrder
  <1> QED BY <1>1, <1>2, <1>3, <1>4, <1>5 DEF Next

\* The inductive invariant holds in every state of every behaviour.
THEOREM Invariance == Spec => []IInv
  BY IInvInitially, IInvPreserved, PTL DEF Spec

\* Types: tables, requests and answers are what Flask and SQLite keep.
THEOREM TypeCorrectness == Spec => []TypeOK
  <1>1. IInv => TypeOK
    BY DEF IInv
  <1> QED BY <1>1, Invariance, PTL

\* register: of any number of registrations of a name at most one is confirmed,
\* however late they are handled, and none of a demo account's.
THEOREM NamesHaveOneOwner == Spec => []OneOwner
  <1>1. IInv => OneOwner
    BY DEF IInv, NamesWonOnce, Won, OneOwner
  <1> QED BY <1>1, Invariance, PTL

\* auth and register: credentials that were confirmed belong to an account.
THEOREM ConfirmedHaveAccounts == Spec => []ConfirmedAccounts
  <1>1. IInv => ConfirmedAccounts
    BY DEF IInv, WonTookEffect, Won, ConfirmedAccounts
  <1> QED BY <1>1, Invariance, PTL

\* location: a row for each post at most, and a confirmed one before the rows
\* of all later posts.
THEOREM ConfirmedStoredInOrder == Spec => []ConfirmedInOrder
  <1>1. IInv => ConfirmedInOrder
    BY DEF IInv, RowsByPost, WonTookEffect, Won, ConfirmedInOrder
  <1> QED BY <1>1, Invariance, PTL

\* /stats: the newest row it reports is no older than the last one it counted,
\* whatever is committed between its statements.
THEOREM StatsAreConsistent == Spec => []StatsConsistent
  <1>1. IInv => StatsConsistent
    <2> SUFFICES ASSUME IInv, DOMAIN stats = DOMAIN Value PROVE StatsConsistent
      BY DEF StatsConsistent
    <2>1. "last_location" \in DOMAIN stats /\ "last_log" \in DOMAIN stats
      BY DEF Value
    <2> QED BY <2>1 DEF IInv, StatsInOrder, StatsConsistent
  <1> QED BY <1>1, Invariance, PTL
-----------------------------------------------------------------------------
(* The refinement.                                                         *)

\* The locations as database.c has them: without their posts.
Mapped(table) ==
    [k \in DOMAIN table |-> [user_id |-> table[k].user_id, place |-> table[k].place]]
-----------------------------------------------------------------------------
(* The operators of the two layers agree.                                  *)

\* djb2_hash of database.c and hash_password of service.py are one function.
LEMMA HashesAgree == ASSUME NEW p PROVE Embedded!djb2_hash(p) = hash_password(p)
  BY Zenon DEF Embedded!djb2_hash, hash_password, Embedded!FoldLeft, FoldLeft,
               Embedded!MapThenFoldSet, MapThenFoldSet, Embedded!Max, Max

\* INSERT OR IGNORE is db_add_user.
LEMMA AddsAgree == ASSUME NEW table, NEW c PROVE Embedded!db_add_user(table, c) = Seeded(table, c)
  <1>1. Embedded!djb2_hash(c.password) = hash_password(c.password)
    BY HashesAgree
  <1> QED BY <1>1, Zenon DEF Embedded!db_add_user, Seeded, Taken, Row

LEMMA MaxOf ==
    /\ Embedded!Max({1}) = 1 /\ Embedded!Max({2}) = 2 /\ Embedded!Max({1, 2}) = 2
  BY DEF Embedded!Max

\* What init_db may leave, db_seed_users may: its fold over the two accounts,
\* from the definition of folds by the function that satisfies their equation.
LEMMA SeedsAgree ==
    ASSUME NEW table
    PROVE  init_db(table) \subseteq Embedded!db_seed_users(table)
  <1> DEFINE D == DOMAIN <<Demo1, Demo2>>
             add(tables, c) == tables \union {Embedded!db_add_user(t, c) : t \in tables}
             max(s) == Embedded!Max(s)
             Step(f) == [s \in SUBSET D |->
                 IF s = {} THEN {table}
                 ELSE LET x == max(s)
                      IN  add(f[s \ {x}], <<Demo1, Demo2>>[x])]
             fix == CHOOSE f : f = Step(f)
             one == add({table}, Demo1)
             g == [s \in SUBSET D |-> IF s = {} THEN {table} ELSE IF s = {1} THEN one
                                      ELSE IF s = {2} THEN add({table}, Demo2) ELSE add(one, Demo2)]
  <1>1. Embedded!db_seed_users(table) = fix[D]
    BY Zenon DEF Embedded!db_seed_users, Embedded!FoldLeft, Embedded!MapThenFoldSet
  <1>2. D = {1, 2} /\ <<Demo1, Demo2>>[1] = Demo1 /\ <<Demo1, Demo2>>[2] = Demo2
    OBVIOUS
  <1>0. max({1}) = 1 /\ max({2}) = 2 /\ max({1, 2}) = 2
    BY MaxOf
  <1>10. {1} \ {1} = {} /\ {2} \ {2} = {} /\ {1, 2} \ {2} = {1}
    OBVIOUS
  <1> HIDE DEF add, max
  <1>3. g = Step(g)
    <2>1. \A s \in SUBSET D : s \in {{}, {1}, {2}, {1, 2}}
      BY <1>2
    <2> SUFFICES ASSUME NEW s \in SUBSET D PROVE g[s] = Step(g)[s]
      BY Zenon
    <2>2. CASE s = {}
      BY <2>2
    <2>3. CASE s = {1}
      <3>1. g[{1}] = one /\ g[{}] = {table}
        BY <1>2
      <3>2. Step(g)[{1}] = add(g[{1} \ {max({1})}], <<Demo1, Demo2>>[max({1})])
        BY <1>2
      <3> QED BY <1>0, <1>2, <1>10, <2>3, <3>1, <3>2
    <2>4. CASE s = {2}
      <3>1. g[{2}] = add({table}, Demo2) /\ g[{}] = {table}
        BY <1>2
      <3>2. Step(g)[{2}] = add(g[{2} \ {max({2})}], <<Demo1, Demo2>>[max({2})])
        BY <1>2
      <3> QED BY <1>0, <1>2, <1>10, <2>4, <3>1, <3>2
    <2>5. CASE s = {1, 2}
      <3>1. g[{1, 2}] = add(one, Demo2) /\ g[{1}] = one
        BY <1>2
      <3>2. Step(g)[{1, 2}] = add(g[{1, 2} \ {max({1, 2})}], <<Demo1, Demo2>>[max({1, 2})])
        BY <1>2
      <3> QED BY <1>0, <1>2, <1>10, <2>5, <3>1, <3>2
    <2> QED BY <2>1, <2>2, <2>3, <2>4, <2>5
  <1>4. fix = Step(fix)
    BY <1>3, Zenon
  <1> HIDE DEF fix
  <1>5. /\ fix[{}] = {table}
        /\ fix[{1}] = add(fix[{}], Demo1)
        /\ fix[{1, 2}] = add(fix[{1}], Demo2)
    <2>1. ASSUME NEW s \in SUBSET D
          PROVE  fix[s] = IF s = {} THEN {table}
                          ELSE add(fix[s \ {max(s)}], <<Demo1, Demo2>>[max(s)])
      <3> DEFINE h == Step(fix)
      <3>1. h[s] = IF s = {} THEN {table}
                   ELSE add(fix[s \ {max(s)}], <<Demo1, Demo2>>[max(s)])
        OBVIOUS
      <3> HIDE DEF h
      <3>2. fix = h
        BY <1>4 DEF h
      <3> QED BY <3>1, <3>2
    <2>3. {} \in SUBSET D /\ {1} \in SUBSET D /\ {1, 2} \in SUBSET D
      BY <1>2
    <2> HIDE DEF D, Step, g
    <2>4. fix[{}] = {table}
      BY <2>1, <2>3
    <2>5. fix[{1}] = add(fix[{1} \ {max({1})}], <<Demo1, Demo2>>[max({1})])
      BY <2>1, <2>3
    <2>6. fix[{1, 2}] = add(fix[{1, 2} \ {max({1, 2})}], <<Demo1, Demo2>>[max({1, 2})])
      BY <2>1, <2>3
    <2> QED BY <1>0, <1>2, <1>10, <2>4, <2>5, <2>6
  <1>6. Embedded!db_seed_users(table) = add(add({table}, Demo1), Demo2)
    BY <1>1, <1>2, <1>5
  <1>7. \A tables, c : \A t \in tables : t \in add(tables, c) /\ Seeded(t, c) \in add(tables, c)
    BY AddsAgree DEF add
  <1>8. table \in {table}
    OBVIOUS
  <1>9. Seeded(table, Demo1) \in add({table}, Demo1) /\ table \in add({table}, Demo1)
    BY <1>7, <1>8
  <1> QED BY <1>6, <1>7, <1>9 DEF init_db

\* A sequence is a function, and a longer one has its last element added.
LEMMA AppendIs ==
    ASSUME NEW S, NEW s \in Seq(S), NEW e \in S
    PROVE  Append(s, e) = [k \in 1 .. Len(s) + 1 |-> IF k = Len(s) + 1 THEN e ELSE s[k]]
  <1> DEFINE t == Append(s, e)
  <1>1. t \in Seq(S) /\ Len(t) = Len(s) + 1 /\ Len(s) \in Nat
    OBVIOUS
  <1>2. t[Len(s) + 1] = e /\ \A k \in 1 .. Len(s) : t[k] = s[k]
    OBVIOUS
  <1> HIDE DEF t
  <1>3. t = [k \in 1 .. Len(t) |-> t[k]]
    BY <1>1
  <1>4. \A k \in 1 .. Len(t) : t[k] = IF k = Len(s) + 1 THEN e ELSE s[k]
    BY <1>1, <1>2
  <1>5. t = [k \in 1 .. Len(s) + 1 |-> IF k = Len(s) + 1 THEN e ELSE s[k]]
    BY <1>1, <1>3, <1>4
  <1> QED BY <1>5 DEF t

\* A row that is added is added without its post.
LEMMA AppendMapped ==
    ASSUME NEW table \in Seq(LocationRow), NEW row \in LocationRow
    PROVE  Mapped(Append(table, row)) =
             Append(Mapped(table), [user_id |-> row.user_id, place |-> row.place])
  <1> DEFINE S == [user_id : Users, place : Places]
             cut(r) == [user_id |-> r.user_id, place |-> r.place]
             n == Len(table)
             old == Mapped(table)
             t == Append(table, row)
  <1>1. /\ DOMAIN table = 1 .. n /\ n \in Nat
        /\ \A k \in 1 .. n : table[k] \in LocationRow
    OBVIOUS
  <1>2. cut(row) \in S /\ \A k \in 1 .. n : cut(table[k]) \in S
    BY <1>1 DEF LocationRow
  <1>3. t = [k \in 1 .. n + 1 |-> IF k = n + 1 THEN row ELSE table[k]]
    BY AppendIs
  <1>4. old = [k \in 1 .. n |-> cut(table[k])]
    BY <1>1 DEF Mapped
  <1> HIDE DEF S, cut, n, old, t
  <1>5. old \in [1 .. n -> S]
    BY <1>2, <1>4
  <1>6. old \in Seq(S) /\ Len(old) = n
    BY <1>1, <1>5
  <1>7. Append(old, cut(row)) = [k \in 1 .. n + 1 |-> IF k = n + 1 THEN cut(row) ELSE old[k]]
    BY <1>2, <1>6, AppendIs
  <1>8. Mapped(t) = [k \in 1 .. n + 1 |-> cut(t[k])]
    BY <1>3 DEF Mapped, cut
  <1>9. \A k \in 1 .. n + 1 : cut(t[k]) = IF k = n + 1 THEN cut(row) ELSE old[k]
    BY <1>1, <1>3, <1>4
  <1>10. Mapped(t) = Append(old, cut(row))
    BY <1>7, <1>8, <1>9
  <1> QED BY <1>10 DEF t, old, cut
-----------------------------------------------------------------------------
(* Each step of the service is one of the layer, or changes nothing of it. *)

\* db_open without a file, and a service that was never started.
LEMMA InitImplements == Init => Embedded!Init
  BY DEF Init, Embedded!Init

\* Opening and closing the handle is starting and ending the process.
LEMMA ProcessImplements ==
    ASSUME ServiceStart \/ ServiceStop
    PROVE  Embedded!Open \/ Embedded!Close
  <1>1. CASE ServiceStart
    <2>1. users' \in Embedded!db_seed_users(users)
      BY <1>1, SeedsAgree DEF ServiceStart
    <2> QED BY <1>1, <2>1 DEF ServiceStart, Embedded!Open
  <1>2. CASE ServiceStop
    BY <1>2 DEF ServiceStop, Embedded!Close
  <1> QED BY <1>1, <1>2

\* Handling a request is one call of the layer, or none.
LEMMA HandleImplements ==
    ASSUME IInv, NEW r \in requests, Handle(r)
    PROVE  [Embedded!Next]_(Embedded!vars)
  <1>1. /\ r \in [post : Nat, request : Request, answer : Answers] /\ service = "up"
        /\ locations \in Seq(LocationRow)
    BY DEF IInv, TypeOK, RequestsByPost
  <1>2. UNCHANGED service
    BY DEF Handle, Auth, Register, Location, Log, Refuse, Answer
  <1>3. CASE Register(r)
    <2>1. r.request.body \in Credentials /\ UNCHANGED <<locations, logs>>
      BY <1>1, <1>3, RequestFields DEF Register
    <2>2. users' = Seeded(users, r.request.body)
      BY <1>3 DEF Register, Seeded
    <2>3. users' = Embedded!db_add_user(users, r.request.body)
      BY <2>2, AddsAgree
    <2>4. Embedded!AddUser(r.request.body)
      BY <1>1, <1>2, <2>1, <2>3 DEF Embedded!AddUser
    <2> QED BY <2>1, <2>4 DEF Embedded!Next, Credentials
  <1>4. CASE Location(r)
    <2> DEFINE row == [user_id |-> r.request.body.user_id, place |-> r.request.body.place,
                       post |-> r.post]
    <2>1. /\ row \in LocationRow /\ row.user_id = r.request.body.user_id
          /\ row.place = r.request.body.place
          /\ r.request.body.user_id \in Users /\ r.request.body.place \in Places
      BY <1>1, <1>4, RequestFields DEF Location, LocationRow
    <2>2. locations' = Append(locations, row) /\ UNCHANGED <<users, logs>>
      BY <1>4 DEF Location
    <2> HIDE DEF row
    <2>3. Mapped(locations') = Append(Mapped(locations), [user_id |-> r.request.body.user_id,
                                                         place |-> r.request.body.place])
      BY <1>1, <2>1, <2>2, AppendMapped
    <2>4. Embedded!AddLocation(r.request.body.user_id, r.request.body.place)
      BY <1>1, <1>2, <2>2, <2>3, Zenon DEF Embedded!AddLocation, Mapped
    <2> QED BY <2>1, <2>4 DEF Embedded!Next
  <1>5. CASE Log(r)
    <2>1. r.request.body.level \in Levels /\ UNCHANGED <<users, locations>>
      BY <1>1, <1>5, RequestFields DEF Log
    <2>2. CASE logs' = Append(logs, r.request.body.level)
      <3>1. Embedded!AddLog(r.request.body.level)
        BY <1>1, <1>2, <2>1, <2>2 DEF Embedded!AddLog
      <3> QED BY <2>1, <3>1 DEF Embedded!Next
    <2>3. CASE UNCHANGED logs
      BY <1>2, <2>1, <2>3 DEF Embedded!vars
    <2> QED BY <1>5, <2>2, <2>3 DEF Log
  <1>6. CASE Auth(r) \/ Refuse(r)
    BY <1>2, <1>6 DEF Auth, Refuse, Embedded!vars
  <1> QED BY <1>3, <1>4, <1>5, <1>6 DEF Handle

LEMMA NextImplements == IInv /\ [Next]_dbVars => [Embedded!Next]_(Embedded!vars)
  <1> SUFFICES ASSUME IInv, [Next]_dbVars PROVE [Embedded!Next]_(Embedded!vars)
    OBVIOUS
  <1>1. CASE ServiceStart \/ ServiceStop
    BY <1>1, ProcessImplements DEF Embedded!Next
  <1>2. CASE \E r \in requests : Handle(r)
    BY <1>2, HandleImplements
  <1>3. CASE UNCHANGED <<service, users, locations, logs>>
    BY <1>3 DEF Embedded!vars
  <1>4. CASE StatsNext
    BY <1>3, <1>4 DEF StatsNext, StatsQuery, StatsDone
  <1>5. CASE \E q \in Request : Post(q)
    BY <1>3, <1>5 DEF Post
  <1>6. CASE \E result \in Results : Return(result)
    BY <1>3, <1>6 DEF Return, Answered, Failed
  <1>7. CASE UNCHANGED dbVars
    BY <1>3, <1>7 DEF dbVars
  <1> QED BY <1>1, <1>2, <1>4, <1>5, <1>6, <1>7 DEF Next, ServiceNext

\* Whatever the service handles late, twice at once or across a restart, its
\* tables change as by calls of database.c, with the same hashes, and its rows
\* survive.
THEOREM ServiceImplementsDatabase == Spec => Implemented
  BY InitImplements, NextImplements, Invariance, PTL DEF Spec, Implemented, Embedded!Spec
=============================================================================
