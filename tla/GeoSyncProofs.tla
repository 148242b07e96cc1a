--------------------------- MODULE GeoSyncProofs ---------------------------
(***************************************************************************)
(* Theorems about GeoSync: the composition implements the server and the   *)
(* service it is made of, so that what is proved of each of them holds     *)
(* here too; and what the slots, the tables and the maps say agrees, for   *)
(* any number of clients, slots, accounts and posts.                       *)
(***************************************************************************)
EXTENDS GeoSync, LocationServerProofs

\* The service with what is proved of it.
Service == INSTANCE DatabaseServiceProofs

\* The server waits for the post that it made last, and what is in the service
\* under that number is the document of the message it is handling.
PostInProgress ==
    /\ pc = "post" <=> call # NoCall
    /\ call # NoCall => call \in 1 .. posts
    /\ \A r \in requests : r.post = call => r.request \in Documents(i, work)

\* A location that is still on its way into the table is from an account.
RequestsHaveOwners ==
    \A r \in requests :
        r.request.endpoint = "/location" => DB!Taken(users, r.request.body.user_id)

\* The posts of the relays that have begun are over; those that were refused
\* are not in the service any more, and a location that is there was relayed
\* or is about to be.
Ledger ==
    /\ \A x \in relayed : \/ x.post = NoCall /\ x.kind = "bad_location" /\ x.result = "none"
                          \/ x.post \in 1 .. posts /\ x.post # call
    /\ \A x \in relayed : x.result = "refused" => \A r \in requests : r.post # x.post
    /\ \A r \in requests : r.request.endpoint = "/location" =>
                             r.post = call \/ \E x \in relayed : x.post = r.post
    /\ \A k \in DOMAIN locations : locations[k].post = call => work.kind = "location"

GeoInv == /\ IInv /\ Service!IInv
          /\ PostInProgress /\ RequestsHaveOwners /\ Ledger
          /\ LoggedInUsersExist /\ LocationsHaveOwners /\ MapAndTableAgree
-----------------------------------------------------------------------------
(* The composition implements the server.                                  *)

LEMMA InitIsServers == GeoInit => Init
  BY DEF GeoInit

LEMMA StepIsServers == [GeoNext]_geoVars => [Next]_vars
  <1> SUFFICES ASSUME [GeoNext]_geoVars PROVE [Next]_vars
    OBVIOUS
  <1>1. CASE ServerStep \/ LeavePost
    BY <1>1 DEF ServerStep, LeavePost, Next, BackendNext
  <1>2. ASSUME NEW s \in Slots, EnterPost(s) PROVE Next
    BY <1>2 DEF EnterPost, Next, ServerNext
  <1>3. CASE UNCHANGED vars \/ Interrupt \/ Restart \/ \E c \in Conns : ClientStep(c)
    BY <1>3 DEF ClientStep, Next
  <1> QED BY <1>1, <1>2, <1>3 DEF GeoNext, geoVars

\* Whatever the service does, the server, its clients and the network behave
\* as LocationServer says.
THEOREM CompositionImplementsServer == GeoSpec => Spec
  BY InitIsServers, StepIsServers, PTL DEF GeoSpec, Spec

\* What is proved of the server holds in the composition.
THEOREM ServerInvariance == GeoSpec => []IInv
  BY CompositionImplementsServer, Invariance, PTL
-----------------------------------------------------------------------------
(* The composition implements the service.                                 *)

LEMMA ServiceAssumptions ==
    Service!PasswordsAssumption /\ Service!DemoAssumption /\ Service!PostsAssumption
  BY PasswordsAssumption, DemoAssumption, PostsAssumption
     DEF Service!PasswordsAssumption, Service!DemoAssumption, Service!PostsAssumption,
         Service!Credentials

\* The two instances of the service are one: its operators,
LEMMA SameRows ==
    /\ \A c : DB!Row(c) = Service!Row(c)
    /\ \A t, n : DB!Taken(t, n) = Service!Taken(t, n)
    /\ \A t : DB!init_db(t) = Service!init_db(t)
  <1>1. ASSUME NEW p PROVE DB!hash_password(p) = Service!hash_password(p)
    BY Zenon DEF DB!hash_password, Service!hash_password, DB!FoldLeft, Service!FoldLeft,
                 DB!MapThenFoldSet, Service!MapThenFoldSet, DB!Max, Service!Max
  <1>2. \A c : DB!Row(c) = Service!Row(c)
    BY <1>1 DEF DB!Row, Service!Row
  <1>3. \A t, n : DB!Taken(t, n) = Service!Taken(t, n)
    BY DEF DB!Taken, Service!Taken
  <1>4. ASSUME NEW t, NEW c PROVE DB!Seeded(t, c) = Service!Seeded(t, c)
    BY <1>2 DEF DB!Seeded, Service!Seeded, DB!Taken, Service!Taken
  <1>5. \A t : DB!init_db(t) = Service!init_db(t)
    BY <1>4, Zenon DEF DB!init_db, Service!init_db
  <1> QED BY <1>2, <1>3, <1>5

\* the actions of its process,
LEMMA SameService == DB!ServiceNext => Service!ServiceNext
  <1>1. DB!ServiceStart => Service!ServiceStart
    BY SameRows DEF DB!ServiceStart, Service!ServiceStart
  <1>2. DB!ServiceStop => Service!ServiceStop
    BY DEF DB!ServiceStop, Service!ServiceStop
  <1>3. ASSUME NEW r, DB!Auth(r) PROVE Service!Auth(r)
    BY <1>3, SameRows DEF DB!Auth, Service!Auth, DB!Answer, Service!Answer
  <1>4. ASSUME NEW r, DB!Register(r) PROVE Service!Register(r)
    BY <1>4, SameRows DEF DB!Register, Service!Register, DB!Answer, Service!Answer
  <1>5. ASSUME NEW r, DB!Location(r) PROVE Service!Location(r)
    BY <1>5 DEF DB!Location, Service!Location, DB!Answer, Service!Answer
  <1>6. ASSUME NEW r, DB!Log(r) PROVE Service!Log(r)
    BY <1>6 DEF DB!Log, Service!Log, DB!Answer, Service!Answer
  <1>7. ASSUME NEW r, DB!Refuse(r) PROVE Service!Refuse(r)
    BY <1>7 DEF DB!Refuse, Service!Refuse, DB!Answer, Service!Answer
  <1>8. ASSUME NEW r, DB!Handle(r) PROVE Service!Handle(r)
    BY <1>3, <1>4, <1>5, <1>6, <1>7, <1>8 DEF DB!Handle, Service!Handle
  <1> QED BY <1>1, <1>2, <1>8 DEF DB!ServiceNext, Service!ServiceNext

\* and the calls of its client.
LEMMA SameCalls ==
    /\ \A q : DB!Post(q) => Service!Post(q)
    /\ \A result : DB!Return(result) => Service!Return(result)
  BY DEF DB!Post, Service!Post, DB!Return, Service!Return, DB!Answered, Service!Answered,
         DB!Failed, Service!Failed

\* What a handler posts is a request, with the fields of its message.
LEMMA DocumentFields ==
    ASSUME NEW s, NEW m, NEW q \in Documents(s, m)
    PROVE  /\ m.kind = "location" => /\ q.endpoint = "/location"
                                     /\ q.body = [user_id |-> slots[s].user, place |-> m.arg]
           /\ m.kind # "location" => /\ q.endpoint \in {"/auth", "/register"}
                                     /\ q.body \in [username : {m.arg}, password : Passwords]
  BY DEF Documents

\* Up to its post a handler has a message of a user, and a slot that is logged
\* in if it is a location.
LEMMA PostedMessage ==
    ASSUME IInv, NEW s \in Slots, EnterPost(s)
    PROVE  /\ pc = "scan" /\ pc' = "post" /\ i' = s /\ UNCHANGED <<slots, relayed>>
           /\ s \in Occupied /\ slots[s].sock \in Conns
           /\ work'.kind \in {"auth", "register"} => work'.arg \in Users
           /\ work'.kind \in {"auth", "register"} \/
                /\ work'.kind = "location" /\ work'.arg \in Places
                /\ slots[s].authenticated /\ slots[s].user \in Users
  <1> DEFINE f == Head(conn[slots[s].sock].inq)
  <1>1. TypeOK /\ SessionIsolation /\ (Credentials(s) \/ Location(s)) /\ pc' = "post"
        /\ UNCHANGED relayed
    BY DEF IInv, EnterPost
  <1>2. conn[slots[s].sock].inq # <<>> /\ s \in Occupied /\ slots[s].sock \in Conns /\ pc = "scan"
        /\ f.kind \in {"auth", "register", "location", "bad_location"}
    <2>1. PICK kinds \in {{"auth", "register"}, {"location"}, {"bad_location"}} : Reading(s, kinds)
      BY <1>1, Zenon DEF Credentials, Location
    <2>2. "end" \notin kinds /\ kinds \subseteq {"auth", "register", "location", "bad_location"}
      OBVIOUS
    <2> QED BY <1>1, <2>1, <2>2, ReadingSocket, Zenon
  <1>3. f \in Arrivals
    BY <1>1, <1>2, TakenType DEF TypeOK
  <1>4. i' = s /\ slots' = slots
    BY <1>1 DEF Credentials, Location, Handle
  <1>5. CASE Credentials(s)
    <2>1. f.kind \in {"auth", "register"}
      BY <1>1, <1>5, ReadingSocket DEF Credentials
    <2>2. work' = f /\ f.arg # Nil
      BY <1>1, <1>5 DEF Credentials, Handle
    <2>3. f.arg \in Users
      BY <1>3, <2>1, <2>2, ArrivalArguments
    <2> QED BY <1>1, <1>2, <1>4, <2>1, <2>2, <2>3
  <1>6. CASE Location(s)
    <2>1. Reading(s, {"location"}) /\ work' = f /\ slots[s].authenticated
      BY <1>1, <1>6 DEF Location, Handle
    <2>2. f.kind = "location"
      BY <1>1, <2>1, ReadingSocket
    <2>3. f.arg \in Places
      BY <1>3, <2>2, ArrivalArguments
    <2>4. slots[s].user \in conn[slots[s].sock].granted
      BY <1>1, <1>2, <2>1 DEF SessionIsolation, Occupied
    <2>5. conn[slots[s].sock].granted \subseteq Users
      BY <1>1, <1>2, ConnectionFields DEF TypeOK
    <2> QED BY <1>1, <1>2, <1>4, <2>1, <2>2, <2>3, <2>4, <2>5
  <1> QED BY <1>1, <1>5, <1>6

LEMMA PostedRequest ==
    ASSUME IInv, NEW s \in Slots, EnterPost(s)
    PROVE  \E q \in Service!Request : Service!Post(q) /\ q \in Documents(s, work')
  <1>1. PICK q \in Documents(s, work') : DB!Post(q)
    BY DEF EnterPost
  <1>2. q \in Service!Request
    <2>1. CASE work'.kind = "location"
      <3>1. slots[s].user \in Users /\ work'.arg \in Places
        BY <2>1, PostedMessage
      <3>2. q = [endpoint |-> "/location", body |-> [user_id |-> slots[s].user, place |-> work'.arg]]
        BY <1>1, <2>1 DEF Documents
      <3> QED BY <3>1, <3>2 DEF Service!Request
    <2>2. CASE work'.kind \in {"auth", "register"}
      <3>1. work'.arg \in Users
        BY <2>2, PostedMessage
      <3>2. q \in [endpoint : {"/auth", "/register"}, body : [username : {work'.arg}, password : Passwords]]
        BY <1>1, <2>2 DEF Documents
      <3> QED BY <3>1, <3>2 DEF Service!Request, Service!Credentials
    <2> QED BY <2>1, <2>2, PostedMessage
  <1> QED BY <1>1, <1>2, SameCalls

LEMMA InitIsServices == GeoInit => Service!Init
  BY DEF GeoInit, DB!Init, Service!Init

LEMMA StepIsServices == IInv /\ [GeoNext]_geoVars => [Service!Next]_(Service!dbVars)
  <1> SUFFICES ASSUME IInv, [GeoNext]_geoVars PROVE [Service!Next]_(Service!dbVars)
    OBVIOUS
  <1>1. ASSUME NEW s \in Slots, EnterPost(s) PROVE Service!Next
    BY <1>1, PostedRequest DEF Service!Next
  <1>2. CASE LeavePost
    BY <1>2, SameCalls DEF LeavePost, Service!Next, Service!Results, Results
  <1>3. CASE DB!ServiceNext
    BY <1>3, SameService DEF Service!Next
  <1>4. CASE UNCHANGED dbVars
    BY <1>4 DEF dbVars, Service!dbVars
  <1> QED BY <1>1, <1>2, <1>3, <1>4 DEF GeoNext, geoVars, ServerStep, ClientStep

\* Posted to by the server, the service behaves as DatabaseService says.
THEOREM CompositionImplementsService == GeoSpec => Service!Spec
  BY InitIsServices, StepIsServices, ServerInvariance, PTL DEF GeoSpec, Service!Spec
-----------------------------------------------------------------------------
(* Steps of one side leave the other one's part alone.                     *)

\* A login comes from LoginReturn only; the server does not wait for a post
\* in any other step, and a relay without a post is of bad coordinates.
LEMMA ServerStepKeeps ==
    ASSUME IInv, ServerNext
    PROVE  /\ pc # "post"
           /\ \A s \in Occupied' : slots'[s].authenticated =>
                s \in Occupied /\ slots[s].authenticated /\ slots'[s].user = slots[s].user
           /\ pc # "relay" /\ pc' = "relay" => work'.kind = "bad_location"
  <1> DEFINE Kept ==
           /\ pc # "post"
           /\ \A s \in Occupied' : slots'[s].authenticated =>
                s \in Occupied /\ slots[s].authenticated /\ slots'[s].user = slots[s].user
           /\ pc # "relay" /\ pc' = "relay" => work'.kind = "bad_location"
  <1>1. TypeOK /\ slots \in [Slots -> ClientInfo]
    BY DEF IInv, TypeOK
  <1>2. ServerInit \/ Shutdown \/ (Crash /\ pc = "scan") => Kept
    <2>1. ServerInit \/ Shutdown \/ Crash => \A s \in Slots : slots'[s].sock = Nil
      BY <1>1 DEF ServerInit, Shutdown, Crash, SlotFor, ClientInfo
    <2> QED BY <2>1 DEF ServerInit, Shutdown, Crash, Occupied
  <1>3. ServerInitFails \/ Select \/ AcceptNothing \/ Accept \/ HandshakeFailed \/ ScanDone
             \/ Reply \/ RelayDone => Kept
    BY DEF ServerInitFails, Select, AcceptNothing, Accept, HandshakeFailed, ScanDone, Reply,
           RelayDone, Occupied
  <1>4. ASSUME NEW s \in Slots, HandshakeOk(s) \/ Disconnect(s) PROVE Kept
    <2>1. /\ pc \in {"handshake", "scan"} /\ pc' = "scan"
          /\ ~slots'[s].authenticated /\ \A t \in Slots \ {s} : slots'[t] = slots[t]
      BY <1>1, <1>4 DEF HandshakeOk, Disconnect, Reading, SlotFor
    <2> QED BY <2>1 DEF Occupied
  <1>5. ASSUME NEW s \in Slots,
               Ignore(s) \/ Ping(s) \/ Credentials(s) \/ Unauthorized(s) \/ RelayTo(s)
        PROVE  Kept
    <2>1. slots' = slots /\ pc # "post" /\ (pc' = "relay" => pc = "relay")
      BY <1>5 DEF Ignore, Ping, Credentials, Unauthorized, RelayTo, Handle, Reading
    <2> QED BY <2>1 DEF Occupied
  <1>6. ASSUME NEW s \in Slots, Location(s) PROVE Kept
    <2>1. slots' = slots /\ pc = "scan" /\ (pc' = "relay" => work'.kind = "bad_location")
      <3>1. CASE Reading(s, {"location"}) /\ Handle(s, "post", Head(conn[slots[s].sock].inq))
        BY <3>1 DEF Handle, Reading
      <3>2. CASE Reading(s, {"bad_location"}) /\ Handle(s, "relay", Head(conn[slots[s].sock].inq))
        <4>1. Head(conn[slots[s].sock].inq).kind = "bad_location"
          BY <1>1, <3>2, ReadingSocket
        <4> QED BY <3>2, <4>1 DEF Handle, Reading
      <3> QED BY <1>6, <3>1, <3>2 DEF Location
    <2> QED BY <2>1 DEF Occupied
  <1>7. ASSUME NEW s \in Slots, NullPayload(s) PROVE Kept
    <2>1. Crash /\ pc = "scan"
      BY <1>7 DEF NullPayload, Reading
    <2> QED BY <1>2, <2>1
  <1> HIDE DEF Kept
  <1>8. Kept
    BY <1>2, <1>3, <1>4, <1>5, <1>6, <1>7 DEF ServerNext
  <1> QED BY <1>8 DEF Kept

\* The process, its clients and the network do not touch the table of slots,
\* but for a new process, which has none.
LEMMA OthersKeep ==
    ASSUME IInv, Interrupt \/ Restart \/ \E c \in Conns : ClientNext(c)
    PROVE  /\ pc = "post" <=> pc' = "post"
           /\ UNCHANGED <<i, work>>
           /\ \/ UNCHANGED slots
              \/ pc # "post" /\ \A s \in Slots : slots'[s].sock = Nil
  <1>1. CASE \E c \in Conns : ClientNext(c)
    BY <1>1, ClientsLeaveServer DEF serverVars
  <1>2. CASE Interrupt
    BY <1>2 DEF Interrupt
  <1>3. CASE Restart
    BY <1>3 DEF Restart, SlotFor, Exited
  <1> QED BY <1>1, <1>2, <1>3

\* Handling requests, the service keeps their posts and documents, and adds to
\* its tables only.
LEMMA ServiceKeeps ==
    ASSUME Service!IInv, DB!ServiceNext
    PROVE  /\ UNCHANGED <<call, posts, confirmed>>
           /\ \A q \in requests' : \E r \in requests : r.post = q.post /\ r.request = q.request
           /\ \A n : DB!Taken(users, n) => DB!Taken(users', n)
           /\ Service!Grows(locations, locations')
           /\ \A k \in DOMAIN locations' \ DOMAIN locations :
                \E r \in requests : /\ r.post = locations'[k].post
                                    /\ r.request.endpoint = "/location"
                                    /\ r.request.body.user_id = locations'[k].user_id
  <1>1. Service!ServiceNext /\ Service!TypeOK
    BY SameService DEF Service!IInv
  <1>2. /\ Service!Grows(users, users') /\ Service!Grows(locations, locations')
        /\ locations' = locations \/ \E r \in requests : Service!Location(r)
    <2>1. [Service!Next]_(Service!dbVars)
      BY <1>1 DEF Service!Next
    <2> QED BY <1>1, <2>1, ServiceAssumptions, Service!RowsStay
  <1>3. \A n : DB!Taken(users, n) => DB!Taken(users', n)
    BY <1>2 DEF DB!Taken, Service!Grows
  <1>4. ASSUME NEW r \in requests, NEW a \in {"ok", "refused"}, Service!Answer(r, a)
        PROVE  /\ UNCHANGED <<call, posts, confirmed>>
               /\ \A q \in requests' : \E p \in requests : p.post = q.post /\ p.request = q.request
    <2>1. \A q \in requests' : q \in requests \ {r} \/ (q.post = r.post /\ q.request = r.request)
      BY <1>1, <1>4, ServiceAssumptions, Service!AnswerFields
    <2> QED BY <1>4, <2>1 DEF Service!Answer
  <1>5. ASSUME NEW r \in requests, Service!Handle(r)
        PROVE  \E a \in {"ok", "refused"} : Service!Answer(r, a)
    BY <1>5 DEF Service!Handle, Service!Auth, Service!Register, Service!Location, Service!Log,
                Service!Refuse
  <1>6. Service!ServiceStart \/ Service!ServiceStop =>
          UNCHANGED <<call, posts, confirmed>> /\ requests' \subseteq requests
    BY DEF Service!ServiceStart, Service!ServiceStop
  <1>7. /\ UNCHANGED <<call, posts, confirmed>>
        /\ \A q \in requests' : \E r \in requests : r.post = q.post /\ r.request = q.request
    BY <1>1, <1>4, <1>5, <1>6 DEF Service!ServiceNext
  <1>8. ASSUME NEW k \in DOMAIN locations' \ DOMAIN locations
        PROVE  \E r \in requests : /\ r.post = locations'[k].post
                                   /\ r.request.endpoint = "/location"
                                   /\ r.request.body.user_id = locations'[k].user_id
    <2>1. PICK r \in requests : Service!Location(r)
      BY <1>2, <1>8
    <2> DEFINE row == [user_id |-> r.request.body.user_id, place |-> r.request.body.place,
                       post |-> r.post]
    <2>2. locations' = Append(locations, row) /\ r.request.endpoint = "/location"
      BY <2>1 DEF Service!Location
    <2>3. row.post = r.post /\ row.user_id = r.request.body.user_id
      OBVIOUS
    <2>4. locations \in Seq(Service!LocationRow)
      BY <1>1 DEF Service!TypeOK
    <2> HIDE DEF row
    <2>5. locations'[k] = row
      BY <1>8, <2>2, <2>4
    <2> QED BY <2>2, <2>3, <2>5
  <1> QED BY <1>2, <1>3, <1>7, <1>8

\* What came back from a post: the answer that the service gave to the document
\* of the message, with its effect on the tables, or none.
LEMMA AnswerReturned ==
    ASSUME Service!IInv, PostInProgress, call # NoCall, NEW result, Service!Return(result)
    PROVE  /\ call' = NoCall /\ UNCHANGED <<users, locations, posts>> /\ requests' \subseteq requests
           /\ result \in {"ok", "refused", "failed"}
           /\ result = "ok" /\ work.kind # "location" => DB!Taken(users, work.arg)
           /\ result = "ok" /\ work.kind = "location" =>
                \E k \in DOMAIN locations : locations[k].post = call
           /\ result = "refused" => /\ \A k \in DOMAIN locations : locations[k].post # call
                                    /\ \A r \in requests' : r.post # call
  <1>1. /\ Service!WonTookEffect /\ Service!RowsByPost /\ Service!RequestsByPost
    BY DEF Service!IInv
  <1>2. CASE Service!Failed(result)
    BY <1>2 DEF Service!Failed
  <1>3. CASE Service!Answered(result)
    <2>1. PICK r \in requests :
            /\ r.post = call /\ r.answer = result /\ result \in {"ok", "refused"}
            /\ call' = NoCall /\ requests' = requests \ {r}
            /\ UNCHANGED <<users, locations, posts>>
      BY <1>3 DEF Service!Answered
    <2> DEFINE w == [post |-> r.post, request |-> r.request]
    <2>2. w.post = call /\ w.request = r.request /\ (result = "ok" => w \in Service!Won)
      BY <2>1 DEF Service!Won
    <2> HIDE DEF w
    <2>3. r.request \in Documents(i, work)
      BY <2>1 DEF PostInProgress
    <2>4. ASSUME result = "ok", work.kind # "location" PROVE DB!Taken(users, work.arg)
      <3>1. /\ r.request.endpoint \in {"/auth", "/register"}
            /\ r.request.body \in [username : {work.arg}, password : Passwords]
        BY <2>3, <2>4, DocumentFields
      <3>2. PICK k \in DOMAIN users : users[k] = Service!Row(r.request.body)
        BY <1>1, <2>2, <2>4, <3>1 DEF Service!WonTookEffect
      <3>3. users[k].username = work.arg
        BY <3>1, <3>2 DEF Service!Row
      <3> QED BY <3>3 DEF DB!Taken
    <2>5. ASSUME result = "ok", work.kind = "location"
          PROVE  \E k \in DOMAIN locations : locations[k].post = call
      <3>1. r.request.endpoint = "/location"
        BY <2>3, <2>5, DocumentFields
      <3> QED BY <1>1, <2>2, <2>5, <3>1 DEF Service!WonTookEffect
    <2>6. ASSUME result = "refused"
          PROVE  /\ \A k \in DOMAIN locations : locations[k].post # call
                 /\ \A q \in requests' : q.post # call
      BY <1>1, <2>1, <2>6 DEF Service!RowsByPost, Service!RequestsByPost
    <2> QED BY <2>1, <2>4, <2>5, <2>6
  <1> QED BY <1>2, <1>3 DEF Service!Return
-----------------------------------------------------------------------------
(* What slots, tables and maps say agrees.                                 *)

LEMMA PostTypes ==
    ASSUME Service!IInv
    PROVE  /\ posts \in Nat /\ NoCall \notin Nat /\ call \in {NoCall, posts}
           /\ \A r \in requests : r.post \in 1 .. posts
           /\ \A k \in DOMAIN locations : locations[k].post \in 1 .. posts
  BY PostsAssumption DEF Service!IInv, Service!TypeOK, Service!RequestsByPost, Service!RowsByPost

LEMMA GeoInitially == GeoInit => GeoInv
  <1> SUFFICES ASSUME GeoInit PROVE GeoInv
    OBVIOUS
  <1>1. IInv /\ Service!IInv
    BY InitIsServers, InitIsServices, IInvInitially, ServiceAssumptions, Service!IInvInitially
  <1>2. /\ requests = {} /\ relayed = {} /\ locations = <<>> /\ call = NoCall /\ pc = "boot"
    BY DEF GeoInit, Init, DB!Init
  <1>3. \A s \in Slots : slots[s].sock = Nil
    BY DEF GeoInit, Init, SlotFor
  <1>4. DOMAIN locations = {}
    BY <1>2
  <1> QED BY <1>1, <1>2, <1>3, <1>4
          DEF GeoInv, PostInProgress, RequestsHaveOwners, Ledger, LoggedInUsersExist, Occupied,
              LocationsHaveOwners, MapAndTableAgree

\* The server makes a step of its own: a relay that begins in it is one of bad
\* coordinates.
LEMMA GeoServerStep ==
    ASSUME GeoInv, ServerStep
    PROVE  /\ PostInProgress' /\ RequestsHaveOwners' /\ Ledger'
           /\ LoggedInUsersExist' /\ LocationsHaveOwners' /\ MapAndTableAgree'
  <1>1. /\ UNCHANGED <<users, locations, requests, call, posts>> /\ pc # "post" /\ pc' # "post"
    BY ServerStepKeeps DEF GeoInv, ServerStep, dbVars
  <1>2. /\ posts \in Nat /\ NoCall \notin Nat
        /\ \A r \in requests : r.post \in 1 .. posts
        /\ \A k \in DOMAIN locations : locations[k].post \in 1 .. posts
    BY PostTypes DEF GeoInv
  <1>3. call = NoCall
    BY <1>1 DEF GeoInv, PostInProgress
  <1>4. \A x \in relayed' : \/ x \in relayed
                            \/ x.post = NoCall /\ x.kind = "bad_location" /\ x.result = "none"
    <2> DEFINE new == [kind |-> work'.kind, post |-> NoCall, result |-> "none"]
    <2>1. relayed' = relayed \union {r \in {new} : pc # "relay" /\ pc' = "relay"}
      BY DEF ServerStep, Begun
    <2>2. new.kind = work'.kind /\ new.post = NoCall /\ new.result = "none"
      OBVIOUS
    <2>3. pc # "relay" /\ pc' = "relay" => work'.kind = "bad_location"
      BY ServerStepKeeps DEF GeoInv, ServerStep
    <2> HIDE DEF new
    <2> QED BY <2>1, <2>2, <2>3
  <1>5. relayed \subseteq relayed'
    BY DEF ServerStep, Begun
  <1>6. PostInProgress' /\ RequestsHaveOwners'
    BY <1>1, <1>2, <1>3 DEF GeoInv, PostInProgress, RequestsHaveOwners
  <1>7. Ledger'
    BY <1>1, <1>2, <1>3, <1>4, <1>5 DEF GeoInv, Ledger
  <1>8. LoggedInUsersExist'
    BY <1>1, ServerStepKeeps DEF GeoInv, LoggedInUsersExist, ServerStep
  <1>9. LocationsHaveOwners'
    BY <1>1 DEF GeoInv, LocationsHaveOwners
  <1>10. MapAndTableAgree'
    BY <1>1, <1>2, <1>3, <1>4, <1>5 DEF GeoInv, MapAndTableAgree
  <1> QED BY <1>6, <1>7, <1>8, <1>9, <1>10

\* The process, its clients and the network.
LEMMA GeoOthersStep ==
    ASSUME GeoInv, Interrupt \/ Restart \/ \E c \in Conns : ClientNext(c),
           UNCHANGED <<dbVars, relayed>>
    PROVE  /\ PostInProgress' /\ RequestsHaveOwners' /\ Ledger'
           /\ LoggedInUsersExist' /\ LocationsHaveOwners' /\ MapAndTableAgree'
  <1>1. UNCHANGED <<users, locations, requests, call, posts, relayed, i, work>>
    BY OthersKeep DEF GeoInv, dbVars
  <1>2. /\ pc = "post" <=> pc' = "post"
        /\ UNCHANGED slots \/ (pc # "post" /\ \A s \in Slots : slots'[s].sock = Nil)
    BY OthersKeep DEF GeoInv
  <1>3. RequestsHaveOwners' /\ Ledger' /\ LocationsHaveOwners' /\ MapAndTableAgree'
    BY <1>1 DEF GeoInv, RequestsHaveOwners, Ledger, LocationsHaveOwners, MapAndTableAgree
  <1>4. CASE UNCHANGED slots
    <2>1. PostInProgress'
      BY <1>1, <1>2, <1>4 DEF GeoInv, PostInProgress, Documents
    <2>2. LoggedInUsersExist'
      BY <1>1, <1>4 DEF GeoInv, LoggedInUsersExist, Occupied
    <2> QED BY <1>3, <2>1, <2>2
  <1>5. CASE pc # "post" /\ \A s \in Slots : slots'[s].sock = Nil
    <2>1. call = NoCall /\ \A r \in requests : r.post # NoCall
      BY <1>5, PostTypes DEF GeoInv, PostInProgress
    <2>2. PostInProgress'
      BY <1>1, <1>2, <1>5, <2>1 DEF PostInProgress
    <2>3. LoggedInUsersExist'
      BY <1>5 DEF LoggedInUsersExist, Occupied
    <2> QED BY <1>3, <2>2, <2>3
  <1> QED BY <1>2, <1>4, <1>5

\* A handler posts: the document is new in the service, and a location is from
\* a client that is logged in.
LEMMA GeoEnterPost ==
    ASSUME GeoInv, NEW s \in Slots, EnterPost(s)
    PROVE  /\ PostInProgress' /\ RequestsHaveOwners' /\ Ledger'
           /\ LoggedInUsersExist' /\ LocationsHaveOwners' /\ MapAndTableAgree'
  <1>1. PICK q \in Service!Request : Service!Post(q) /\ q \in Documents(s, work')
    BY PostedRequest DEF GeoInv
  <1> DEFINE new == [post |-> posts + 1, request |-> q, answer |-> "none"]
  <1>2. /\ call = NoCall /\ call' = posts + 1 /\ posts' = posts + 1
        /\ requests' = requests \union {r \in {new} : service = "up"}
        /\ UNCHANGED <<users, locations>>
    BY <1>1 DEF Service!Post
  <1>3. new.post = posts + 1 /\ new.request = q
    OBVIOUS
  <1> HIDE DEF new
  <1>4. /\ posts \in Nat /\ NoCall \notin Nat
        /\ \A r \in requests : r.post \in 1 .. posts
        /\ \A k \in DOMAIN locations : locations[k].post \in 1 .. posts
    BY PostTypes DEF GeoInv
  <1>5. /\ pc' = "post" /\ i' = s /\ UNCHANGED <<slots, relayed>> /\ s \in Occupied
        /\ work'.kind = "location" => slots[s].authenticated
    BY PostedMessage DEF GeoInv
  <1>6. \A r \in requests' : \/ r \in requests /\ r.post # posts + 1
                             \/ r.post = posts + 1 /\ r.request = q
    BY <1>2, <1>3, <1>4
  <1>7. Documents(i, work)' = Documents(s, work')
    BY <1>5, Zenon DEF Documents
  <1>8. PostInProgress'
    BY <1>1, <1>2, <1>4, <1>5, <1>6, <1>7 DEF PostInProgress
  <1>9. RequestsHaveOwners'
    <2>1. q.endpoint = "/location" => DB!Taken(users, q.body.user_id)
      <3>1. ASSUME q.endpoint = "/location" PROVE DB!Taken(users, q.body.user_id)
        <4>1. PICK m : m = work'
          OBVIOUS
        <4>2. q \in Documents(s, m)
          BY <1>1, <4>1
        <4>3. m.kind = "location" /\ q.body = [user_id |-> slots[s].user, place |-> m.arg]
          BY <3>1, <4>2, DocumentFields
        <4>4. q.body.user_id = slots[s].user
          BY <4>3
        <4> QED BY <1>5, <4>1, <4>3, <4>4 DEF GeoInv, LoggedInUsersExist
      <3> QED BY <3>1
    <2> QED BY <1>2, <1>6, <2>1 DEF GeoInv, RequestsHaveOwners
  <1>10. Ledger'
    <2>1. \A x \in relayed : x.post = NoCall \/ x.post \in 1 .. posts
      BY DEF GeoInv, Ledger
    <2>2. \A x \in relayed : x.post # posts + 1 /\ (x.post \in 1 .. posts => x.post \in 1 .. posts')
      BY <1>2, <1>4, <2>1
    <2>3. \A k \in DOMAIN locations : locations[k].post # posts + 1
      BY <1>4
    <2>4. \A r \in requests : r.post # call
      BY <1>2, <1>4
    <2>5. \A r \in requests' : r.request.endpoint = "/location" =>
                                 r.post = call' \/ \E x \in relayed' : x.post = r.post
      BY <1>2, <1>5, <1>6, <2>4 DEF GeoInv, Ledger
    <2>6. \A x \in relayed : x.result = "refused" => \A r \in requests' : r.post # x.post
      BY <1>6, <2>2 DEF GeoInv, Ledger
    <2>7. \A x \in relayed : \/ x.post = NoCall /\ x.kind = "bad_location" /\ x.result = "none"
                             \/ x.post \in 1 .. posts' /\ x.post # call'
      BY <1>2, <2>2 DEF GeoInv, Ledger
    <2> QED BY <1>2, <1>5, <2>3, <2>5, <2>6, <2>7 DEF Ledger
  <1>11. LoggedInUsersExist' /\ LocationsHaveOwners'
    BY <1>2, <1>5 DEF GeoInv, LoggedInUsersExist, LocationsHaveOwners, Occupied
  <1>12. MapAndTableAgree'
    <2>1. \A k \in DOMAIN locations : locations[k].post # call
      BY <1>2, <1>4
    <2> QED BY <1>2, <1>5, <2>1 DEF GeoInv, MapAndTableAgree
  <1> QED BY <1>8, <1>9, <1>10, <1>11, <1>12

\* A post returns: the login, or the relay that begins, is of what the service
\* answered.
LEMMA GeoLeavePost ==
    ASSUME GeoInv, LeavePost
    PROVE  /\ PostInProgress' /\ RequestsHaveOwners' /\ Ledger'
           /\ LoggedInUsersExist' /\ LocationsHaveOwners' /\ MapAndTableAgree'
  <1>1. PICK result \in Results : HttpReturn(result) /\ DB!Return(result) /\ Begun(call, result)
    BY DEF LeavePost
  <1>2. /\ pc = "post" /\ pc' # "post" /\ i \in Slots /\ slots \in [Slots -> ClientInfo]
    BY <1>1 DEF HttpReturn, LoginReturn, StoreReturn, GeoInv, IInv, TypeOK, Phase, Occupied
  <1>3. call # NoCall /\ call \in 1 .. posts
    BY <1>2 DEF GeoInv, PostInProgress
  <1>4. /\ posts \in Nat /\ NoCall \notin Nat
        /\ \A r \in requests : r.post \in 1 .. posts
        /\ \A k \in DOMAIN locations : locations[k].post \in 1 .. posts
    BY PostTypes DEF GeoInv
  <1>5. /\ call' = NoCall /\ UNCHANGED <<users, locations, posts>> /\ requests' \subseteq requests
        /\ result \in {"ok", "refused", "failed"}
        /\ result = "ok" /\ work.kind # "location" => DB!Taken(users, work.arg)
        /\ result = "ok" /\ work.kind = "location" =>
             \E k \in DOMAIN locations : locations[k].post = call
        /\ result = "refused" => /\ \A k \in DOMAIN locations : locations[k].post # call
                                 /\ \A r \in requests' : r.post # call
    BY <1>1, <1>3, SameCalls, AnswerReturned DEF GeoInv
  <1> DEFINE new == [kind |-> work'.kind, post |-> call, result |-> result]
  <1>6. /\ \A x \in relayed' : x \in relayed \/ (x = new /\ work.kind = "location")
        /\ relayed \subseteq relayed'
        /\ work.kind = "location" => new \in relayed'
    <2>1. relayed' = relayed \union {r \in {new} : pc # "relay" /\ pc' = "relay"}
      BY <1>1 DEF Begun
    <2>2. pc # "relay" /\ (pc' = "relay" <=> work.kind = "location")
      BY <1>1 DEF HttpReturn, LoginReturn, StoreReturn
    <2> HIDE DEF new
    <2> QED BY <2>1, <2>2
  <1>7. new.post = call /\ new.result = result
    OBVIOUS
  <1> HIDE DEF new
  <1>8. PostInProgress'
    BY <1>2, <1>4, <1>5 DEF PostInProgress
  <1>9. RequestsHaveOwners' /\ LocationsHaveOwners'
    BY <1>5 DEF GeoInv, RequestsHaveOwners, LocationsHaveOwners
  <1>10. \A r \in requests : r.post = call /\ r.request.endpoint = "/location" => work.kind = "location"
    BY DocumentFields DEF GeoInv, PostInProgress
  <1>11. Ledger'
    <2>1. \A x \in relayed' : \/ x.post = NoCall /\ x.kind = "bad_location" /\ x.result = "none"
                              \/ x.post \in 1 .. posts' /\ x.post # call'
      BY <1>3, <1>4, <1>5, <1>6, <1>7 DEF GeoInv, Ledger
    <2>2. \A x \in relayed' : x.result = "refused" => \A r \in requests' : r.post # x.post
      BY <1>5, <1>6, <1>7 DEF GeoInv, Ledger
    <2>3. \A r \in requests' : r.request.endpoint = "/location" =>
                                 \E x \in relayed' : x.post = r.post
      BY <1>5, <1>6, <1>7, <1>10 DEF GeoInv, Ledger
    <2>4. \A k \in DOMAIN locations : locations[k].post # call'
      BY <1>4, <1>5
    <2> QED BY <1>5, <2>1, <2>2, <2>3, <2>4 DEF Ledger
  <1>12. LoggedInUsersExist'
    <2>1. \A s \in Slots : \/ slots'[s] = slots[s]
                           \/ s = i /\ slots'[s].user = work.arg /\ slots'[s].sock = slots[s].sock
                              /\ result = "ok" /\ work.kind # "location"
      BY <1>1, <1>2 DEF HttpReturn, LoginReturn, StoreReturn, Granted, ClientInfo
    <2> QED BY <1>5, <2>1 DEF GeoInv, LoggedInUsersExist, Occupied
  <1>13. MapAndTableAgree'
    <2>1. \A k \in DOMAIN locations : \E x \in relayed' : x.post = locations[k].post
      BY <1>6, <1>7 DEF GeoInv, MapAndTableAgree, Ledger
    <2>2. ASSUME NEW x \in relayed'
          PROVE  LET stored == \E k \in DOMAIN locations : locations[k].post = x.post
                 IN  /\ x.result = "ok" => stored
                     /\ x.result = "refused" => ~stored
                     /\ x.post = NoCall => x.kind = "bad_location"
      <3>1. CASE x \in relayed
        BY <3>1 DEF GeoInv, MapAndTableAgree
      <3>2. CASE x = new /\ work.kind = "location"
        BY <1>3, <1>5, <1>7, <3>2
      <3> QED BY <1>6, <3>1, <3>2
    <2> QED BY <1>5, <2>1, <2>2 DEF MapAndTableAgree
  <1> QED BY <1>8, <1>9, <1>11, <1>12, <1>13

\* The service handles a request, starts or stops.
LEMMA GeoServiceStep ==
    ASSUME GeoInv, DB!ServiceNext, UNCHANGED <<vars, relayed>>
    PROVE  /\ PostInProgress' /\ RequestsHaveOwners' /\ Ledger'
           /\ LoggedInUsersExist' /\ LocationsHaveOwners' /\ MapAndTableAgree'
  <1>1. /\ UNCHANGED <<pc, slots, i, work, relayed, call, posts>>
        /\ \A q \in requests' : \E r \in requests : r.post = q.post /\ r.request = q.request
        /\ \A n : DB!Taken(users, n) => DB!Taken(users', n)
        /\ DOMAIN locations \subseteq DOMAIN locations'
        /\ \A k \in DOMAIN locations : locations'[k] = locations[k]
    BY ServiceKeeps DEF GeoInv, vars, Service!Grows
  <1>2. \A k \in DOMAIN locations' \ DOMAIN locations :
          \E r \in requests : /\ r.post = locations'[k].post
                              /\ r.request.endpoint = "/location"
                              /\ r.request.body.user_id = locations'[k].user_id
    BY ServiceKeeps DEF GeoInv
  <1>3. /\ posts \in Nat /\ NoCall \notin Nat
        /\ \A r \in requests : r.post \in 1 .. posts
        /\ \A k \in DOMAIN locations : locations[k].post \in 1 .. posts
    BY PostTypes DEF GeoInv
  <1>4. PostInProgress'
    <2>1. Documents(i, work)' = Documents(i, work)
      BY <1>1, Zenon DEF Documents
    <2> QED BY <1>1, <2>1 DEF GeoInv, PostInProgress
  <1>5. RequestsHaveOwners'
    BY <1>1 DEF GeoInv, RequestsHaveOwners
  <1>6. \A r \in requests : r.post = call /\ r.request.endpoint = "/location" => work.kind = "location"
    BY DocumentFields DEF GeoInv, PostInProgress
  <1>7. Ledger'
    <2>1. \A k \in DOMAIN locations' : locations'[k].post = call => work.kind = "location"
      BY <1>1, <1>2, <1>6 DEF GeoInv, Ledger
    <2>2. \A x \in relayed : x.result = "refused" => \A r \in requests' : r.post # x.post
      BY <1>1 DEF GeoInv, Ledger
    <2>3. \A r \in requests' : r.request.endpoint = "/location" =>
                                 r.post = call \/ \E x \in relayed : x.post = r.post
      BY <1>1 DEF GeoInv, Ledger
    <2> QED BY <1>1, <2>1, <2>2, <2>3 DEF GeoInv, Ledger
  <1>8. LoggedInUsersExist'
    BY <1>1 DEF GeoInv, LoggedInUsersExist, Occupied
  <1>9. LocationsHaveOwners'
    BY <1>1, <1>2 DEF GeoInv, RequestsHaveOwners, LocationsHaveOwners
  <1>10. MapAndTableAgree'
    <2>1. \A k \in DOMAIN locations' :
            locations'[k].post = call \/ \E x \in relayed : x.post = locations'[k].post
      BY <1>1, <1>2 DEF GeoInv, MapAndTableAgree, Ledger
    <2>2. \A x \in relayed :
            x.result = "ok" => \E k \in DOMAIN locations' : locations'[k].post = x.post
      BY <1>1 DEF GeoInv, MapAndTableAgree
    <2>3. \A x \in relayed :
            x.result = "refused" => ~ \E k \in DOMAIN locations' : locations'[k].post = x.post
      BY <1>1, <1>2 DEF GeoInv, MapAndTableAgree, Ledger
    <2>4. \A x \in relayed : x.post = NoCall => x.kind = "bad_location"
      BY DEF GeoInv, MapAndTableAgree
    <2> QED BY <1>1, <2>1, <2>2, <2>3, <2>4 DEF MapAndTableAgree
  <1> QED BY <1>4, <1>5, <1>7, <1>8, <1>9, <1>10

LEMMA GeoPreserved == GeoInv /\ [GeoNext]_geoVars => GeoInv'
  <1> SUFFICES ASSUME GeoInv, [GeoNext]_geoVars PROVE GeoInv'
    OBVIOUS
  <1>1. IInv'
    BY StepIsServers, IInvPreserved DEF GeoInv
  <1>2. Service!IInv'
    BY StepIsServices, ServiceAssumptions, Service!IInvPreserved DEF GeoInv
  <1> DEFINE Rest == /\ PostInProgress /\ RequestsHaveOwners /\ Ledger
                     /\ LoggedInUsersExist /\ LocationsHaveOwners /\ MapAndTableAgree
  <1>3. CASE ServerStep \/ LeavePost \/ \E s \in Slots : EnterPost(s)
    <2>1. Rest'
      BY <1>3, GeoServerStep, GeoLeavePost, GeoEnterPost
    <2> QED BY <1>1, <1>2, <2>1 DEF GeoInv
  <1>4. CASE DB!ServiceNext /\ UNCHANGED <<vars, relayed>>
    <2>1. Rest'
      BY <1>4, GeoServiceStep
    <2> QED BY <1>1, <1>2, <2>1 DEF GeoInv
  <1>5. CASE /\ Interrupt \/ Restart \/ \E c \in Conns : ClientNext(c)
             /\ UNCHANGED <<dbVars, relayed>>
    <2>1. Rest'
      BY <1>5, GeoOthersStep
    <2> QED BY <1>1, <1>2, <2>1 DEF GeoInv
  <1>6. CASE UNCHANGED geoVars
    <2>1. UNCHANGED <<pc, slots, i, work, users, locations, requests, call, posts, relayed>>
      BY <1>6 DEF geoVars, vars, dbVars
    <2>2. Rest'
      BY <2>1 DEF GeoInv, PostInProgress, RequestsHaveOwners, Ledger, LoggedInUsersExist, Occupied,
                  LocationsHaveOwners, MapAndTableAgree, Documents
    <2> QED BY <1>1, <1>2, <2>2 DEF GeoInv
  <1> QED BY <1>3, <1>4, <1>5, <1>6 DEF GeoNext, ClientStep

\* The invariant that joins the two sides holds in every state.
THEOREM GeoInvariance == GeoSpec => []GeoInv
  BY GeoInitially, GeoPreserved, PTL DEF GeoSpec

\* A client that is logged in has an account, whatever happened to the service
\* since its login.
THEOREM LoggedInHaveAccounts == GeoSpec => []LoggedInUsersExist
  BY GeoInvariance, PTL DEF GeoInv

\* Every stored location is from an account, although SQLite does not check it.
THEOREM LocationsAreOwned == GeoSpec => []LocationsHaveOwners
  BY GeoInvariance, PTL DEF GeoInv

\* The table of locations and what was relayed to the maps differ in nothing
\* but posts that timed out.
THEOREM MapsAgreeWithTable == GeoSpec => []MapAndTableAgree
  BY GeoInvariance, PTL DEF GeoInv
=============================================================================
