------------------------- MODULE LocationRelayProofs -------------------------
(***************************************************************************)
(* What reaches the clients, for every number of slots, handles, places    *)
(* and frames, and buffers of any size: the relay never overtakes the      *)
(* reply that logged a client in, and LocationServer implements            *)
(* LocationRelay.                                                          *)
(***************************************************************************)
EXTENDS RelayRefinement, LocationServerProofs

\* Locations in c's stream come after a success reply, read or not.
LoginLeads(c) ==
    \A k \in DOMAIN conn[c].outq :
        conn[c].outq[k].kind = "location" =>
            conn[c].loggedIn \/ \E l \in 1 .. k - 1 : conn[c].outq[l].kind = "auth_ok"

\* A success reply was read on c or is on its way; or nothing will be.
Told(c) == \/ conn[c].loggedIn \/ conn[c].peer = "gone"
           \/ \E k \in DOMAIN conn[c].outq : conn[c].outq[k].kind = "auth_ok"

\* handle_auth marks the slot before it writes the reply; between the two the
\* server is at no other place.
LoginTold ==
    \A s \in Occupied :
        slots[s].authenticated =>
            Told(slots[s].sock) \/ (pc = "reply" /\ i = s /\ work.kind = "auth_ok")

\* Locations are relayed, never sent as a reply.
RepliesAreReplies == pc = "reply" => work.kind # "location"

LoginOrder == LoginTold /\ RepliesAreReplies /\ \A c \in Conns : LoginLeads(c)
-----------------------------------------------------------------------------
(* What may happen to the stream of one connection.                        *)

\* The stream is as it was.
LEMMA StreamKept ==
    ASSUME NEW c \in Conns,
           conn'[c].outq = conn[c].outq, conn'[c].loggedIn = conn[c].loggedIn
    PROVE  /\ LoginLeads(c) => LoginLeads(c)'
           /\ Told(c) /\ (conn[c].peer = "gone" => conn'[c].peer = "gone") => Told(c)'
  BY DEF LoginLeads, Told

\* Nothing is on its way.
LEMMA StreamEmptied ==
    ASSUME NEW c \in Conns, conn'[c].outq = <<>>
    PROVE  LoginLeads(c)'
  BY DEF LoginLeads

\* A message is added at the end.
LEMMA MessageAdded ==
    ASSUME conn \in [Conns -> Connection], NEW c \in Conns, NEW m \in Message,
           conn'[c].outq = Append(conn[c].outq, m),
           conn'[c].loggedIn = conn[c].loggedIn, conn'[c].peer = conn[c].peer,
           m.kind = "location" =>
               conn[c].loggedIn \/ \E k \in DOMAIN conn[c].outq : conn[c].outq[k].kind = "auth_ok"
    PROVE  /\ LoginLeads(c) => LoginLeads(c)'
           /\ Told(c) => Told(c)'
           /\ m.kind = "auth_ok" => Told(c)'
  <1> DEFINE q == conn[c].outq
             r == conn'[c].outq
  <1>1. /\ q \in Seq(Message) /\ Len(q) \in Nat /\ DOMAIN q = 1 .. Len(q)
        /\ DOMAIN r = 1 .. Len(q) + 1 /\ r[Len(q) + 1] = m
        /\ \A k \in 1 .. Len(q) : r[k] = q[k]
    BY DEF Connection
  <1>2. Told(c) => Told(c)'
    BY <1>1 DEF Told
  <1>3. m.kind = "auth_ok" => Told(c)'
    <2>1. Len(q) + 1 \in DOMAIN r
      BY <1>1
    <2> QED BY <1>1, <2>1 DEF Told
  <1>4. ASSUME LoginLeads(c), NEW k \in DOMAIN r, r[k].kind = "location", ~conn[c].loggedIn
        PROVE  \E l \in 1 .. k - 1 : r[l].kind = "auth_ok"
    <2>1. CASE k = Len(q) + 1
      <3>1. PICK l \in 1 .. Len(q) : q[l].kind = "auth_ok"
        BY <1>1, <1>4, <2>1
      <3> QED BY <1>1, <2>1, <3>1
    <2>2. CASE k \in 1 .. Len(q)
      <3>1. PICK l \in 1 .. k - 1 : q[l].kind = "auth_ok"
        BY <1>1, <1>4, <2>2 DEF LoginLeads
      <3> QED BY <1>1, <2>2, <3>1
    <2> QED BY <1>1, <2>1, <2>2
  <1> QED BY <1>2, <1>3, <1>4 DEF LoginLeads

\* The first message is read.
LEMMA MessageRead ==
    ASSUME conn \in [Conns -> Connection], NEW c \in Conns, conn[c].outq # <<>>,
           conn[c].peer # "gone", conn'[c].outq = Tail(conn[c].outq),
           conn'[c].loggedIn = (conn[c].loggedIn \/ Head(conn[c].outq).kind = "auth_ok")
    PROVE  /\ LoginLeads(c) => LoginLeads(c)'
           /\ Told(c) => Told(c)'
  <1> DEFINE q == conn[c].outq
             r == conn'[c].outq
  <1>1. /\ Len(q) \in Nat \ {0} /\ DOMAIN q = 1 .. Len(q) /\ Head(q) = q[1]
        /\ DOMAIN r = 1 .. Len(q) - 1
        /\ \A k \in 1 .. Len(q) - 1 : r[k] = q[k + 1]
    <2>1. q \in Seq(Message)
      BY DEF Connection
    <2> QED BY <2>1
  <1>2. ASSUME NEW k \in DOMAIN q, q[k].kind = "auth_ok", ~conn'[c].loggedIn
        PROVE  k - 1 \in DOMAIN r /\ r[k - 1].kind = "auth_ok"
    <2>1. k # 1
      BY <1>1, <1>2
    <2>2. k - 1 \in 1 .. Len(q) - 1 /\ (k - 1) + 1 = k
      BY <1>1, <2>1
    <2> QED BY <1>1, <1>2, <2>2
  <1>3. Told(c) => Told(c)'
    BY <1>2 DEF Told
  <1>4. ASSUME LoginLeads(c), NEW k \in DOMAIN r, r[k].kind = "location", ~conn'[c].loggedIn
        PROVE  \E l \in 1 .. k - 1 : r[l].kind = "auth_ok"
    <2>1. k + 1 \in DOMAIN q /\ q[k + 1].kind = "location" /\ k \in Nat
      BY <1>1, <1>4
    <2>2. PICK l \in 1 .. k : q[l].kind = "auth_ok"
      <3>1. (k + 1) - 1 = k
        BY <2>1
      <3>2. ~conn[c].loggedIn
        BY <1>4, Zenon
      <3>3. \E l \in 1 .. (k + 1) - 1 : q[l].kind = "auth_ok"
        BY <1>4, <2>1, <3>2 DEF LoginLeads
      <3> QED BY <3>1, <3>3
    <2>3. l \in DOMAIN q /\ l - 1 \in Int
      BY <1>1, <1>4, <2>1, <2>2
    <2>4. l - 1 \in DOMAIN r /\ r[l - 1].kind = "auth_ok"
      BY <1>2, <1>4, <2>2, <2>3
    <2>5. l - 1 \in 1 .. k - 1
      BY <1>1, <2>1, <2>2, <2>4
    <2> QED BY <2>4, <2>5
  <1> QED BY <1>3, <1>4 DEF LoginLeads

\* The server writes a message to c, which is no location unless c was told of
\* a login.
LEMMA MessageWritten ==
    ASSUME conn \in [Conns -> Connection], NEW c \in Conns, NEW m \in Message,
           conn' = Written(c, m), m.kind = "location" => Told(c),
           \A d \in Conns : LoginLeads(d)
    PROVE  /\ \A d \in Conns : LoginLeads(d)' /\ (Told(d) => Told(d)')
           /\ m.kind = "auth_ok" => Told(c)'
  <1>1. \A d \in Conns \ {c} : conn'[d] = conn[d]
    BY DEF Written
  <1>2. \A d \in Conns \ {c} : LoginLeads(d)' /\ (Told(d) => Told(d)')
    BY <1>1, StreamKept
  <1>3. CASE conn[c].peer = "gone"
    BY <1>2, <1>3, StreamKept DEF Written, Told
  <1>4. CASE conn[c].peer # "gone"
    <2>1. /\ conn'[c].outq = Append(conn[c].outq, m)
          /\ conn'[c].loggedIn = conn[c].loggedIn /\ conn'[c].peer = conn[c].peer
      BY <1>4 DEF Written, Connection
    <2>2. m.kind = "location" =>
            conn[c].loggedIn \/ \E k \in DOMAIN conn[c].outq : conn[c].outq[k].kind = "auth_ok"
      BY <1>4 DEF Told
    <2> QED BY <1>2, <2>1, <2>2, MessageAdded
  <1> QED BY <1>3, <1>4
-----------------------------------------------------------------------------
(* Every step keeps the order.                                             *)

\* A step that lets nobody in, and after which each client in a slot that was
\* told of its login still is.
LEMMA ToldKept ==
    ASSUME LoginTold,
           \A s \in Slots :
             slots'[s].sock # Nil /\ slots'[s].authenticated =>
               /\ slots'[s] = slots[s]
               /\ \A c \in {slots[s].sock} : Told(c) => Told(c)',
           pc # "reply" \/ UNCHANGED <<pc, i, work>>
    PROVE  LoginTold'
  <1> SUFFICES ASSUME NEW s \in Slots, slots'[s].sock # Nil, slots'[s].authenticated,
                      ~(pc' = "reply" /\ i' = s /\ work'.kind = "auth_ok")
               PROVE  Told(slots[s].sock)'
    BY DEF LoginTold, Occupied
  <1>1. slots'[s] = slots[s] /\ \A c \in {slots[s].sock} : Told(c) => Told(c)'
    OBVIOUS
  <1>2. Told(slots[s].sock)
    BY <1>1 DEF LoginTold, Occupied
  <1> QED BY <1>1, <1>2 DEF Told

\* A step that leaves the streams alone and lets nobody in.
LEMMA StreamsKept ==
    ASSUME IInv, LoginOrder, UNCHANGED slots,
           \A c \in Conns : /\ conn'[c].outq = conn[c].outq
                            /\ conn'[c].loggedIn = conn[c].loggedIn
                            /\ conn[c].peer = "gone" => conn'[c].peer = "gone",
           pc # "reply" \/ UNCHANGED <<pc, i, work>>,
           RepliesAreReplies'
    PROVE  LoginOrder'
  <1>1. \A s \in Occupied : slots[s].sock \in Conns
    BY DEF IInv, TypeOK, Occupied, ClientInfo
  <1>2. \A c \in Conns : LoginLeads(c)'
    BY StreamKept DEF LoginOrder
  <1>3. \A c \in Conns : Told(c) => Told(c)'
    BY StreamKept
  <1>4. LoginTold'
    BY <1>1, <1>3, ToldKept DEF LoginOrder, Occupied
  <1> QED BY <1>2, <1>4 DEF LoginOrder

\* The process starts or ends: nobody is connected.
LEMMA OrderNobody ==
    ASSUME \A s \in Slots : slots'[s].sock = Nil,
           UNCHANGED conn \/ \A c \in Conns : conn'[c] = Unused,
           pc' # "reply",
           LoginOrder
    PROVE  LoginOrder'
  <1>1. LoginTold' /\ RepliesAreReplies'
    BY DEF LoginTold, Occupied, RepliesAreReplies
  <1>2. ASSUME NEW c \in Conns PROVE LoginLeads(c)'
    <2>1. CASE UNCHANGED conn
      BY <2>1, StreamKept DEF LoginOrder
    <2>2. CASE conn'[c] = Unused
      BY <2>2, StreamEmptied DEF Unused
    <2> QED BY <2>1, <2>2
  <1> QED BY <1>1, <1>2 DEF LoginOrder

\* The server.
LEMMA OrderServer ==
    ASSUME IInv, LoginOrder, ServerNext \/ BackendNext \/ Interrupt \/ Restart
    PROVE  LoginOrder'
  <1>1. /\ slots \in [Slots -> ClientInfo] /\ conn \in [Conns -> Connection]
        /\ \A s \in Occupied : s \in Slots /\ slots[s].sock \in Conns
    BY DEF IInv, TypeOK, Occupied, ClientInfo
  <1>2. CASE ServerInit \/ Shutdown \/ Crash \/ Restart
    <2>1. \A s \in Slots : slots'[s].sock = Nil
      BY <1>1, <1>2 DEF ServerInit, Shutdown, Crash, Restart, SlotFor, ClientInfo
    <2>2. pc' # "reply" /\ (UNCHANGED conn \/ \A c \in Conns : conn'[c] = Unused)
      BY <1>2 DEF ServerInit, Shutdown, Crash, Restart
    <2> QED BY <2>1, <2>2, OrderNobody
  <1>3. CASE ServerInitFails \/ Select \/ AcceptNothing \/ Accept \/ ScanDone \/ RelayDone
             \/ Interrupt \/ \E r \in Results : StoreReturn(r)
    <2>1. /\ UNCHANGED <<slots, conn>>
          /\ (pc # "reply" /\ pc' # "reply") \/ UNCHANGED <<pc, i, work>>
      BY <1>3 DEF ServerInitFails, Select, AcceptNothing, Accept, ScanDone, RelayDone, Interrupt,
                  StoreReturn
    <2>2. RepliesAreReplies'
      BY <2>1 DEF LoginOrder, RepliesAreReplies
    <2> QED BY <2>1, <2>2, StreamsKept
  <1>4. ASSUME NEW s \in Slots, HandshakeOk(s) PROVE LoginOrder'
    <2>1. cur \in Conns /\ pc = "handshake" /\ s \notin Occupied
      BY <1>4 DEF HandshakeOk, IInv, Phase, TypeOK, FirstFree
    <2>2. ~slots'[s].authenticated /\ \A t \in Slots \ {s} : slots'[t] = slots[t]
      BY <1>1, <1>4 DEF HandshakeOk, SlotFor
    <2>3. /\ conn'[cur].outq \in {conn[cur].outq, <<Switching>>}
          /\ conn'[cur].loggedIn = conn[cur].loggedIn
          /\ \A c \in Conns \ {cur} : conn'[c] = conn[c]
      BY <1>1, <1>4, <2>1 DEF HandshakeOk, Taken, Connection
    <2>4. ASSUME NEW c \in Conns PROVE LoginLeads(c)'
      <3>1. CASE conn'[c].outq = <<Switching>>
        BY <3>1 DEF LoginLeads, Switching
      <3>2. CASE conn'[c].outq = conn[c].outq /\ conn'[c].loggedIn = conn[c].loggedIn
        BY <3>2, StreamKept DEF LoginOrder
      <3> QED BY <2>3, <3>1, <3>2
    <2>5. \A t \in Occupied : slots[t].sock # cur
      BY DEF IInv, HandlesAccounted
    <2>6. \A c \in Conns \ {cur} : Told(c) => Told(c)'
      BY <2>3, StreamKept
    <2>7. LoginTold'
      BY <1>1, <2>1, <2>2, <2>5, <2>6, ToldKept DEF LoginOrder, Occupied
    <2>8. pc' # "reply"
      BY <1>4 DEF HandshakeOk
    <2> QED BY <2>4, <2>7, <2>8 DEF LoginOrder, RepliesAreReplies
  <1>5. CASE HandshakeFailed
    <2>1. cur \in Conns /\ slots' = slots /\ conn' = [conn EXCEPT ![cur] = Unused] /\ pc = "handshake"
      BY <1>5 DEF HandshakeFailed, IInv, Phase, TypeOK
    <2>2. conn'[cur].outq = <<>> /\ \A c \in Conns \ {cur} : conn'[c] = conn[c]
      BY <1>1, <2>1 DEF Unused
    <2>3. \A c \in Conns : LoginLeads(c)'
      BY <2>2, StreamKept, StreamEmptied DEF LoginOrder
    <2>4. \A t \in Occupied : slots[t].sock # cur
      BY DEF IInv, HandlesAccounted
    <2>5. \A c \in Conns \ {cur} : Told(c) => Told(c)'
      BY <2>2, StreamKept
    <2>6. LoginTold'
      BY <1>1, <2>1, <2>4, <2>5, ToldKept DEF LoginOrder, Occupied
    <2>7. pc' # "reply"
      BY <1>5 DEF HandshakeFailed
    <2> QED BY <2>3, <2>6, <2>7 DEF LoginOrder, RepliesAreReplies
  <1>6. ASSUME NEW s \in Slots, Disconnect(s) PROVE LoginOrder'
    <2>1. s \in Occupied /\ pc = "scan"
      BY <1>6 DEF Disconnect, Reading, NextPending, Pending
    <2>2. slots'[s].sock = Nil /\ \A t \in Slots \ {s} : slots'[t] = slots[t]
      BY <1>1, <1>6 DEF Disconnect, SlotFor
    <2>3. \A t \in Occupied \ {s} : slots[t].sock # slots[s].sock
      BY <2>1 DEF IInv, HandlesAccounted
    <2>4. /\ conn'[slots[s].sock].outq = <<>>
          /\ \A c \in Conns \ {slots[s].sock} : conn'[c] = conn[c]
      BY <1>1, <1>6, <2>1 DEF Disconnect, Unused
    <2>5. \A c \in Conns : LoginLeads(c)'
      BY <2>4, StreamKept, StreamEmptied DEF LoginOrder
    <2>6. \A c \in Conns \ {slots[s].sock} : Told(c) => Told(c)'
      BY <2>4, StreamKept
    <2>7. LoginTold'
      BY <1>1, <2>1, <2>2, <2>3, <2>6, ToldKept DEF LoginOrder, Occupied
    <2>8. pc' # "reply"
      BY <1>6, <2>1 DEF Disconnect
    <2> QED BY <2>5, <2>7, <2>8 DEF LoginOrder, RepliesAreReplies
  <1>7. ASSUME NEW s \in Slots,
               Ignore(s) \/ Ping(s) \/ Credentials(s) \/ Unauthorized(s) \/ Location(s)
        PROVE  LoginOrder'
    <2>1. /\ slots[s].sock \in Conns /\ conn' = Taken(slots[s].sock) /\ slots' = slots
          /\ pc = "scan"
      BY <1>1, <1>7
      DEF Ignore, Ping, Credentials, Unauthorized, Location, Handle, Reading, NextPending, Pending
    <2>2. \A d \in Conns : /\ conn'[d].outq = conn[d].outq /\ conn'[d].peer = conn[d].peer
                           /\ conn'[d].loggedIn = conn[d].loggedIn
      BY <1>1, <2>1 DEF Taken, Connection
    <2>3. RepliesAreReplies'
      BY <1>7, <2>1
      DEF Ignore, Ping, Credentials, Unauthorized, Location, Handle, RepliesAreReplies
    <2> QED BY <2>1, <2>2, <2>3, StreamsKept
  <1>8. ASSUME NEW r \in Results, LoginReturn(r) PROVE LoginOrder'
    <2>1. i \in Occupied /\ slots[i].sock \in Conns /\ pc = "post" /\ pc' = "reply" /\ i' = i
      BY <1>1, <1>8 DEF LoginReturn, IInv, Phase
    <2>2. \A d \in Conns : /\ conn'[d].outq = conn[d].outq /\ conn'[d].peer = conn[d].peer
                           /\ conn'[d].loggedIn = conn[d].loggedIn
      BY <1>1, <1>8, <2>1 DEF LoginReturn, Connection
    <2>3. \A c \in Conns : LoginLeads(c)'
      BY <2>2, StreamKept DEF LoginOrder
    <2>4. \A c \in Conns : Told(c) => Told(c)'
      BY <2>2, StreamKept
    <2>5. \A t \in Slots : /\ slots'[t].sock = slots[t].sock
                           /\ t # i \/ ~Granted(r) => slots'[t] = slots[t]
      BY <1>1, <1>8 DEF LoginReturn, ClientInfo
    <2>6. Granted(r) => work'.kind = "auth_ok"
      BY <1>8 DEF LoginReturn
    <2>7. ASSUME NEW t \in Slots, slots'[t].sock # Nil, slots'[t].authenticated,
                 ~(pc' = "reply" /\ i' = t /\ work'.kind = "auth_ok")
          PROVE  Told(slots[t].sock)'
      <3>1. slots'[t] = slots[t] /\ t \in Occupied
        BY <2>1, <2>5, <2>6, <2>7 DEF Occupied
      <3>2. Told(slots[t].sock) /\ slots[t].sock \in Conns
        BY <1>1, <2>1, <2>7, <3>1 DEF LoginOrder, LoginTold
      <3> QED BY <2>4, <3>1, <3>2 DEF Told
    <2>8. LoginTold'
      BY <2>7 DEF LoginTold, Occupied
    <2>9. RepliesAreReplies'
      BY <1>8 DEF LoginReturn, RepliesAreReplies
    <2> QED BY <2>3, <2>8, <2>9 DEF LoginOrder
  <1>9. CASE Reply
    <2>1. /\ i \in Occupied /\ slots' = slots /\ work \in Message
          /\ pc = "reply" /\ pc' = "scan" /\ conn' = Written(slots[i].sock, work)
      BY <1>9 DEF Reply, IInv, Phase
    <2>2. PICK c \in Conns, m \in Message : c = slots[i].sock /\ m = work
      BY <1>1, <2>1
    <2>3. m.kind # "location"
      BY <2>1, <2>2 DEF LoginOrder, RepliesAreReplies
    <2>4. /\ \A d \in Conns : LoginLeads(d)' /\ (Told(d) => Told(d)')
          /\ m.kind = "auth_ok" => Told(c)'
      BY <1>1, <2>1, <2>2, <2>3, MessageWritten DEF LoginOrder
    <2>5. ASSUME NEW t \in Occupied, slots[t].authenticated PROVE Told(slots[t].sock)'
      <3>1. CASE Told(slots[t].sock)
        BY <1>1, <2>1, <2>4, <2>5, <3>1 DEF Told
      <3>2. CASE t = i /\ work.kind = "auth_ok"
        BY <2>1, <2>2, <2>4, <3>2 DEF Told
      <3> QED BY <2>5, <3>1, <3>2 DEF LoginOrder, LoginTold
    <2> QED BY <2>1, <2>4, <2>5 DEF LoginOrder, LoginTold, RepliesAreReplies, Occupied
  <1>10. ASSUME NEW s \in Slots, RelayTo(s) PROVE LoginOrder'
    <2> DEFINE m == [kind |-> "location", arg |-> work.arg]
               c == slots[s].sock
    <2>1. /\ s \in Occupied /\ c \in Conns /\ slots' = slots /\ pc = "relay" /\ UNCHANGED pc
          /\ conn' = Written(c, m) /\ slots[s].authenticated /\ m \in Message
      BY <1>1, <1>10, MessageTypes DEF RelayTo, NextInAudience, Audience, IInv, Phase
    <2>2. Told(c)
      BY <2>1 DEF LoginOrder, LoginTold
    <2> HIDE DEF m, c
    <2>3. \A d \in Conns : LoginLeads(d)' /\ (Told(d) => Told(d)')
      BY <1>1, <2>1, <2>2, MessageWritten DEF LoginOrder
    <2>4. LoginTold'
      BY <1>1, <2>1, <2>3, ToldKept DEF LoginOrder, Occupied
    <2> QED BY <2>1, <2>3, <2>4 DEF LoginOrder, RepliesAreReplies
  <1>11. \A s \in Slots : NullPayload(s) => Crash
    BY DEF NullPayload
  <1> QED BY <1>2, <1>3, <1>4, <1>5, <1>6, <1>7, <1>8, <1>9, <1>10, <1>11
          DEF ServerNext, BackendNext, HttpReturn

\* The clients and the network.
LEMMA OrderClients ==
    ASSUME IInv, LoginOrder, NEW c \in Conns, ClientNext(c)
    PROVE  LoginOrder'
  <1> DEFINE Kept == \A d \in Conns : LoginLeads(d)' /\ (Told(d) => Told(d)')
  <1>1. /\ conn \in [Conns -> Connection]
        /\ \A s \in Occupied : s \in Slots /\ slots[s].sock \in Conns
        /\ \A d \in Conns : LoginLeads(d)
    BY DEF IInv, TypeOK, Occupied, ClientInfo, LoginOrder
  <1>2. UNCHANGED serverVars
    BY ClientsLeaveServer
  <1>3. RepliesAreReplies'
    BY <1>2 DEF serverVars, LoginOrder, RepliesAreReplies
  <1>4. ASSUME Kept PROVE LoginOrder'
    <2>1. LoginTold'
      BY <1>1, <1>2, <1>4, ToldKept DEF LoginOrder, Occupied, serverVars
    <2> QED BY <1>3, <1>4, <2>1 DEF LoginOrder
  <1>5. CASE Connect(c) \/ SendUpgrade(c) \/ Send(c) \/ Finish(c) \/ Vanish(c)
    <2> DEFINE Same == \A d \in Conns :
                          /\ conn'[d].outq = conn[d].outq /\ conn'[d].loggedIn = conn[d].loggedIn
                          /\ conn[d].peer = "gone" => conn'[d].peer = "gone"
    <2>1. Same
      <3>1. ASSUME NEW p, conn[c].peer # "gone", conn' = [conn EXCEPT ![c].peer = p] PROVE Same
        BY <1>1, <3>1 DEF Connection
      <3>2. SendUpgrade(c) => Same
        BY <1>1 DEF SendUpgrade, Connection
      <3>3. ASSUME NEW q, conn' = [conn EXCEPT ![c].inq = q] PROVE Same
        BY <1>1, <3>3 DEF Connection
      <3>4. Send(c) => Same
        BY <3>3 DEF Send
      <3>5. Finish(c) => Same
        BY <3>3 DEF Finish
      <3>6. Connect(c) \/ Vanish(c) => Same
        BY <3>1 DEF Connect, Vanish, Alive
      <3> QED BY <1>5, <3>2, <3>4, <3>5, <3>6
    <2>2. Kept
      BY <1>1, <2>1, StreamKept
    <2> QED BY <1>4, <2>2
  <1>6. CASE Read(c)
    <2>1. /\ conn[c].outq # <<>> /\ conn[c].peer # "gone"
          /\ conn'[c].outq = Tail(conn[c].outq)
          /\ \A d \in Conns \ {c} : conn'[d] = conn[d]
      BY <1>1, <1>6 DEF Read, Alive, Connection
    <2>2. conn'[c].loggedIn = (conn[c].loggedIn \/ Head(conn[c].outq).kind = "auth_ok")
      BY <1>1, <1>6 DEF Read, Connection
    <2>3. Kept
      BY <1>1, <2>1, <2>2, StreamKept, MessageRead
    <2> QED BY <1>4, <2>3
  <1>7. CASE Leave(c) \/ Expire(c) \/ Abort(c)
    <2>1. CASE /\ conn'[c].peer = "gone" /\ conn'[c].outq = <<>>
               /\ \A d \in Conns \ {c} : conn'[d] = conn[d]
      <3>1. Kept
        BY <1>1, <2>1, StreamKept, StreamEmptied DEF Told
      <3> QED BY <1>4, <3>1
    <2>2. CASE c \in Range(backlog) /\ conn' = [conn EXCEPT ![c] = Unused]
      <3>1. \A s \in Occupied : slots[s].sock # c
        BY <2>2 DEF IInv, HandlesAccounted
      <3>2. conn'[c].outq = <<>> /\ \A d \in Conns \ {c} : conn'[d] = conn[d]
        BY <1>1, <2>2 DEF Unused
      <3>3. \A d \in Conns : LoginLeads(d)'
        BY <1>1, <3>2, StreamKept, StreamEmptied
      <3>4. \A d \in Conns \ {c} : Told(d) => Told(d)'
        BY <3>2, StreamKept
      <3>5. LoginTold'
        BY <1>1, <1>2, <3>1, <3>4, ToldKept DEF LoginOrder, Occupied, serverVars
      <3> QED BY <1>3, <3>3, <3>5 DEF LoginOrder
    <2> QED BY <1>1, <1>7, <2>1, <2>2 DEF Leave, Expire, Abort, Range, Connection
  <1> QED BY <1>5, <1>6, <1>7 DEF ClientNext
-----------------------------------------------------------------------------
(* The theorem.                                                            *)

LEMMA OrderInitially == Init => LoginOrder
  BY DEF Init, LoginOrder, LoginTold, LoginLeads, RepliesAreReplies, Occupied, SlotFor, Unused

LEMMA OrderPreserved == IInv /\ LoginOrder /\ [Next]_vars => LoginOrder'
  <1> SUFFICES ASSUME IInv, LoginOrder, [Next]_vars PROVE LoginOrder'
    OBVIOUS
  <1>1. CASE UNCHANGED vars
    BY <1>1 DEF vars, LoginOrder, LoginTold, LoginLeads, Told, RepliesAreReplies, Occupied
  <1> QED BY <1>1, OrderServer, OrderClients DEF Next

\* In every stream the reply that logged its client in precedes the locations
\* (protocol.c:53-204, server.c:255-275).
THEOREM OrderInvariance == Spec => []LoginOrder
  BY OrderInitially, OrderPreserved, Invariance, PTL DEF Spec

\* A location that a client finds in its stream was relayed to a slot whose
\* login it has read by then, for any number of clients, any buffers and any
\* reuse of slots and handles (handle_auth, server_broadcast).
THEOREM RelayFollowsLogin == Spec => []LoginBeforeLocations
  <1>1. IInv /\ LoginOrder => LoginBeforeLocations
    <2> SUFFICES ASSUME IInv, LoginOrder, NEW c \in Conns,
                        conn[c].outq # <<>>, Head(conn[c].outq).kind = "location"
                 PROVE  conn[c].loggedIn
      BY DEF LoginBeforeLocations
    <2>1. conn[c].outq \in Seq(Message)
      BY DEF IInv, TypeOK, Connection
    <2>2. 1 \in DOMAIN conn[c].outq /\ conn[c].outq[1].kind = "location"
      BY <2>1
    <2>3. \A l \in 1 .. 1 - 1 : FALSE
      OBVIOUS
    <2> QED BY <2>2, <2>3 DEF LoginOrder, LoginLeads
  <1> QED BY <1>1, Invariance, OrderInvariance, PTL
-----------------------------------------------------------------------------
(* The refinement.                                                         *)

\* server_broadcast starts at the first slot.
FromFirstSlot == pc # "relay" => j = 1

\* Only accepted clients are written to: whoever still waits for the handshake
\* has an empty stream.
OnlyServedWritten ==
    \A c \in Conns : conn[c].outq # <<>> => \E s \in Occupied : slots[s].sock = c

\* A location is posted for a client that is logged in.
SenderLoggedIn == pc = "post" /\ work.kind = "location" => slots[i].authenticated

RelayInv == FromFirstSlot /\ OnlyServedWritten /\ SenderLoggedIn
-----------------------------------------------------------------------------
(* The invariant.                                                          *)

LEMMA RelayInitially == Init => RelayInv
  BY DEF Init, RelayInv, FromFirstSlot, OnlyServedWritten, SenderLoggedIn, Unused

LEMMA RelayInvServer ==
    ASSUME IInv, RelayInv, ServerNext \/ BackendNext \/ Interrupt \/ Restart
    PROVE  RelayInv'
  <1>1. /\ slots \in [Slots -> ClientInfo] /\ conn \in [Conns -> Connection]
        /\ \A s \in Occupied : s \in Slots /\ slots[s].sock \in Conns
        /\ OnlyServedWritten /\ FromFirstSlot /\ SenderLoggedIn /\ TypeOK /\ Phase
    BY DEF IInv, TypeOK, Occupied, ClientInfo, RelayInv
  <1> DEFINE Same == \A c \in Conns : conn'[c].outq = conn[c].outq
  <1>2. ASSUME UNCHANGED slots, Same PROVE OnlyServedWritten'
    BY <1>1, <1>2 DEF OnlyServedWritten, Occupied
  <1>3. ASSUME \A c \in Conns : conn'[c].outq = <<>> PROVE OnlyServedWritten'
    BY <1>3 DEF OnlyServedWritten
  <1>4. ASSUME ~Up PROVE \A c \in Conns : conn[c].outq = <<>>
    BY <1>1, <1>4 DEF Phase, Unused
  <1>5. ServerInit \/ ServerInitFails \/ Shutdown \/ (Crash /\ pc = "scan") \/ Restart => RelayInv'
    <2>1. ServerInit \/ ServerInitFails \/ Restart => ~Up /\ conn' = conn /\ j' = j
                                                      /\ pc' \notin {"post", "relay"} /\ pc # "relay"
      BY DEF ServerInit, ServerInitFails, Restart, Up, Exited
    <2>2. Shutdown \/ (Crash /\ pc = "scan") => /\ conn' = [c \in Conns |-> Unused] /\ j' \in {1, j}
                                                /\ pc' \notin {"post", "relay"} /\ pc # "relay"
      BY DEF Shutdown, Crash
    <2> QED BY <1>1, <1>3, <1>4, <2>1, <2>2 DEF RelayInv, FromFirstSlot, SenderLoggedIn, Unused
  <1>6. Interrupt \/ Select \/ AcceptNothing \/ Accept \/ ScanDone \/ RelayDone => RelayInv'
    <2>1. Interrupt \/ Select \/ AcceptNothing \/ Accept \/ ScanDone \/ RelayDone =>
            UNCHANGED <<slots, conn>>
      BY DEF Interrupt, Select, AcceptNothing, Accept, ScanDone, RelayDone
    <2>2. Interrupt \/ Select \/ AcceptNothing \/ Accept \/ ScanDone \/ RelayDone =>
            FromFirstSlot' /\ SenderLoggedIn'
      BY <1>1 DEF Interrupt, Select, AcceptNothing, Accept, ScanDone, RelayDone, FromFirstSlot,
                  SenderLoggedIn
    <2> QED BY <1>2, <2>1, <2>2 DEF RelayInv
  <1>7. ASSUME NEW s \in Slots, HandshakeOk(s) PROVE RelayInv'
    <2>1. cur \in Conns /\ s \notin Occupied /\ pc = "handshake"
      BY <1>1, <1>7 DEF HandshakeOk, Phase, TypeOK, FirstFree
    <2>2. /\ slots'[s].sock = cur /\ \A t \in Slots \ {s} : slots'[t] = slots[t]
          /\ \A c \in Conns \ {cur} : conn'[c].outq = conn[c].outq
      BY <1>1, <1>7, <2>1 DEF HandshakeOk, SlotFor, Taken, Connection
    <2>3. OnlyServedWritten'
      BY <1>1, <2>1, <2>2, NilAssumption DEF OnlyServedWritten, Occupied
    <2> QED BY <1>1, <1>7, <2>3 DEF RelayInv, FromFirstSlot, SenderLoggedIn, HandshakeOk
  <1>8. HandshakeFailed => RelayInv'
    <2>1. ASSUME HandshakeFailed PROVE RelayInv'
      <3>1. cur \in Conns /\ slots' = slots /\ conn' = [conn EXCEPT ![cur] = Unused]
        BY <1>1, <2>1 DEF HandshakeFailed, Phase, TypeOK
      <3>2. \A c \in Conns : conn'[c].outq # <<>> => conn[c].outq # <<>>
        BY <1>1, <3>1 DEF Unused
      <3>3. OnlyServedWritten'
        BY <1>1, <3>1, <3>2 DEF OnlyServedWritten, Occupied
      <3> QED BY <1>1, <2>1, <3>3 DEF RelayInv, FromFirstSlot, SenderLoggedIn, HandshakeFailed
    <2> QED BY <2>1
  <1>9. ASSUME NEW s \in Slots, Disconnect(s) PROVE RelayInv'
    <2>1. s \in Occupied /\ slots[s].sock \in Conns /\ pc = "scan"
      BY <1>1, <1>9, ReadingSocket DEF Disconnect
    <2>2. /\ conn'[slots[s].sock].outq = <<>>
          /\ \A c \in Conns \ {slots[s].sock} : conn'[c].outq = conn[c].outq
          /\ \A t \in Slots \ {s} : slots'[t] = slots[t]
      BY <1>1, <1>9, <2>1 DEF Disconnect, Unused
    <2>3. OnlyServedWritten'
      BY <1>1, <2>1, <2>2 DEF OnlyServedWritten, Occupied
    <2> QED BY <1>1, <1>9, <2>1, <2>3 DEF RelayInv, FromFirstSlot, SenderLoggedIn, Disconnect
  <1>10. ASSUME NEW s \in Slots,
                Ignore(s) \/ Ping(s) \/ Credentials(s) \/ Unauthorized(s) \/ Location(s)
         PROVE  RelayInv'
    <2>1. /\ slots[s].sock \in Conns /\ conn' = Taken(slots[s].sock) /\ slots' = slots /\ j' = j
          /\ pc = "scan" /\ pc' \in {"scan", "reply", "post", "relay"} /\ i' \in {s, s + 1}
      BY <1>1, <1>10, ReadingSocket DEF Ignore, Ping, Credentials, Unauthorized, Location, Handle
    <2>2. Same
      BY <1>1, <2>1 DEF Taken, Connection
    <2>3. OnlyServedWritten'
      BY <1>2, <2>1, <2>2
    <2>4. FromFirstSlot'
      BY <1>1, <2>1 DEF FromFirstSlot
    <2>5. SenderLoggedIn'
      <3>1. CASE Location(s)
        BY <2>1, <3>1 DEF Location, Handle, SenderLoggedIn
      <3>2. CASE Credentials(s)
        <4>1. pc' = "post" => work'.kind \in {"auth", "register"}
          BY <1>1, <3>2, ReadingSocket DEF Credentials, Handle
        <4> QED BY <4>1 DEF SenderLoggedIn
      <3>3. CASE Ignore(s) \/ Ping(s) \/ Unauthorized(s)
        BY <2>1, <3>3 DEF Ignore, Ping, Unauthorized, Handle, SenderLoggedIn
      <3> QED BY <1>10, <3>1, <3>2, <3>3
    <2> QED BY <2>3, <2>4, <2>5 DEF RelayInv
  <1>11. ASSUME NEW s \in Slots, NullPayload(s) PROVE RelayInv'
    <2>1. Crash /\ pc = "scan"
      BY <1>11 DEF NullPayload, Reading
    <2> QED BY <1>5, <2>1
  <1>12. ASSUME NEW r, LoginReturn(r) PROVE RelayInv'
    <2>1. i \in Slots /\ slots[i].sock \in Conns /\ i \in Occupied
      BY <1>1, <1>12 DEF LoginReturn, Phase
    <2>2. \A t \in Slots : slots'[t].sock = slots[t].sock
      BY <1>1, <1>12, <2>1 DEF LoginReturn, ClientInfo
    <2>3. Same
      BY <1>1, <1>12, <2>1 DEF LoginReturn, Connection
    <2>4. OnlyServedWritten'
      BY <1>1, <2>2, <2>3 DEF OnlyServedWritten, Occupied
    <2> QED BY <1>1, <1>12, <2>4 DEF RelayInv, FromFirstSlot, SenderLoggedIn, LoginReturn
  <1>13. ASSUME NEW r, StoreReturn(r) PROVE RelayInv'
    BY <1>1, <1>2, <1>13 DEF RelayInv, FromFirstSlot, SenderLoggedIn, StoreReturn
  <1>14. Reply => RelayInv'
    <2>1. ASSUME Reply PROVE RelayInv'
      <3>1. slots[i].sock \in Conns /\ i \in Occupied /\ slots' = slots /\ conn' = Written(slots[i].sock, work)
        BY <1>1, <2>1 DEF Reply, Phase
      <3>2. \A c \in Conns \ {slots[i].sock} : conn'[c].outq = conn[c].outq
        BY <1>1, <3>1 DEF Written
      <3>3. OnlyServedWritten'
        BY <1>1, <3>1, <3>2 DEF OnlyServedWritten, Occupied
      <3> QED BY <1>1, <2>1, <3>3 DEF RelayInv, FromFirstSlot, SenderLoggedIn, Reply
    <2> QED BY <2>1
  <1>15. ASSUME NEW s \in Slots, RelayTo(s) PROVE RelayInv'
    <2> DEFINE m == [kind |-> "location", arg |-> work.arg]
    <2>1. slots[s].sock \in Conns /\ s \in Occupied /\ slots' = slots /\ conn' = Written(slots[s].sock, m)
      BY <1>1, <1>15 DEF RelayTo, NextInAudience, Audience
    <2>2. \A c \in Conns \ {slots[s].sock} : conn'[c].outq = conn[c].outq
      BY <1>1, <2>1 DEF Written
    <2>3. OnlyServedWritten'
      BY <1>1, <2>1, <2>2 DEF OnlyServedWritten, Occupied
    <2> QED BY <1>1, <1>15, <2>3 DEF RelayInv, FromFirstSlot, SenderLoggedIn, RelayTo
  <1> HIDE DEF Same
  <1> QED BY <1>5, <1>6, <1>7, <1>8, <1>9, <1>10, <1>11, <1>12, <1>13, <1>14, <1>15
          DEF ServerNext, BackendNext, HttpReturn

LEMMA RelayInvClients ==
    ASSUME IInv, RelayInv, NEW c \in Conns, ClientNext(c)
    PROVE  RelayInv'
  <1>1. UNCHANGED serverVars
    BY ClientsLeaveServer
  <1>2. conn \in [Conns -> Connection] /\ conn[c].outq \in Seq(Message)
    BY ConnectionFields DEF IInv, TypeOK
  <1>3. \A d \in Conns : conn'[d].outq # <<>> => conn[d].outq # <<>>
    <2>1. CASE Connect(c) \/ SendUpgrade(c) \/ Send(c) \/ Finish(c) \/ Vanish(c)
      <3>1. \A d \in Conns : conn'[d].outq = conn[d].outq
        BY <1>2, <2>1 DEF Connect, SendUpgrade, Send, Finish, Vanish, Connection
      <3> QED BY <3>1
    <2>2. CASE Read(c)
      BY <1>2, <2>2 DEF Read, Connection
    <2>3. CASE Leave(c)
      BY <1>2, <2>3 DEF Leave, Connection
    <2>4. CASE Abort(c)
      <3>1. CASE conn' = [conn EXCEPT ![c] = Unused]
        BY <1>2, <3>1 DEF Unused
      <3>2. CASE conn' = [conn EXCEPT ![c].peer = "gone", ![c].inq = <<>>, ![c].outq = <<>>]
        BY <1>2, <3>2 DEF Connection
      <3> QED BY <2>4, <3>1, <3>2 DEF Abort
    <2>5. CASE Expire(c)
      BY <1>2, <2>5 DEF Expire, Connection
    <2> QED BY <2>1, <2>2, <2>3, <2>4, <2>5 DEF ClientNext
  <1> QED BY <1>1, <1>3 DEF serverVars, RelayInv, FromFirstSlot, OnlyServedWritten, SenderLoggedIn,
                            Occupied

LEMMA RelayInvPreserved == IInv /\ RelayInv /\ [Next]_vars => RelayInv'
  <1> SUFFICES ASSUME IInv, RelayInv, [Next]_vars PROVE RelayInv'
    OBVIOUS
  <1>1. CASE UNCHANGED vars
    BY <1>1 DEF vars, RelayInv, FromFirstSlot, OnlyServedWritten, SenderLoggedIn, Occupied
  <1> QED BY <1>1, RelayInvServer, RelayInvClients DEF Next
-----------------------------------------------------------------------------
(* Streams as the abstract relay sees them.                                *)

\* What Append returns, element by element.
LEMMA AppendIs ==
    ASSUME NEW S, NEW q \in Seq(S), NEW e \in S
    PROVE  Append(q, e) = [k \in 1 .. Len(q) + 1 |-> IF k = Len(q) + 1 THEN e ELSE q[k]]
  <1> DEFINE t == Append(q, e)
  <1>1. t \in Seq(S) /\ Len(t) = Len(q) + 1 /\ Len(q) \in Nat
    OBVIOUS
  <1>2. t[Len(q) + 1] = e /\ \A k \in 1 .. Len(q) : t[k] = q[k]
    OBVIOUS
  <1> HIDE DEF t
  <1>3. t = [k \in 1 .. Len(t) |-> t[k]]
    BY <1>1
  <1>4. \A k \in 1 .. Len(t) : t[k] = IF k = Len(q) + 1 THEN e ELSE q[k]
    BY <1>1, <1>2
  <1>5. t = [k \in 1 .. Len(q) + 1 |-> IF k = Len(q) + 1 THEN e ELSE q[k]]
    BY <1>1, <1>3, <1>4
  <1> QED BY <1>5 DEF t

LEMMA SeenType == \A m \in Message : Seen(m) \in Places \union {Nil}
  BY DEF Message, Seen

LEMMA SeenInType ==
    ASSUME NEW q \in Seq(Message)
    PROVE  /\ SeenIn(q) \in Seq(Places \union {Nil})
           /\ Len(SeenIn(q)) = Len(q)
           /\ \A k \in 1 .. Len(q) : SeenIn(q)[k] = Seen(q[k])
  <1>1. /\ DOMAIN q = 1 .. Len(q) /\ Len(q) \in Nat
        /\ \A k \in 1 .. Len(q) : q[k] \in Message
    OBVIOUS
  <1>2. SeenIn(q) = [k \in 1 .. Len(q) |-> Seen(q[k])]
    BY <1>1 DEF SeenIn
  <1>3. SeenIn(q) \in [1 .. Len(q) -> Places \union {Nil}]
    BY <1>1, <1>2, SeenType
  <1> HIDE DEF SeenIn
  <1>4. SeenIn(q) \in Seq(Places \union {Nil}) /\ Len(SeenIn(q)) = Len(q)
    BY <1>1, <1>3
  <1> QED BY <1>2, <1>4

\* A message that is written is seen last; one that is read was seen first.
LEMMA SeenAppended ==
    ASSUME NEW q \in Seq(Message), NEW m \in Message
    PROVE  SeenIn(Append(q, m)) = Append(SeenIn(q), Seen(m))
  <1> DEFINE n == Len(q)
             t == Append(q, m)
             v == SeenIn(q)
             e == Seen(m)
  <1>1. n \in Nat /\ DOMAIN t = 1 .. n + 1 /\ t[n + 1] = m /\ \A k \in 1 .. n : t[k] = q[k]
    OBVIOUS
  <1>2. SeenIn(t) = [k \in 1 .. n + 1 |-> Seen(t[k])]
    BY <1>1 DEF SeenIn
  <1>3. v \in Seq(Places \union {Nil}) /\ Len(v) = n /\ \A k \in 1 .. n : v[k] = Seen(q[k])
    BY SeenInType
  <1>4. Seen(m) \in Places \union {Nil}
    BY SeenType
  <1> HIDE DEF n, t, v
  <1>5. Append(v, e) = [k \in 1 .. n + 1 |-> IF k = n + 1 THEN e ELSE v[k]]
    BY <1>3, <1>4, AppendIs
  <1>6. \A k \in 1 .. n + 1 : Seen(t[k]) = IF k = n + 1 THEN e ELSE v[k]
    BY <1>1, <1>3
  <1>7. SeenIn(t) = Append(v, e)
    BY <1>2, <1>5, <1>6
  <1> QED BY <1>7 DEF t, v, e

LEMMA SeenTail ==
    ASSUME NEW q \in Seq(Message), q # <<>>
    PROVE  SeenIn(Tail(q)) = Tail(SeenIn(q)) /\ SeenIn(q) # <<>>
  <1> DEFINE n == Len(q)
             t == Tail(q)
             v == SeenIn(q)
             w == Tail(v)
  <1>1. /\ n \in Nat \ {0} /\ t \in Seq(Message) /\ Len(t) = n - 1
        /\ \A k \in 1 .. n - 1 : t[k] = q[k + 1]
    OBVIOUS
  <1>2. v \in Seq(Places \union {Nil}) /\ Len(v) = n /\ \A k \in 1 .. n : v[k] = Seen(q[k])
    BY SeenInType
  <1>3. /\ SeenIn(t) \in Seq(Places \union {Nil}) /\ Len(SeenIn(t)) = n - 1
        /\ \A k \in 1 .. n - 1 : SeenIn(t)[k] = Seen(t[k])
    BY <1>1, SeenInType
  <1> HIDE DEF n, v, t
  <1>4. v # <<>> /\ w \in Seq(Places \union {Nil}) /\ Len(w) = n - 1
        /\ \A k \in 1 .. n - 1 : w[k] = v[k + 1]
    BY <1>1, <1>2
  <1> HIDE DEF w
  <1>5. \A k \in 1 .. n - 1 : SeenIn(t)[k] = w[k]
    BY <1>1, <1>2, <1>3, <1>4
  <1>6. SeenIn(t) = [k \in 1 .. n - 1 |-> SeenIn(t)[k]] /\ w = [k \in 1 .. n - 1 |-> w[k]]
    BY <1>1, <1>3, <1>4
  <1>7. SeenIn(t) = w
    BY <1>5, <1>6
  <1> QED BY <1>4, <1>7 DEF t, v, w

LEMMA SeenEmpty == SeenIn(<<>>) = <<>>
  BY DEF SeenIn
-----------------------------------------------------------------------------
(* What a step does to the state of the abstract relay.                    *)

LEMMA InboxKept ==
    ASSUME \A d \in Conns : conn'[d].outq = conn[d].outq
    PROVE  Inbox' = Inbox
  BY DEF Inbox

LEMMA InboxChanged ==
    ASSUME NEW c \in Conns, NEW q, conn'[c].outq = q,
           \A d \in Conns \ {c} : conn'[d].outq = conn[d].outq
    PROVE  Inbox' = [Inbox EXCEPT ![c] = SeenIn(q)] /\ Inbox[c] = SeenIn(conn[c].outq)
  BY DEF Inbox

LEMMA EndedKept ==
    ASSUME \A d \in Conns : conn'[d].peer = "gone" <=> conn[d].peer = "gone"
    PROVE  Ended' = Ended
  BY DEF Ended

LEMMA MembersKept ==
    ASSUME \A s \in Slots : /\ slots'[s].sock = slots[s].sock
                            /\ slots'[s].authenticated = slots[s].authenticated
    PROVE  Occupied' = Occupied /\ Members' = Members
  <1>1. Occupied' = Occupied
    BY DEF Occupied
  <1>2. {t \in Occupied' : slots'[t].authenticated} = {t \in Occupied : slots[t].authenticated}
    BY <1>1 DEF Occupied
  <1> QED BY <1>1, <1>2 DEF Members, Occupied

LEMMA ProgressKept ==
    ASSUME \/ pc # "relay" /\ pc' # "relay"
           \/ UNCHANGED <<pc, i, j, work, slots>>
    PROVE  InProgress' = InProgress
  BY DEF InProgress, Audience, Occupied

LEMMA Quiet == pc # "relay" => InProgress = {}
  BY DEF InProgress

\* A message is written to a connection that is not over.
LEMMA MessageArrives ==
    ASSUME conn \in [Conns -> Connection], NEW c \in Conns, NEW m \in Message,
           conn[c].peer # "gone", conn' = Written(c, m)
    PROVE  Inbox' = [Inbox EXCEPT ![c] = Append(@, Seen(m))] /\ Ended' = Ended
  <1>1. /\ conn'[c].outq = Append(conn[c].outq, m) /\ conn[c].outq \in Seq(Message)
        /\ \A d \in Conns \ {c} : conn'[d] = conn[d]
        /\ conn'[c].peer = conn[c].peer
    BY DEF Written, Connection
  <1> PICK q \in Seq(Message) : q = conn[c].outq
    BY <1>1
  <1>2. /\ Inbox' = [Inbox EXCEPT ![c] = SeenIn(Append(q, m))] /\ Inbox[c] = SeenIn(q)
    BY <1>1, InboxChanged
  <1>3. SeenIn(Append(q, m)) = Append(SeenIn(q), Seen(m))
    BY SeenAppended
  <1>4. Inbox' = [Inbox EXCEPT ![c] = Append(@, Seen(m))]
    BY <1>2, <1>3
  <1>5. \A d \in Conns : conn'[d].peer = conn[d].peer
    BY <1>1
  <1> QED BY <1>4, <1>5, EndedKept

\* What has to be shown of each step.
AbstractStep == [Relay!Next]_(Relay!vars)

LEMMA Stutters ==
    ASSUME Members' = Members, Ended' = Ended, InProgress' = InProgress, Inbox' = Inbox
    PROVE  AbstractStep
  BY DEF AbstractStep, Relay!vars
-----------------------------------------------------------------------------
(* Every step of the server is a step of the abstract relay or none.       *)

\* Two slots never hold one socket, so that taking a slot out of a set takes
\* its client out of the set's clients, and no other.
LEMMA ClientsOf ==
    ASSUME HandlesAccounted, NEW S \in SUBSET Occupied, NEW s \in Occupied
    PROVE  {slots[t].sock : t \in S \ {s}} = {slots[t].sock : t \in S} \ {slots[s].sock}
  BY DEF HandlesAccounted

\* server_broadcast is entered for the message of slot s.
LEMMA RelayBegins ==
    ASSUME IInv, NEW s \in Occupied, slots[s].authenticated, UNCHANGED slots,
           pc # "relay", pc' = "relay", i' = s, j' = 1, work'.arg \in Places,
           Inbox' = Inbox, Ended' = Ended, Members' = Members
    PROVE  AbstractStep
  <1>1. /\ slots[s].sock \in Conns /\ HandlesAccounted /\ s \in Slots
        /\ \A t \in Slots : t >= 1
    BY DEF IInv, TypeOK, Occupied, ClientInfo, Slots
  <1> PICK c \in Conns : c = slots[s].sock
    BY <1>1
  <1> PICK m \in Places : m = work'.arg
    OBVIOUS
  <1> DEFINE S == {t \in Occupied : slots[t].authenticated}
             todo == {slots[t].sock : t \in S \ {s}}
  <1>2. Audience' = {t \in Occupied : slots[t].sock # c /\ slots[t].authenticated}
    BY <1>1 DEF Audience, Occupied
  <1>3. Audience' = S \ {s}
    BY <1>1, <1>2 DEF HandlesAccounted
  <1>4. {slots'[t].sock : t \in Audience'} = todo
    BY <1>3
  <1>5. InProgress' = {[msg |-> m, todo |-> todo]}
    BY <1>4 DEF InProgress
  <1>6. todo = Members \ {c} /\ c \in Members
    BY <1>1, ClientsOf DEF Members
  <1>7. InProgress = {}
    BY Quiet
  <1>8. Relay!Publish(c, m)
    BY <1>5, <1>6, <1>7 DEF Relay!Publish, Relay!Idle
  <1> QED BY <1>8 DEF AbstractStep, Relay!Next

LEMMA ProcessImplements ==
    ASSUME IInv, RelayInv,
           \/ ServerInit \/ ServerInitFails \/ Restart \/ Shutdown \/ (Crash /\ pc = "scan")
           \/ Interrupt \/ Select \/ AcceptNothing \/ Accept \/ ScanDone
    PROVE  AbstractStep
  <1>1. Phase /\ slots \in [Slots -> ClientInfo]
    BY DEF IInv, TypeOK
  <1>2. CASE ServerInit \/ ServerInitFails \/ Restart
    <2>1. pc # "relay" /\ pc' # "relay" /\ conn' = conn /\ ~Up
      BY <1>2 DEF ServerInit, ServerInitFails, Restart, Up, Exited
    <2>2. Occupied = {} /\ Occupied' = {}
      BY <1>1, <1>2, <2>1 DEF Phase, ServerInit, ServerInitFails, Restart, Occupied, SlotFor
    <2>3. Members' = Members
      BY <2>2 DEF Members
    <2> QED BY <2>1, <2>3, InboxKept, EndedKept, ProgressKept, Stutters
  <1>3. CASE Shutdown \/ (Crash /\ pc = "scan")
    <2>1. pc # "relay" /\ pc' # "relay" /\ conn' = [c \in Conns |-> Unused]
      BY <1>3 DEF Shutdown, Crash
    <2>2. Occupied' = {}
      BY <1>1, <1>3, NilAssumption DEF Shutdown, Crash, Occupied, SlotFor, ClientInfo
    <2>3. Members' = {} /\ Ended' = {} /\ InProgress = {} /\ InProgress' = InProgress
      BY <2>1, <2>2 DEF Members, Ended, InProgress, Unused
    <2>4. Inbox' = [c \in Conns |-> <<>>]
      BY <2>1, SeenEmpty DEF Inbox, Unused
    <2>5. Relay!Stop
      BY <2>3, <2>4 DEF Relay!Stop, Relay!Idle
    <2> QED BY <2>5 DEF AbstractStep, Relay!Next
  <1>4. CASE Interrupt \/ Select \/ AcceptNothing \/ Accept \/ ScanDone
    <2>1. /\ UNCHANGED <<slots, conn>>
          /\ \/ pc # "relay" /\ pc' # "relay"
             \/ UNCHANGED <<pc, i, j, work, slots>>
      BY <1>4 DEF Interrupt, Select, AcceptNothing, Accept, ScanDone
    <2> QED BY <2>1, InboxKept, EndedKept, MembersKept, ProgressKept, Stutters
  <1> QED BY <1>2, <1>3, <1>4

LEMMA HandshakeImplements ==
    ASSUME IInv, RelayInv, HandshakeFailed \/ \E s \in Slots : HandshakeOk(s)
    PROVE  AbstractStep
  <1>1. Phase /\ slots \in [Slots -> ClientInfo] /\ conn \in [Conns -> Connection]
        /\ HandlesAccounted /\ OnlyServedWritten
    BY DEF IInv, TypeOK, RelayInv
  <1>2. cur \in Conns /\ pc = "handshake" /\ pc' = "scan"
    BY <1>1 DEF HandshakeFailed, HandshakeOk, Phase, IInv, TypeOK
  <1>3. InProgress = {} /\ InProgress' = InProgress
    BY <1>2, Quiet, ProgressKept
  <1> PICK c \in Conns : c = cur
    BY <1>2
  <1>4. \A s \in Occupied : slots[s].sock # c
    BY <1>1 DEF HandlesAccounted
  <1>5. c \notin Members
    BY <1>4 DEF Members
  <1>6. conn[c].outq = <<>>
    BY <1>1, <1>4 DEF OnlyServedWritten
  <1>7. CASE HandshakeFailed
    <2>1. slots' = slots /\ conn' = [conn EXCEPT ![c] = Unused]
      BY <1>7 DEF HandshakeFailed
    <2>2. conn'[c].outq = <<>> /\ conn'[c].peer = "none" /\ \A d \in Conns \ {c} : conn'[d] = conn[d]
      BY <1>1, <2>1 DEF Unused
    <2>3. Inbox' = [Inbox EXCEPT ![c] = <<>>]
      BY <2>2, InboxChanged, SeenEmpty
    <2>4. Ended' = Ended \ {c}
      BY <2>2 DEF Ended
    <2>5. Members' = Members \ {c}
      BY <1>5, <2>1, MembersKept
    <2>6. Relay!Remove(c)
      BY <1>3, <2>3, <2>4, <2>5 DEF Relay!Remove, Relay!Idle
    <2> QED BY <2>6 DEF AbstractStep, Relay!Next
  <1>8. ASSUME NEW s \in Slots, HandshakeOk(s) PROVE AbstractStep
    <2>1. /\ s \notin Occupied /\ slots' = [slots EXCEPT ![s] = SlotFor(c)]
          /\ conn' = [Taken(c) EXCEPT ![c].outq = IF conn[c].peer = "gone" THEN @
                                                  ELSE <<Switching>>]
      BY <1>8 DEF HandshakeOk, FirstFree
    <2>2. {t \in Occupied' : slots'[t].authenticated} = {t \in Occupied : slots[t].authenticated}
      BY <1>1, <2>1 DEF Occupied, SlotFor
    <2>3. \A t \in Occupied : slots'[t] = slots[t]
      BY <1>1, <2>1 DEF Occupied
    <2>4. Members' = Members
      BY <2>2, <2>3 DEF Members
    <2>6. /\ \A d \in Conns : conn'[d].peer = conn[d].peer
          /\ \A d \in Conns \ {c} : conn'[d].outq = conn[d].outq
          /\ conn'[c].outq = IF conn[c].peer = "gone" THEN conn[c].outq ELSE <<Switching>>
      BY <1>1, <2>1 DEF Taken, Connection
    <2>7. Ended' = Ended
      BY <2>6, EndedKept
    <2>8. CASE conn[c].peer = "gone"
      BY <1>3, <2>4, <2>6, <2>7, <2>8, InboxKept, Stutters
    <2>9. CASE conn[c].peer # "gone"
      <3>1. Inbox' = [Inbox EXCEPT ![c] = SeenIn(<<Switching>>)] /\ Inbox[c] = SeenIn(<<>>)
        BY <1>6, <2>6, <2>9, InboxChanged
      <3>2. <<>> \in Seq(Message) /\ <<Switching>> = Append(<<>>, Switching) /\ Seen(Switching) = Nil
        BY DEF Seen, Switching
      <3>3. SeenIn(<<Switching>>) = Append(SeenIn(<<>>), Nil)
        BY <3>2, SeenAppended, MessageTypes
      <3>4. Inbox' = [Inbox EXCEPT ![c] = Append(@, Nil)]
        BY <3>1, <3>3
      <3>5. c \notin Ended
        BY <2>9 DEF Ended
      <3>6. Relay!Reply(c)
        BY <1>3, <2>4, <2>7, <3>4, <3>5 DEF Relay!Reply, Relay!Idle
      <3> QED BY <3>6 DEF AbstractStep, Relay!Next
    <2> QED BY <2>8, <2>9
  <1> QED BY <1>7, <1>8

\* A frame is taken: nothing moves unless it is a location.
LEMMA ScanImplements ==
    ASSUME IInv, RelayInv, NEW s \in Slots,
           Ignore(s) \/ Ping(s) \/ Credentials(s) \/ Unauthorized(s) \/ Location(s) \/ Disconnect(s)
    PROVE  AbstractStep
  <1>1. Phase /\ slots \in [Slots -> ClientInfo] /\ conn \in [Conns -> Connection]
        /\ HandlesAccounted /\ TypeOK /\ FromFirstSlot
    BY DEF IInv, TypeOK, RelayInv
  <1>2. s \in Occupied /\ slots[s].sock \in Conns /\ pc = "scan"
    BY <1>1, ReadingSocket DEF Ignore, Ping, Credentials, Unauthorized, Location, Disconnect
  <1> PICK c \in Conns : c = slots[s].sock
    BY <1>2
  <1>3. InProgress = {}
    BY <1>2, Quiet
  <1>4. CASE Disconnect(s)
    <2>1. slots' = [slots EXCEPT ![s] = SlotFor(Nil)] /\ conn' = [conn EXCEPT ![c] = Unused] /\ pc' = pc
      BY <1>4 DEF Disconnect
    <2>2. conn'[c].outq = <<>> /\ conn'[c].peer = "none" /\ \A d \in Conns \ {c} : conn'[d] = conn[d]
      BY <1>1, <2>1 DEF Unused
    <2>3. Inbox' = [Inbox EXCEPT ![c] = <<>>]
      BY <2>2, InboxChanged, SeenEmpty
    <2>4. Ended' = Ended \ {c}
      BY <2>2 DEF Ended
    <2> DEFINE S == {t \in Occupied : slots[t].authenticated}
    <2>5. {t \in Occupied' : slots'[t].authenticated} = S \ {s} /\ \A t \in S \ {s} : slots'[t] = slots[t]
      BY <1>1, <2>1 DEF Occupied, SlotFor
    <2>6. Members' = {slots[t].sock : t \in S \ {s}}
      BY <2>5 DEF Members
    <2>7. Members' = Members \ {c}
      BY <1>1, <1>2, <2>6, ClientsOf DEF Members
    <2>8. InProgress' = InProgress
      BY <1>2, <2>1, ProgressKept
    <2>9. Relay!Remove(c)
      BY <1>3, <2>3, <2>4, <2>7, <2>8 DEF Relay!Remove, Relay!Idle
    <2> QED BY <2>9 DEF AbstractStep, Relay!Next
  <1>5. CASE Ignore(s) \/ Ping(s) \/ Credentials(s) \/ Unauthorized(s) \/ Location(s)
    <2>1. slots' = slots /\ conn' = Taken(c) /\ j' = j
      BY <1>5 DEF Ignore, Ping, Credentials, Unauthorized, Location, Handle
    <2>2. \A d \in Conns : conn'[d].outq = conn[d].outq /\ conn'[d].peer = conn[d].peer
      BY <1>1, <2>1 DEF Taken, Connection
    <2>3. Inbox' = Inbox /\ Ended' = Ended /\ Members' = Members /\ Occupied' = Occupied
      BY <2>1, <2>2, InboxKept, EndedKept, MembersKept
    <2>4. CASE pc' # "relay"
      BY <1>2, <2>3, <2>4, ProgressKept, Stutters
    <2>5. CASE pc' = "relay"
      <3>1. Location(s)
        BY <1>2, <1>5, <2>5 DEF Ignore, Ping, Credentials, Unauthorized, Handle
      <3>2. /\ slots[s].authenticated /\ i' = s /\ work' = Head(conn[c].inq)
            /\ Reading(s, {"bad_location"})
        BY <2>5, <3>1 DEF Location, Handle
      <3>3. Head(conn[c].inq) \in Arrivals /\ Head(conn[c].inq).kind = "bad_location"
        BY <1>1, <3>2, ReadingSocket, TakenType
      <3>4. work'.arg \in Places
        BY <3>2, <3>3, ArrivalArguments
      <3>5. j' = 1
        BY <1>2, <2>1 DEF FromFirstSlot, RelayInv
      <3> QED BY <1>2, <2>1, <2>3, <2>5, <3>2, <3>4, <3>5, RelayBegins
    <2> QED BY <2>4, <2>5
  <1> QED BY <1>4, <1>5

\* The backend answers, a reply is written.
LEMMA AnswersImplement ==
    ASSUME IInv, RelayInv, LoginOrder, Reply \/ \E r \in Results : HttpReturn(r)
    PROVE  AbstractStep
  <1>1. Phase /\ slots \in [Slots -> ClientInfo] /\ conn \in [Conns -> Connection]
        /\ HandlesAccounted /\ TypeOK /\ FromFirstSlot /\ SenderLoggedIn /\ RepliesAreReplies
    BY DEF IInv, TypeOK, RelayInv, LoginOrder
  <1>2. i \in Occupied /\ slots[i].sock \in Conns /\ pc \in {"post", "reply"}
    BY <1>1 DEF Reply, HttpReturn, LoginReturn, StoreReturn, Phase, Occupied, ClientInfo
  <1> PICK c \in Conns : c = slots[i].sock
    BY <1>2
  <1>3. InProgress = {}
    BY <1>2, Quiet
  <1>4. ASSUME NEW r \in Results, LoginReturn(r) PROVE AbstractStep
    <2>1. \A d \in Conns : conn'[d].outq = conn[d].outq /\ conn'[d].peer = conn[d].peer
      BY <1>1, <1>4 DEF LoginReturn, Connection
    <2>2. pc' # "relay"
      BY <1>4 DEF LoginReturn
    <2>3. Inbox' = Inbox /\ Ended' = Ended /\ InProgress' = InProgress
      BY <1>2, <2>1, <2>2, InboxKept, EndedKept, ProgressKept
    <2>4. CASE slots' = slots
      BY <2>3, <2>4, MembersKept, Stutters
    <2>5. CASE slots' = [slots EXCEPT ![i].authenticated = TRUE, ![i].user = work.arg]
      <3>1. /\ \A t \in Slots : slots'[t].sock = slots[t].sock
            /\ slots'[i].authenticated
            /\ \A t \in Slots \ {i} : slots'[t] = slots[t]
        BY <1>1, <1>2, <2>5 DEF ClientInfo, Occupied
      <3>2. {t \in Occupied' : slots'[t].authenticated} =
               {t \in Occupied : slots[t].authenticated} \union {i}
        BY <1>2, <3>1 DEF Occupied
      <3>3. Members' = Members \union {c}
        BY <3>1, <3>2 DEF Members, Occupied
      <3>4. Relay!Join(c)
        BY <1>3, <2>3, <3>3 DEF Relay!Join, Relay!Idle
      <3> QED BY <3>4 DEF AbstractStep, Relay!Next
    <2> QED BY <1>4, <2>4, <2>5 DEF LoginReturn
  <1>5. ASSUME NEW r \in Results, StoreReturn(r) PROVE AbstractStep
    <2>1. /\ pc = "post" /\ pc' = "relay" /\ UNCHANGED <<slots, conn, i, j, work>>
          /\ work.kind = "location"
      BY <1>5 DEF StoreReturn
    <2>2. Inbox' = Inbox /\ Ended' = Ended /\ Members' = Members
      BY <2>1, InboxKept, EndedKept, MembersKept
    <2>3. slots[i].authenticated /\ j' = 1 /\ work'.arg \in Places
      BY <1>1, <2>1 DEF SenderLoggedIn, FromFirstSlot, Phase
    <2> QED BY <1>2, <2>1, <2>2, <2>3, RelayBegins
  <1>6. ASSUME Reply PROVE AbstractStep
    <2>1. /\ pc = "reply" /\ pc' = "scan" /\ slots' = slots /\ conn' = Written(c, work)
          /\ work \in Message /\ Seen(work) = Nil
      BY <1>1, <1>6 DEF Reply, Phase, RepliesAreReplies, Seen
    <2>2. Members' = Members /\ InProgress' = InProgress
      BY <2>1, MembersKept, ProgressKept
    <2>3. CASE conn[c].peer = "gone"
      BY <2>1, <2>2, <2>3, InboxKept, EndedKept, Stutters DEF Written
    <2>4. CASE conn[c].peer # "gone"
      <3>1. c \notin Ended
        BY <2>4 DEF Ended
      <3>2. Relay!Reply(c)
        BY <1>1, <1>3, <2>1, <2>2, <2>4, <3>1, MessageArrives DEF Relay!Reply, Relay!Idle
      <3> QED BY <3>2 DEF AbstractStep, Relay!Next
    <2> QED BY <2>3, <2>4
  <1> QED BY <1>4, <1>5, <1>6 DEF HttpReturn

\* server_broadcast.
LEMMA BroadcastImplements ==
    ASSUME IInv, RelayDone \/ \E s \in Slots : RelayTo(s)
    PROVE  AbstractStep
  <1>1. Phase /\ slots \in [Slots -> ClientInfo] /\ conn \in [Conns -> Connection]
        /\ HandlesAccounted /\ TypeOK
    BY DEF IInv, TypeOK
  <1> DEFINE r == [msg |-> work.arg, todo |-> {slots[s].sock : s \in Audience}]
  <1>2. pc = "relay" /\ InProgress = {r}
    BY DEF RelayDone, RelayTo, InProgress
  <1>3. CASE RelayDone
    <2>1. r.todo = {} /\ pc' = "scan" /\ UNCHANGED <<slots, conn>>
      BY <1>3 DEF RelayDone
    <2>2. Inbox' = Inbox /\ Ended' = Ended /\ Members' = Members /\ InProgress' = {}
      BY <2>1, InboxKept, EndedKept, MembersKept DEF InProgress
    <2>3. \E x \in InProgress : x.todo = {}
      BY <1>2, <2>1
    <2>4. Relay!Finish
      BY <2>2, <2>3 DEF Relay!Finish
    <2> QED BY <2>4 DEF AbstractStep, Relay!Next
  <1>4. ASSUME NEW s \in Slots, RelayTo(s) PROVE AbstractStep
    <2> DEFINE m == [kind |-> "location", arg |-> work.arg]
    <2>1. /\ s \in Audience /\ \A t \in Audience : s <= t
          /\ slots' = slots /\ j' = s + 1 /\ pc' = "relay" /\ UNCHANGED <<i, work>>
          /\ conn' = Written(slots[s].sock, m)
      BY <1>4 DEF RelayTo, NextInAudience
    <2>2. s \in Occupied /\ slots[s].sock \in Conns /\ Audience \subseteq Occupied
      BY <1>1, <2>1 DEF Audience, Occupied, ClientInfo
    <2> PICK c \in Conns : c = slots[s].sock
      BY <2>2
    <2>3. Audience' = Audience \ {s}
      BY <1>1, <2>1, <2>2, ClientsAssumption DEF Audience, Occupied, Slots, TypeOK
    <2> DEFINE A == Audience
    <2>4. {slots'[t].sock : t \in Audience'} = r.todo \ {c}
      <3>1. A \in SUBSET Occupied
        BY <2>2
      <3>2. {slots[t].sock : t \in A \ {s}} = {slots[t].sock : t \in A} \ {slots[s].sock}
        <4> HIDE DEF A
        <4> QED BY <1>1, <2>2, <3>1, ClientsOf
      <3>3. r.todo = {slots[t].sock : t \in A}
        OBVIOUS
      <3> HIDE DEF r
      <3>4. {slots'[t].sock : t \in Audience'} = {slots[t].sock : t \in A \ {s}}
        BY <2>1, <2>3
      <3> QED BY <3>2, <3>3, <3>4
    <2>5. InProgress' = {[msg |-> work.arg, todo |-> r.todo \ {c}]}
      BY <2>1, <2>4 DEF InProgress
    <2>6. r \in InProgress /\ c \in r.todo /\ [r EXCEPT !.todo = @ \ {c}] = [msg |-> work.arg, todo |-> r.todo \ {c}]
      <3>1. r \in InProgress
        BY <1>2
      <3>2. c \in r.todo
        BY <2>1
      <3>3. [r EXCEPT !.todo = r.todo \ {c}] = [msg |-> work.arg, todo |-> r.todo \ {c}]
        <4>1. \A v, S : [[msg |-> v, todo |-> S] EXCEPT !.todo = S \ {c}] = [msg |-> v, todo |-> S \ {c}]
          OBVIOUS
        <4> QED BY <4>1
      <3> QED BY <3>1, <3>2, <3>3
    <2>7. InProgress' = {[r EXCEPT !.todo = @ \ {c}]} /\ r.msg = work.arg
      BY <2>5, <2>6
    <2>8. Members' = Members
      BY <2>1, MembersKept
    <2> HIDE DEF r
    <2>9. CASE conn[c].peer = "gone"
      <3>1. c \in Ended /\ Inbox' = Inbox /\ Ended' = Ended
        BY <2>1, <2>9, InboxKept, EndedKept DEF Ended, Written
      <3>2. Relay!Miss(c)
        BY <2>6, <2>7, <2>8, <3>1 DEF Relay!Miss
      <3> QED BY <3>2 DEF AbstractStep, Relay!Next
    <2>10. CASE conn[c].peer # "gone"
      <3>1. m \in Message /\ Seen(m) = r.msg
        BY <1>1, <1>2, <2>7, MessageTypes DEF Phase, Seen
      <3>2. c \notin Ended
        BY <2>10 DEF Ended
      <3>3. Inbox' = [Inbox EXCEPT ![c] = Append(@, r.msg)] /\ Ended' = Ended
        BY <1>1, <2>1, <2>10, <3>1, MessageArrives
      <3>4. Relay!Deliver(c)
        BY <2>6, <2>7, <2>8, <3>2, <3>3 DEF Relay!Deliver
      <3> QED BY <3>4 DEF AbstractStep, Relay!Next
    <2> QED BY <2>9, <2>10
  <1> QED BY <1>3, <1>4

\* The clients and the network.
LEMMA ClientsImplement ==
    ASSUME IInv, RelayInv, NEW c \in Conns, ClientNext(c)
    PROVE  AbstractStep
  <1>1. conn \in [Conns -> Connection] /\ HandlesAccounted /\ conn[c].outq \in Seq(Message)
    BY ConnectionFields DEF IInv, TypeOK
  <1>2. Members' = Members /\ InProgress' = InProgress
    BY ClientsLeaveServer, MembersKept, ProgressKept DEF serverVars
  <1>3. CASE Connect(c) \/ SendUpgrade(c) \/ Send(c) \/ Finish(c) \/ Vanish(c)
    <2>1. \A d \in Conns : /\ conn'[d].outq = conn[d].outq
                           /\ conn'[d].peer = "gone" <=> conn[d].peer = "gone"
      <3>1. CASE Connect(c)
        <4>1. conn' = [conn EXCEPT ![c].peer = "connecting"] /\ conn[c].peer = "none"
          BY <3>1 DEF Connect
        <4> QED BY <1>1, <4>1 DEF Connection
      <3>5. CASE Vanish(c)
        <4>1. conn' = [conn EXCEPT ![c].peer = "dead"] /\ conn[c].peer # "gone"
          BY <3>5 DEF Vanish, Alive
        <4> QED BY <1>1, <4>1 DEF Connection
      <3>2. CASE SendUpgrade(c)
        BY <1>1, <3>2 DEF SendUpgrade, Connection
      <3>3. CASE Send(c)
        BY <1>1, <3>3 DEF Send, Connection
      <3>4. CASE Finish(c)
        BY <1>1, <3>4 DEF Finish, Connection
      <3> QED BY <1>3, <3>1, <3>2, <3>3, <3>4, <3>5
    <2> QED BY <1>2, <2>1, InboxKept, EndedKept, Stutters
  <1>4. CASE Read(c)
    <2>1. /\ conn[c].outq # <<>> /\ conn'[c].outq = Tail(conn[c].outq)
          /\ conn[c].peer # "gone" /\ conn'[c].peer # "gone"
          /\ \A d \in Conns \ {c} : conn'[d] = conn[d]
      BY <1>1, <1>4 DEF Read, Connection, Alive
    <2>2. Inbox' = [Inbox EXCEPT ![c] = Tail(@)] /\ Inbox[c] # <<>>
      BY <1>1, <2>1, InboxChanged, SeenTail
    <2>3. Ended' = Ended /\ c \notin Ended
      BY <2>1, EndedKept DEF Ended
    <2>4. Relay!Receive(c)
      BY <1>2, <2>2, <2>3 DEF Relay!Receive
    <2> QED BY <2>4 DEF AbstractStep, Relay!Next
  <1>5. ASSUME conn'[c].outq = <<>>, conn'[c].peer = "gone",
               \A d \in Conns \ {c} : conn'[d] = conn[d]
        PROVE  AbstractStep
    <2>1. Inbox' = [Inbox EXCEPT ![c] = <<>>] /\ Ended' = Ended \union {c}
      BY <1>5, InboxChanged, SeenEmpty DEF Ended
    <2>2. Relay!End(c)
      BY <1>2, <2>1 DEF Relay!End
    <2> QED BY <2>2 DEF AbstractStep, Relay!Next
  <1>6. CASE Leave(c) \/ Expire(c)
    <2>1. conn' = [conn EXCEPT ![c].peer = "gone", ![c].outq = <<>>]
      BY <1>6 DEF Leave, Expire
    <2> QED BY <1>1, <1>5, <2>1 DEF Connection
  <1>7. CASE Abort(c)
    <2>1. CASE conn' = [conn EXCEPT ![c].peer = "gone", ![c].inq = <<>>, ![c].outq = <<>>]
      BY <1>1, <1>5, <2>1 DEF Connection
    <2>2. CASE c \in Range(backlog) /\ conn' = [conn EXCEPT ![c] = Unused]
      <3>1. conn[c].outq = <<>>
        BY <1>1, <2>2 DEF HandlesAccounted, OnlyServedWritten, RelayInv
      <3>2. conn[c].peer # "gone" /\ conn'[c].outq = <<>> /\ conn'[c].peer = "none"
            /\ \A d \in Conns \ {c} : conn'[d] = conn[d]
        BY <1>1, <1>7, <2>2 DEF Abort, Alive, Unused
      <3> QED BY <1>2, <3>1, <3>2, InboxKept, EndedKept, Stutters
    <2> QED BY <1>7, <2>1, <2>2 DEF Abort, Range
  <1> QED BY <1>3, <1>4, <1>6, <1>7 DEF ClientNext
-----------------------------------------------------------------------------
(* The results.                                                            *)

LEMMA InitImplements == Init => Relay!Init
  <1> SUFFICES ASSUME Init PROVE Relay!Init
    OBVIOUS
  <1>1. Members = {} /\ Ended = {} /\ InProgress = {}
    BY DEF Init, Members, Occupied, SlotFor, Ended, Unused, InProgress
  <1>2. Inbox = [c \in Conns |-> <<>>]
    BY SeenEmpty DEF Init, Inbox, Unused
  <1> QED BY <1>1, <1>2 DEF Relay!Init

LEMMA NextImplements == IInv /\ RelayInv /\ LoginOrder /\ [Next]_vars => [Relay!Next]_(Relay!vars)
  <1> SUFFICES ASSUME IInv, RelayInv, LoginOrder, [Next]_vars PROVE AbstractStep
    BY DEF AbstractStep
  <1>1. CASE UNCHANGED vars
    <2>1. UNCHANGED <<pc, i, j, work, slots, conn>>
      BY <1>1 DEF vars
    <2> QED BY <2>1, InboxKept, EndedKept, MembersKept, ProgressKept, Stutters
  <1>2. CASE BackendNext
    BY <1>2, AnswersImplement DEF BackendNext
  <1>3. CASE Interrupt \/ Restart
    BY <1>3, ProcessImplements
  <1>4. CASE \E c \in Conns : ClientNext(c)
    BY <1>4, ClientsImplement
  <1>5. CASE ServerNext
    <2>1. CASE \/ ServerInit \/ ServerInitFails \/ Shutdown \/ Select \/ AcceptNothing \/ Accept
               \/ ScanDone
      BY <2>1, ProcessImplements
    <2>2. CASE HandshakeFailed
      BY <2>2, HandshakeImplements
    <2>3. CASE Reply
      BY <2>3, AnswersImplement
    <2>4. CASE RelayDone
      BY <2>4, BroadcastImplements
    <2>5. ASSUME NEW s \in Slots,
                 \/ HandshakeOk(s) \/ Disconnect(s) \/ Ignore(s) \/ Ping(s)
                 \/ Credentials(s) \/ Unauthorized(s) \/ Location(s) \/ NullPayload(s)
                 \/ RelayTo(s)
          PROVE  AbstractStep
      <3>1. CASE HandshakeOk(s)
        BY <3>1, HandshakeImplements
      <3>2. CASE NullPayload(s)
        BY <3>2, ProcessImplements DEF NullPayload, Reading
      <3>3. CASE RelayTo(s)
        BY <3>3, BroadcastImplements
      <3>4. CASE Disconnect(s) \/ Ignore(s) \/ Ping(s) \/ Credentials(s) \/ Unauthorized(s) \/ Location(s)
        BY <3>4, ScanImplements
      <3> QED BY <2>5, <3>1, <3>2, <3>3, <3>4
    <2> QED BY <1>5, <2>1, <2>2, <2>3, <2>4, <2>5 DEF ServerNext
  <1> QED BY <1>1, <1>2, <1>3, <1>4, <1>5 DEF Next

\* Every behaviour of the server is one of the abstract relay (server.c:
\* 182-246, 255-275): each location is appended exactly once, in the
\* order of the relays, to the stream of every client that is logged in but its
\* sender, unless that client's connection has ended; and to no other stream.
THEOREM ServerImplementsRelay == Spec => RelaySpec
  <1>1. Init => IInv /\ RelayInv /\ LoginOrder /\ Relay!Init
    BY IInvInitially, RelayInitially, OrderInitially, InitImplements
  <1>2. IInv /\ RelayInv /\ LoginOrder /\ [Next]_vars =>
          IInv' /\ RelayInv' /\ LoginOrder' /\ [Relay!Next]_(Relay!vars)
    BY IInvPreserved, RelayInvPreserved, OrderPreserved, NextImplements
  <1> QED BY <1>1, <1>2, PTL DEF Spec, RelaySpec, Relay!Spec
=============================================================================
