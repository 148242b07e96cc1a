------------------------ MODULE LocationServerProofs ------------------------
(***************************************************************************)
(* Theorems about LocationServer, for every number of slots, set of        *)
(* handles, users and frames.                                              *)
(***************************************************************************)
EXTENDS LocationServer, SequenceTheorems, TLAPS

LEMMA UnusedType == Unused \in Connection
  BY DEF Unused, Connection, PeerStates

LEMMA SlotForType == \A c \in Conns \union {Nil} : SlotFor(c) \in ClientInfo
  BY DEF SlotFor, ClientInfo

\* The initial state is well-typed and in phase.
LEMMA InitTypePhase == Init => TypeOK /\ Phase
  <1> SUFFICES ASSUME Init PROVE TypeOK /\ Phase
    OBVIOUS
  <1>1. Occupied = {}
    BY DEF Init, Occupied, SlotFor
  <1>2. Phase
    BY <1>1, NilAssumption DEF Init, Phase, Up, Exited
  <1>3. slots \in [Slots -> ClientInfo] /\ conn \in [Conns -> Connection]
    BY UnusedType, SlotForType DEF Init
  <1>4. /\ pc \in PCs /\ running \in BOOLEAN /\ interrupted \in BOOLEAN
    BY DEF Init, PCs
  <1>5. i \in 1 .. MaxClients + 1 /\ j \in 1 .. MaxClients + 1
    BY ClientsAssumption DEF Init
  <1>6. readfds \subseteq Conns /\ cur \in Conns \union {Nil} /\ work \in Frame \union Message \union {Nothing}
    BY DEF Init
  <1>7. backlog \in Seq(Conns)
    BY DEF Init
  <1>8. TypeOK
    BY <1>3, <1>4, <1>5, <1>6, <1>7 DEF TypeOK
  <1> QED BY <1>2, <1>8
-----------------------------------------------------------------------------
(* Facts about frames and connections that the step lemmas cite.           *)

\* The argument of a frame is of the sort its kind calls for.
LEMMA ArrivalArguments ==
    \A f \in Arrivals :
        /\ f.kind \in {"auth", "register"} => f \in Frame /\ f.arg \in Users \union {Nil}
        /\ f.kind \in {"location", "bad_location"} => f \in Frame /\ f.arg \in Places
  BY DEF Arrivals, Frame, Upgrade, BadUpgrade, PlainTextKinds, ControlKinds

\* Replies are messages.
LEMMA MessageTypes ==
    /\ Switching \in Message
    /\ \A k \in {"pong", "error", "auth_fail"} : [kind |-> k, arg |-> Nil] \in Message
    /\ \A u \in Users : [kind |-> "auth_ok", arg |-> u] \in Message
    /\ \A p \in Places : [kind |-> "location", arg |-> p] \in Message
  BY DEF Message, Switching

\* A field of a connection may be replaced by a value of its type.
LEMMA ConnectionFields ==
    ASSUME conn \in [Conns -> Connection], NEW c \in Conns
    PROVE  /\ conn[c].inq \in Seq(Arrivals) /\ conn[c].outq \in Seq(Message)
           /\ conn[c].granted \in SUBSET Users /\ conn[c].peer \in PeerStates
           /\ conn[c].loggedIn \in BOOLEAN
           /\ [conn EXCEPT ![c] = Unused] \in [Conns -> Connection]
           /\ \A q \in Seq(Arrivals) : [conn EXCEPT ![c].inq = q] \in [Conns -> Connection]
           /\ \A q \in Seq(Message) : [conn EXCEPT ![c].outq = q] \in [Conns -> Connection]
           /\ \A p \in PeerStates : [conn EXCEPT ![c].peer = p] \in [Conns -> Connection]
           /\ \A g \in SUBSET Users : [conn EXCEPT ![c].granted = g] \in [Conns -> Connection]
  BY UnusedType DEF Connection

\* Reading a frame and writing a message keep connections well-typed.
LEMMA TakenType ==
    ASSUME conn \in [Conns -> Connection], NEW c \in Conns, conn[c].inq # <<>>
    PROVE  Taken(c) \in [Conns -> Connection] /\ Head(conn[c].inq) \in Arrivals
  <1>1. conn[c].inq \in Seq(Arrivals)
    BY ConnectionFields
  <1>2. Tail(conn[c].inq) \in Seq(Arrivals) /\ Head(conn[c].inq) \in Arrivals
    BY <1>1
  <1> QED BY <1>2, ConnectionFields DEF Taken

LEMMA WrittenType ==
    ASSUME conn \in [Conns -> Connection], NEW c \in Conns, NEW m \in Message
    PROVE  Written(c, m) \in [Conns -> Connection]
  <1>1. Append(conn[c].outq, m) \in Seq(Message)
    BY ConnectionFields
  <1> QED BY <1>1, ConnectionFields DEF Written

\* A scan step works on an open socket, and a frame other than the end of
\* the stream is at the head of its input.
LEMMA ReadingSocket ==
    ASSUME TypeOK, NEW s \in Slots, NEW kinds, Reading(s, kinds)
    PROVE  /\ s \in Occupied /\ slots[s].sock \in Conns /\ pc = "scan"
           /\ "end" \notin kinds => /\ conn[slots[s].sock].inq # <<>>
                                   /\ Head(conn[slots[s].sock].inq).kind \in kinds
  BY DEF Reading, NextPending, Pending, Occupied, NextFrame, TypeOK, ClientInfo
-----------------------------------------------------------------------------
(* Types and phases are preserved, one lemma for each group of actions.    *)

\* Starting, stopping and the select and accept steps.
LEMMA TypePhaseProcess ==
    ASSUME TypeOK, Phase,
           \/ ServerInit \/ ServerInitFails \/ Shutdown \/ Crash \/ Restart \/ Interrupt
           \/ Select \/ AcceptNothing \/ Accept \/ ScanDone
    PROVE  TypeOK' /\ Phase'
  <1> USE ClientsAssumption, NilAssumption DEF PCs, Up, Exited
  <1>1. [s \in Slots |-> SlotFor(Nil)] \in [Slots -> ClientInfo]
        /\ [c \in Conns |-> Unused] \in [Conns -> Connection]
    BY UnusedType, SlotForType
  <1>2. CASE ServerInit \/ ServerInitFails
    BY <1>2, <1>1 DEF ServerInit, ServerInitFails, TypeOK, Phase, Occupied, SlotFor
  <1>3. CASE Shutdown
    <2>1. slots' \in [Slots -> ClientInfo] /\ Occupied' = {}
      BY <1>3 DEF Shutdown, TypeOK, ClientInfo, Occupied
    <2> QED BY <1>3, <1>1, <2>1 DEF Shutdown, TypeOK, Phase
  <1>4. CASE Crash
    <2>1. Occupied' = {} /\ \A c \in Conns : conn'[c] = Unused
      BY <1>4 DEF Crash, Occupied, SlotFor
    <2>2. TypeOK'
      BY <1>4, <1>1 DEF Crash, TypeOK
    <2>3. Phase'
      BY <1>4, <2>1 DEF Crash, Phase
    <2> QED BY <2>2, <2>3
  <1>5. CASE Restart
    BY <1>5, <1>1 DEF Restart, TypeOK, Phase, Occupied, SlotFor
  <1>6. CASE Interrupt
    BY <1>6 DEF Interrupt, TypeOK, Phase, Occupied
  <1>7. CASE Select
    <2>1. \A s \in Occupied : slots[s].sock \in Conns
      BY DEF Occupied, TypeOK, ClientInfo
    <2>2. readfds' \subseteq {slots[s].sock : s \in Occupied}
      BY <1>7 DEF Select
    <2>3. readfds' \subseteq Conns
      BY <2>1, <2>2
    <2>4. Occupied' = Occupied
      BY <1>7 DEF Select, Occupied
    <2> QED BY <1>7, <2>3, <2>4 DEF Select, TypeOK, Phase
  <1>8. CASE AcceptNothing
    BY <1>8 DEF AcceptNothing, TypeOK, Phase, Occupied
  <1>9. CASE Accept
    BY <1>9 DEF Accept, TypeOK, Phase, Occupied
  <1>10. CASE ScanDone
    BY <1>10 DEF ScanDone, TypeOK, Phase, Occupied
  <1> QED BY <1>2, <1>3, <1>4, <1>5, <1>6, <1>7, <1>8, <1>9, <1>10

\* The handshake and the frames that need no blocking call.
LEMMA TypePhaseScan ==
    ASSUME TypeOK, Phase, NEW s \in Slots,
           \/ HandshakeOk(s) \/ HandshakeFailed \/ Disconnect(s) \/ Ignore(s)
    PROVE  TypeOK' /\ Phase'
  <1> USE ClientsAssumption, NilAssumption DEF PCs, Up, Exited
  <1>1. CASE HandshakeOk(s)
    <2>1. cur \in Conns /\ conn[cur].inq # <<>>
      BY <1>1 DEF HandshakeOk, Phase, TypeOK, NextFrame
    <2>2. Taken(cur) \in [Conns -> Connection]
      BY <2>1, TakenType DEF TypeOK
    <2>3. Taken(cur)[cur].outq \in Seq(Message) /\ <<Switching>> \in Seq(Message)
      BY <2>1, <2>2, MessageTypes DEF Connection
    <2>4. conn' \in [Conns -> Connection]
      BY <1>1, <2>1, <2>2, <2>3 DEF HandshakeOk, Connection
    <2>5. slots' \in [Slots -> ClientInfo]
      BY <1>1, <2>1, SlotForType DEF HandshakeOk, TypeOK
    <2> QED BY <1>1, <2>4, <2>5 DEF HandshakeOk, TypeOK, Phase
  <1>2. CASE HandshakeFailed
    <2>1. cur \in Conns
      BY <1>2 DEF HandshakeFailed, Phase, TypeOK
    <2> QED BY <1>2, <2>1, ConnectionFields DEF HandshakeFailed, TypeOK, Phase
  <1>3. CASE Disconnect(s)
    <2>1. slots[s].sock \in Conns /\ pc = "scan"
      BY <1>3, ReadingSocket DEF Disconnect
    <2>2. slots' \in [Slots -> ClientInfo]
      BY <1>3, SlotForType DEF Disconnect, TypeOK
    <2>3. s + 1 \in 1 .. MaxClients + 1
      BY DEF Slots
    <2> QED BY <1>3, <2>1, <2>2, <2>3, ConnectionFields DEF Disconnect, TypeOK, Phase
  <1>4. CASE Ignore(s)
    <2>1. slots[s].sock \in Conns /\ pc = "scan" /\ conn[slots[s].sock].inq # <<>>
      BY <1>4, ReadingSocket DEF Ignore
    <2>2. s + 1 \in 1 .. MaxClients + 1
      BY DEF Slots
    <2> QED BY <1>4, <2>1, <2>2, TakenType DEF Ignore, TypeOK, Phase
  <1> QED BY <1>1, <1>2, <1>3, <1>4

\* The frames the server goes on to handle with a blocking call.
LEMMA TypePhaseHandle ==
    ASSUME TypeOK, Phase, NEW s \in Slots,
           \/ Ping(s) \/ Credentials(s) \/ Unauthorized(s) \/ Location(s)
    PROVE  TypeOK' /\ Phase'
  <1> USE ClientsAssumption, NilAssumption DEF PCs, Up, Exited
  <1>1. ASSUME NEW next \in {"post", "reply", "relay"}, NEW m, Handle(s, next, m),
               s \in Occupied, slots[s].sock \in Conns, conn[slots[s].sock].inq # <<>>,
               m \in Frame \union Message, pc = "scan",
               next = "post" => \/ m.kind \in {"auth", "register"} /\ m.arg \in Users
                                \/ m.kind = "location" /\ m.arg \in Places,
               next = "reply" => m \in Message,
               next = "relay" => m.arg \in Places
        PROVE  TypeOK' /\ Phase'
    <2>1. Taken(slots[s].sock) \in [Conns -> Connection]
      BY <1>1, TakenType DEF TypeOK
    <2>2. TypeOK'
      BY <1>1, <2>1 DEF Handle, TypeOK, Slots
    <2>3. Occupied' = Occupied
      BY <1>1 DEF Handle, Occupied
    <2>4. Phase'
      BY <1>1, <2>3 DEF Handle, Phase
    <2> QED BY <2>2, <2>4
  <1>2. CASE Ping(s)
    BY <1>1, <1>2, ReadingSocket, MessageTypes DEF Ping
  <1>3. CASE Credentials(s)
    <2> DEFINE f == Head(conn[slots[s].sock].inq)
    <2>1. /\ s \in Occupied /\ slots[s].sock \in Conns /\ pc = "scan"
          /\ conn[slots[s].sock].inq # <<>> /\ f.kind \in {"auth", "register"}
      <3>1. Reading(s, {"auth", "register"}) /\ "end" \notin {"auth", "register"}
        BY <1>3 DEF Credentials
      <3> QED BY <3>1, ReadingSocket, Zenon
    <2>2. f \in Arrivals
      BY <2>1, TakenType DEF TypeOK
    <2>3. f \in Frame /\ f.arg \in Users \union {Nil}
      BY <2>1, <2>2, ArrivalArguments
    <2>4. CASE f.arg = Nil
      BY <1>1, <1>3, <2>1, <2>4, MessageTypes DEF Credentials
    <2>5. CASE f.arg # Nil
      BY <1>1, <1>3, <2>1, <2>3, <2>5 DEF Credentials
    <2> QED BY <2>4, <2>5
  <1>4. CASE Unauthorized(s)
    BY <1>1, <1>4, ReadingSocket, MessageTypes DEF Unauthorized
  <1>5. CASE Location(s)
    <2> DEFINE f == Head(conn[slots[s].sock].inq)
    <2>1. PICK next \in {"post", "relay"} :
             /\ Handle(s, next, f)
             /\ Reading(s, {IF next = "post" THEN "location" ELSE "bad_location"})
      BY <1>5 DEF Location
    <2>2. /\ s \in Occupied /\ slots[s].sock \in Conns /\ pc = "scan"
          /\ conn[slots[s].sock].inq # <<>>
          /\ f.kind = IF next = "post" THEN "location" ELSE "bad_location"
      BY <2>1, ReadingSocket
    <2>3. f \in Arrivals
      BY <2>2, TakenType DEF TypeOK
    <2>4. f \in Frame /\ f.arg \in Places
      BY <2>2, <2>3, ArrivalArguments
    <2> QED BY <1>1, <2>1, <2>2, <2>4
  <1> QED BY <1>2, <1>3, <1>4, <1>5
\* http_post_json returns, a reply or a relayed location is written.
LEMMA TypePhaseCalls ==
    ASSUME TypeOK, Phase,
           \/ BackendNext \/ Reply \/ RelayDone \/ \E s \in Slots : RelayTo(s)
    PROVE  TypeOK' /\ Phase'
  <1> USE ClientsAssumption, NilAssumption DEF PCs, Up, Exited
  <1>1. pc \in {"post", "reply", "relay"} => i \in Slots /\ slots[i].sock \in Conns
    BY DEF Phase, Occupied, TypeOK, ClientInfo
  <1>2. i \in Slots => i + 1 \in 1 .. MaxClients + 1
    BY DEF Slots
  <1>3. ASSUME NEW r \in Results, LoginReturn(r) PROVE TypeOK' /\ Phase'
    <2>1. pc = "post" /\ work.arg \in Users /\ i \in Slots
      BY <1>1, <1>3 DEF LoginReturn, Phase
    <2>2. slots' = slots \/ slots' = [slots EXCEPT ![i].authenticated = TRUE, ![i].user = work.arg]
      BY <1>3 DEF LoginReturn
    <2>5. slots \in [Slots -> ClientInfo]
      BY DEF TypeOK
    <2>6. slots' \in [Slots -> ClientInfo] /\ \A s \in Slots : slots'[s].sock = slots[s].sock
      <3>1. CASE slots' = slots
        BY <2>5, <3>1
      <3>2. CASE slots' = [slots EXCEPT ![i].authenticated = TRUE, ![i].user = work.arg]
        BY <2>1, <2>5, <3>2 DEF ClientInfo
      <3> QED BY <2>2, <3>1, <3>2
    <2>7. Occupied' = Occupied
      BY <2>6 DEF Occupied
    <2>3. conn' \in [Conns -> Connection]
      <3>1. conn[slots[i].sock].granted \union {work.arg} \in SUBSET Users
        BY <1>1, <2>1, ConnectionFields DEF TypeOK
      <3> QED BY <1>1, <1>3, <2>1, <3>1, ConnectionFields DEF LoginReturn, TypeOK
    <2>4. work' \in Message
      BY <1>3, <2>1, MessageTypes DEF LoginReturn
    <2> QED BY <1>3, <2>1, <2>3, <2>4, <2>6, <2>7 DEF LoginReturn, TypeOK, Phase
  <1>4. ASSUME NEW r \in Results, StoreReturn(r) PROVE TypeOK' /\ Phase'
    BY <1>4 DEF StoreReturn, TypeOK, Phase, Occupied
  <1>5. CASE BackendNext
    BY <1>3, <1>4, <1>5 DEF BackendNext, HttpReturn
  <1>6. CASE Reply
    <2>1. conn' \in [Conns -> Connection]
      BY <1>1, <1>6, WrittenType DEF Reply, TypeOK, Phase
    <2> QED BY <1>1, <1>2, <1>6, <2>1 DEF Reply, TypeOK, Phase, Occupied
  <1>7. CASE RelayDone
    BY <1>1, <1>2, <1>7 DEF RelayDone, TypeOK, Phase, Occupied
  <1>8. ASSUME NEW s \in Slots, RelayTo(s) PROVE TypeOK' /\ Phase'
    <2>1. slots[s].sock \in Conns
      BY <1>8 DEF RelayTo, NextInAudience, Audience, Occupied, TypeOK, ClientInfo
    <2>2. [kind |-> "location", arg |-> work.arg] \in Message
      BY <1>8, MessageTypes DEF RelayTo, Phase
    <2>3. conn' \in [Conns -> Connection]
      BY <1>8, <2>1, <2>2, WrittenType DEF RelayTo, TypeOK
    <2>4. s + 1 \in 1 .. MaxClients + 1
      BY DEF Slots
    <2> QED BY <1>8, <2>3, <2>4 DEF RelayTo, TypeOK, Phase, Occupied
  <1> QED BY <1>5, <1>6, <1>7, <1>8

\* The clients and the network change conn and the backlog only.
LEMMA ClientsLeaveServer ==
    ASSUME NEW c \in Conns, ClientNext(c)
    PROVE  UNCHANGED serverVars
  BY DEF ClientNext, Connect, SendUpgrade, Send, Finish, Read, Leave, Abort, Vanish, Expire

LEMMA TypePhaseClients ==
    ASSUME TypeOK, Phase, NEW c \in Conns, ClientNext(c)
    PROVE  TypeOK' /\ Phase'
  <1>1. UNCHANGED serverVars
    BY ClientsLeaveServer
  <1>2. Up
    <2>1. ~Up => conn[c].peer = "none"
      BY DEF Phase, Unused
    <2>2. Connect(c) => Up
      BY DEF Connect
    <2>3. ClientNext(c) => Connect(c) \/ conn[c].peer \in PeerStates \ {"none"}
      BY DEF ClientNext, SendUpgrade, Send, Finish, Read, Leave, Abort, Vanish, Expire,
             Alive, PeerStates
    <2> QED BY <2>1, <2>2, <2>3
  <1>3. conn' \in [Conns -> Connection] /\ backlog' \in Seq(Conns)
    <2>0. conn \in [Conns -> Connection] /\ backlog \in Seq(Conns) /\ conn[c].peer \in PeerStates
      BY ConnectionFields DEF TypeOK
    <2> USE <2>0
    <2>1. CASE Connect(c)
      <3>1. "connecting" \in PeerStates /\ Append(backlog, c) \in Seq(Conns)
        BY DEF PeerStates
      <3> QED BY <2>1, <3>1, ConnectionFields DEF Connect
    <2>2. CASE SendUpgrade(c)
      <3>1. PICK r \in {Upgrade, BadUpgrade} :
              conn' = [conn EXCEPT ![c].peer = "upgrading", ![c].inq = <<r>>]
        BY <2>2 DEF SendUpgrade
      <3>2. <<r>> \in Seq(Arrivals) /\ "upgrading" \in PeerStates
        BY DEF Arrivals, PeerStates
      <3>3. conn' \in [Conns -> Connection]
        BY <3>1, <3>2 DEF Connection
      <3> QED BY <2>2, <3>3 DEF SendUpgrade
    <2>3. CASE Send(c)
      <3>1. PICK f \in Inputs : conn' = [conn EXCEPT ![c].inq = Append(@, f)]
        BY <2>3 DEF Send
      <3>2. Append(conn[c].inq, f) \in Seq(Arrivals)
        BY InputsAssumption, ConnectionFields DEF Arrivals
      <3> QED BY <2>3, <3>1, <3>2, ConnectionFields DEF Send
    <2>4. CASE Finish(c)
      <3>1. PICK f \in Inputs : conn' = [conn EXCEPT ![c].inq = [@ EXCEPT ![Len(@)] = f]]
        BY <2>4 DEF Finish
      <3>2. conn[c].inq \in Seq(Arrivals) /\ f \in Arrivals
        BY InputsAssumption, ConnectionFields DEF Arrivals
      <3>3. Len(conn[c].inq) \in 1 .. Len(conn[c].inq)
        BY <2>4, <3>2, EmptySeq, LenProperties DEF Finish, Unfinished
      <3>4. [conn[c].inq EXCEPT ![Len(conn[c].inq)] = f] \in Seq(Arrivals)
        BY <3>2, <3>3, ExceptSeq
      <3> QED BY <2>4, <3>1, <3>4, ConnectionFields DEF Finish
    <2>5. CASE Read(c)
      <3>1. Tail(conn[c].outq) \in Seq(Message)
        BY <2>5, ConnectionFields DEF Read
      <3>2. PICK p \in PeerStates, b \in BOOLEAN :
              conn' = [conn EXCEPT ![c].outq = Tail(@), ![c].peer = p, ![c].loggedIn = b]
        <4>1. (IF Head(conn[c].outq) = Switching THEN "open" ELSE conn[c].peer) \in PeerStates
          BY DEF PeerStates
        <4>2. (IF Head(conn[c].outq).kind = "auth_ok" THEN TRUE ELSE conn[c].loggedIn) \in BOOLEAN
          BY ConnectionFields
        <4> QED BY <2>5, <4>1, <4>2, Zenon DEF Read
      <3>3. conn' \in [Conns -> Connection]
        <4> DEFINE r == [conn[c] EXCEPT !.outq = Tail(@), !.peer = p, !.loggedIn = b]
             T == Tail(conn[c].outq)
        <4>1. conn[c] \in Connection /\ T \in Seq(Message)
          BY <3>1
        <4>2. r = [conn[c] EXCEPT !.outq = T, !.peer = p, !.loggedIn = b]
          OBVIOUS
        <4> HIDE DEF T, r
        <4>3. r \in Connection
          BY <4>1, <4>2 DEF Connection
        <4> USE DEF r
        <4>4. conn' = [conn EXCEPT ![c] = r]
          BY <3>2
        <4> HIDE DEF r
        <4> QED BY <4>3, <4>4
      <3> QED BY <2>5, <3>3 DEF Read
    <2>6. CASE Leave(c)
      <3>1. "gone" \in PeerStates /\ <<>> \in Seq(Message)
        BY DEF PeerStates
      <3>2. conn' = [conn EXCEPT ![c].peer = "gone", ![c].outq = <<>>]
        BY <2>6 DEF Leave
      <3>3. conn' \in [Conns -> Connection]
        BY <3>1, <3>2 DEF Connection
      <3> QED BY <2>6, <3>3 DEF Leave
    <2>7. CASE Abort(c)
      <3>1. ASSUME NEW k \in DOMAIN backlog PROVE RemoveAt(backlog, k) \in Seq(Conns)
        BY <3>1 DEF RemoveAt
      <3>2. "gone" \in PeerStates /\ <<>> \in Seq(Message) /\ <<>> \in Seq(Arrivals)
        BY DEF PeerStates
      <3>3. \/ conn' = [conn EXCEPT ![c] = Unused]
            \/ conn' = [conn EXCEPT ![c].peer = "gone", ![c].inq = <<>>, ![c].outq = <<>>]
        BY <2>7 DEF Abort
      <3>4. conn' \in [Conns -> Connection]
        <4>1. CASE conn' = [conn EXCEPT ![c] = Unused]
          BY <4>1, UnusedType
        <4>2. CASE conn' = [conn EXCEPT ![c].peer = "gone", ![c].inq = <<>>, ![c].outq = <<>>]
          BY <3>2, <4>2 DEF Connection
        <4> QED BY <3>3, <4>1, <4>2
      <3> QED BY <2>7, <3>1, <3>4 DEF Abort
    <2>8. CASE Vanish(c)
      BY <2>8, ConnectionFields DEF Vanish, PeerStates
    <2>9. CASE Expire(c)
      <3>1. "gone" \in PeerStates /\ <<>> \in Seq(Message)
        BY DEF PeerStates
      <3>2. conn' = [conn EXCEPT ![c].peer = "gone", ![c].outq = <<>>]
        BY <2>9 DEF Expire
      <3>3. conn' \in [Conns -> Connection]
        BY <3>1, <3>2 DEF Connection
      <3> QED BY <2>9, <3>3 DEF Expire
    <2> QED BY <2>1, <2>2, <2>3, <2>4, <2>5, <2>6, <2>7, <2>8, <2>9 DEF ClientNext
  <1>4. Occupied' = Occupied
    BY <1>1 DEF serverVars, Occupied
  <1> QED BY <1>1, <1>2, <1>3, <1>4 DEF serverVars, TypeOK, Phase, Up, Exited
-----------------------------------------------------------------------------
\* Every step preserves types and phases.
LEMMA TypePhaseStep == TypeOK /\ Phase /\ [Next]_vars => TypeOK' /\ Phase'
  <1> SUFFICES ASSUME TypeOK, Phase, [Next]_vars PROVE TypeOK' /\ Phase'
    OBVIOUS
  <1>1. CASE UNCHANGED vars
    BY <1>1 DEF vars, TypeOK, Phase, Occupied, Up, Exited
  <1>2. CASE ServerNext
    <2>1. ASSUME NEW s \in Slots, NullPayload(s) PROVE Crash
      BY <2>1 DEF NullPayload
    <2> QED BY <1>2, <2>1, TypePhaseProcess, TypePhaseScan, TypePhaseHandle, TypePhaseCalls,
               ClientsAssumption
            DEF ServerNext, Slots
  <1>3. CASE BackendNext
    BY <1>3, TypePhaseCalls
  <1>4. CASE Interrupt \/ Restart
    BY <1>4, TypePhaseProcess
  <1>5. ASSUME NEW c \in Conns, ClientNext(c) PROVE TypeOK' /\ Phase'
    BY <1>5, TypePhaseClients
  <1> QED BY <1>1, <1>2, <1>3, <1>4, <1>5 DEF Next

\* In every reachable state each variable has its type.
THEOREM TypeCorrectness == Spec => []TypeOK
  <1>1. Init => TypeOK /\ Phase
    BY InitTypePhase
  <1>2. TypeOK /\ Phase /\ [Next]_vars => (TypeOK /\ Phase)'
    BY TypePhaseStep
  <1> QED BY <1>1, <1>2, PTL DEF Spec
-----------------------------------------------------------------------------
(* The backlog is a sequence without repetitions: what Head and Tail,      *)
(* Append and RemoveAt do to its elements.                                 *)

\* Accepting takes the first element, and only that, out of the backlog.
LEMMA TailElements ==
    ASSUME NEW q \in Seq(Conns), q # <<>>, IsInjective(q)
    PROVE  /\ Head(q) \in Conns /\ Head(q) \notin Range(Tail(q))
           /\ IsInjective(Tail(q))
           /\ \A x : x \in Range(q) <=> x = Head(q) \/ x \in Range(Tail(q))
  <1>1. /\ Len(q) \in Nat \ {0} /\ DOMAIN q = 1 .. Len(q) /\ Head(q) = q[1] /\ Head(q) \in Conns
        /\ Tail(q) \in Seq(Conns) /\ DOMAIN Tail(q) = 1 .. Len(q) - 1
        /\ \A k \in 1 .. Len(q) - 1 : Tail(q)[k] = q[k + 1]
    OBVIOUS
  <1>2. Head(q) \notin Range(Tail(q)) /\ IsInjective(Tail(q))
    BY <1>1 DEF IsInjective, Range
  <1>3. ASSUME NEW x PROVE x \in Range(q) <=> x = Head(q) \/ x \in Range(Tail(q))
    <2>1. ASSUME x \in Range(q) PROVE x = Head(q) \/ x \in Range(Tail(q))
      <3>1. PICK k \in 1 .. Len(q) : x = q[k]
        BY <1>1, <2>1 DEF Range
      <3>2. CASE k = 1
        BY <1>1, <3>1, <3>2
      <3>3. CASE k # 1
        <4>1. k - 1 \in DOMAIN Tail(q) /\ Tail(q)[k - 1] = x
          BY <1>1, <3>1, <3>3
        <4> QED BY <4>1 DEF Range
      <3> QED BY <3>2, <3>3
    <2>2. ASSUME x = Head(q) \/ x \in Range(Tail(q)) PROVE x \in Range(q)
      <3>1. Head(q) \in Range(q)
        BY <1>1 DEF Range
      <3>2. ASSUME NEW k \in DOMAIN Tail(q) PROVE Tail(q)[k] \in Range(q)
        <4>1. k + 1 \in DOMAIN q /\ Tail(q)[k] = q[k + 1]
          BY <1>1, <3>2
        <4> QED BY <4>1 DEF Range
      <3> QED BY <2>2, <3>1, <3>2 DEF Range
    <2> QED BY <2>1, <2>2
  <1> QED BY <1>1, <1>2, <1>3

\* A new connection is added at the end.
LEMMA AppendElements ==
    ASSUME NEW q \in Seq(Conns), NEW c \in Conns, c \notin Range(q), IsInjective(q)
    PROVE  /\ IsInjective(Append(q, c))
           /\ \A x : x \in Range(Append(q, c)) <=> x = c \/ x \in Range(q)
  <1>1. /\ Len(q) \in Nat /\ DOMAIN q = 1 .. Len(q)
        /\ DOMAIN Append(q, c) = 1 .. Len(q) + 1 /\ Append(q, c)[Len(q) + 1] = c
        /\ \A k \in 1 .. Len(q) : Append(q, c)[k] = q[k]
    OBVIOUS
  <1>2. IsInjective(Append(q, c))
    BY <1>1 DEF IsInjective, Range
  <1>3. ASSUME NEW x PROVE x \in Range(Append(q, c)) <=> x = c \/ x \in Range(q)
    <2>1. ASSUME NEW k \in DOMAIN Append(q, c), x = Append(q, c)[k] PROVE x = c \/ x \in Range(q)
      BY <1>1, <2>1 DEF Range
    <2>2. c \in Range(Append(q, c))
      BY <1>1 DEF Range
    <2>3. ASSUME NEW k \in DOMAIN q PROVE q[k] \in Range(Append(q, c))
      <3>1. k \in DOMAIN Append(q, c) /\ Append(q, c)[k] = q[k]
        BY <1>1, <2>3
      <3> QED BY <3>1 DEF Range
    <2> QED BY <2>1, <2>2, <2>3 DEF Range
  <1> QED BY <1>2, <1>3

\* A connection that is aborted leaves the backlog, and no other does.
LEMMA RemoveAtElements ==
    ASSUME NEW q \in Seq(Conns), NEW n \in DOMAIN q, IsInjective(q)
    PROVE  /\ IsInjective(RemoveAt(q, n))
           /\ \A x : x \in Range(RemoveAt(q, n)) <=> x # q[n] /\ x \in Range(q)
  <1> DEFINE r == RemoveAt(q, n)
             old(k) == IF k < n THEN k ELSE k + 1
  <1>1. Len(q) \in Nat /\ n \in 1 .. Len(q) /\ DOMAIN q = 1 .. Len(q)
    OBVIOUS
  <1>2. /\ DOMAIN r = 1 .. Len(q) - 1
        /\ \A k \in 1 .. Len(q) - 1 : r[k] = q[old(k)]
    <2> DEFINE a == SubSeq(q, 1, n - 1)
               b == SubSeq(q, n + 1, Len(q))
    <2>1. /\ a \in Seq(Conns) /\ Len(a) = n - 1
          /\ \A k \in 1 .. n - 1 : a[k] = q[k]
      BY <1>1
    <2>2. /\ b \in Seq(Conns) /\ Len(b) = Len(q) - n
          /\ \A k \in 1 .. Len(q) - n : b[k] = q[k + n]
      BY <1>1
    <2>3. r = a \o b
      BY DEF RemoveAt
    <2> HIDE DEF a, b, r
    <2>4. /\ DOMAIN (a \o b) = 1 .. Len(a) + Len(b)
          /\ \A k \in 1 .. Len(a) + Len(b) :
               (a \o b)[k] = IF k <= Len(a) THEN a[k] ELSE b[k - Len(a)]
      BY <2>1, <2>2
    <2>5. ASSUME NEW k \in 1 .. Len(q) - 1 PROVE r[k] = q[old(k)]
      <3>1. CASE k < n
        BY <1>1, <2>1, <2>2, <2>3, <2>4, <3>1
      <3>2. CASE ~(k < n)
        <4>1. k - (n - 1) \in 1 .. Len(q) - n /\ ~(k <= Len(a)) /\ k \in 1 .. Len(a) + Len(b)
          BY <1>1, <2>1, <2>2, <3>2
        <4>2. r[k] = b[k - Len(a)]
          BY <2>3, <2>4, <4>1
        <4>3. r[k] = q[(k - (n - 1)) + n]
          BY <2>1, <2>2, <4>1, <4>2
        <4>4. (k - (n - 1)) + n = k + 1
          BY <1>1
        <4> QED BY <3>2, <4>3, <4>4
      <3> QED BY <3>1, <3>2
    <2> QED BY <1>1, <2>1, <2>2, <2>3, <2>4, <2>5
  <1>3. \A k \in 1 .. Len(q) - 1 : old(k) \in DOMAIN q \ {n}
    BY <1>1
  <1> HIDE DEF r
  <1>4. IsInjective(r)
    <2> SUFFICES ASSUME NEW k \in 1 .. Len(q) - 1, NEW l \in 1 .. Len(q) - 1, r[k] = r[l]
                 PROVE  k = l
      BY <1>2 DEF IsInjective
    <2>1. q[old(k)] = q[old(l)] /\ old(k) \in DOMAIN q /\ old(l) \in DOMAIN q
      BY <1>2, <1>3
    <2>2. old(k) = old(l)
      BY <2>1 DEF IsInjective
    <2> QED BY <1>1, <2>2
  <1>5. ASSUME NEW x PROVE x \in Range(r) <=> x # q[n] /\ x \in Range(q)
    <2>1. ASSUME x \in Range(r) PROVE x # q[n] /\ x \in Range(q)
      <3>1. PICK k \in 1 .. Len(q) - 1 : x = r[k]
        BY <1>2, <2>1 DEF Range
      <3>2. x = q[old(k)] /\ old(k) \in DOMAIN q /\ old(k) # n
        BY <1>2, <1>3, <3>1
      <3> QED BY <3>2 DEF Range, IsInjective
    <2>2. ASSUME x # q[n], x \in Range(q) PROVE x \in Range(r)
      <3>1. PICK k \in DOMAIN q : x = q[k] /\ k # n
        BY <2>2 DEF Range
      <3> DEFINE m == IF k < n THEN k ELSE k - 1
      <3>2. m \in 1 .. Len(q) - 1 /\ old(m) = k
        BY <1>1, <3>1
      <3>3. m \in DOMAIN r /\ r[m] = x
        BY <1>2, <3>1, <3>2
      <3> QED BY <3>3 DEF Range
    <2> QED BY <2>1, <2>2
  <1> QED BY <1>4, <1>5 DEF r
-----------------------------------------------------------------------------
(* Every open connection is in exactly one place.                          *)

\* A step that moves no handle and opens or ends no connection.
LEMMA HandlesUntouched ==
    ASSUME HandlesAccounted,
           \A s \in Slots : slots'[s].sock = slots[s].sock,
           cur' = cur, backlog' = backlog,
           \A c \in Conns : conn'[c].peer = "none" <=> conn[c].peer = "none"
    PROVE  HandlesAccounted'
  <1>1. Occupied' = Occupied
    BY DEF Occupied
  <1>2. \A s \in Occupied : slots'[s].sock = slots[s].sock
    BY DEF Occupied
  <1> QED BY <1>1, <1>2 DEF HandlesAccounted

\* Reading, writing and recording a login leave the client ends alone.
LEMMA PeersUntouched ==
    ASSUME TypeOK, NEW c \in Conns, NEW m
    PROVE  /\ \A d \in Conns : Taken(c)[d].peer = conn[d].peer
           /\ \A d \in Conns : Written(c, m)[d].peer = conn[d].peer
           /\ \A g : \A d \in Conns : [conn EXCEPT ![c].granted = g][d].peer = conn[d].peer
  BY DEF TypeOK, Connection, Taken, Written

\* Steps that close every connection.
LEMMA HandlesClosed ==
    ASSUME Occupied' = {}, backlog' = <<>>, cur' = Nil, conn' = [c \in Conns |-> Unused]
    PROVE  HandlesAccounted'
  BY NilAssumption DEF HandlesAccounted, Unused, Range, IsInjective

LEMMA HandlesProcess ==
    ASSUME TypeOK, Phase, HandlesAccounted,
           \/ ServerInit \/ ServerInitFails \/ Shutdown \/ Crash \/ Restart \/ Interrupt
           \/ Select \/ AcceptNothing \/ Accept \/ ScanDone
    PROVE  HandlesAccounted'
  <1>1. CASE ServerInit \/ ServerInitFails \/ Restart
    <2>1. Occupied = {} /\ cur = Nil
      BY <1>1 DEF ServerInit, ServerInitFails, Restart, Phase, Up, Exited
    <2>2. \A s \in Slots : slots[s].sock = Nil
      BY <2>1 DEF Occupied
    <2>3. \A s \in Slots : slots'[s].sock = Nil
      BY <1>1, <2>2 DEF ServerInit, ServerInitFails, Restart, SlotFor
    <2> QED BY <1>1, <2>2, <2>3, HandlesUntouched
         DEF ServerInit, ServerInitFails, Restart
  <1>2. CASE Shutdown
    <2>1. Occupied' = {}
      BY <1>2 DEF Shutdown, Occupied, TypeOK, ClientInfo
    <2>2. cur' = Nil
      BY <1>2 DEF Shutdown, Phase
    <2> QED BY <1>2, <2>1, <2>2, HandlesClosed DEF Shutdown
  <1>3. CASE Crash
    <2>1. Occupied' = {}
      BY <1>3 DEF Crash, Occupied, SlotFor
    <2> QED BY <1>3, <2>1, HandlesClosed DEF Crash
  <1>4. CASE Interrupt \/ Select \/ AcceptNothing \/ ScanDone
    BY <1>4, HandlesUntouched DEF Interrupt, Select, AcceptNothing, ScanDone
  <1>5. CASE Accept
    <2>1. /\ cur = Nil /\ cur' = Head(backlog) /\ backlog' = Tail(backlog) /\ backlog # <<>>
          /\ slots' = slots /\ conn' = conn
      BY <1>5 DEF Accept, Phase
    <2>2. /\ Head(backlog) \in Conns /\ Head(backlog) \notin Range(Tail(backlog))
          /\ IsInjective(Tail(backlog))
          /\ \A x : x \in Range(backlog) <=> x = Head(backlog) \/ x \in Range(Tail(backlog))
      BY <2>1, TailElements DEF TypeOK, HandlesAccounted
    <2>3. Occupied' = Occupied
      BY <2>1 DEF Occupied
    <2> QED BY <2>1, <2>2, <2>3, NilAssumption DEF HandlesAccounted
  <1> QED BY <1>1, <1>2, <1>3, <1>4, <1>5

\* A handle moves from the accept step to a slot, or is closed.
LEMMA HandlesScan ==
    ASSUME TypeOK, Phase, HandlesAccounted, NEW s \in Slots,
           \/ HandshakeOk(s) \/ HandshakeFailed \/ Disconnect(s) \/ Ignore(s)
    PROVE  HandlesAccounted'
  <1>1. CASE HandshakeOk(s)
    <2>1. cur \in Conns /\ s \notin Occupied /\ cur' = Nil /\ backlog' = backlog
      BY <1>1 DEF HandshakeOk, Phase, TypeOK, FirstFree
    <2>2. /\ Occupied' = Occupied \union {s} /\ slots'[s].sock = cur
          /\ \A t \in Slots \ {s} : slots'[t] = slots[t]
      BY <1>1, <2>1, NilAssumption DEF HandshakeOk, Occupied, TypeOK, SlotFor
    <2>3. \A c \in Conns : conn'[c].peer = conn[c].peer
      BY <1>1, <2>1 DEF HandshakeOk, Taken, TypeOK, Connection
    <2>4. Nil \notin Range(backlog)
      BY NilAssumption DEF TypeOK, Range
    <2>5. Occupied \subseteq Slots
      BY DEF Occupied
    <2>6. \A t \in Occupied : slots[t].sock # Nil
      BY DEF Occupied
    <2> QED BY <2>1, <2>2, <2>3, <2>4, <2>5, <2>6, NilAssumption DEF HandlesAccounted
  <1>2. CASE HandshakeFailed
    <2>1. /\ cur \in Conns /\ cur' = Nil /\ backlog' = backlog /\ slots' = slots
          /\ conn' = [conn EXCEPT ![cur] = Unused]
      BY <1>2 DEF HandshakeFailed, Phase, TypeOK
    <2>2. conn'[cur].peer = "none" /\ \A c \in Conns \ {cur} : conn'[c] = conn[c]
      BY <2>1 DEF TypeOK, Unused
    <2>3. Nil \notin Range(backlog)
      BY NilAssumption DEF TypeOK, Range
    <2>4. Occupied' = Occupied /\ \A t \in Occupied : slots[t].sock # Nil
      BY <2>1 DEF Occupied
    <2> QED BY <2>1, <2>2, <2>3, <2>4, NilAssumption DEF HandlesAccounted
  <1>3. CASE Disconnect(s)
    <2> DEFINE c == slots[s].sock
    <2>1. s \in Occupied /\ c \in Conns /\ pc = "scan"
      BY <1>3, ReadingSocket DEF Disconnect
    <2>2. cur' = cur /\ cur = Nil /\ backlog' = backlog /\ conn' = [conn EXCEPT ![c] = Unused]
      BY <1>3, <2>1 DEF Disconnect, Phase
    <2>3. Occupied' = Occupied \ {s} /\ \A t \in Slots \ {s} : slots'[t] = slots[t]
      BY <1>3 DEF Disconnect, Occupied, TypeOK, SlotFor
    <2>4. conn'[c].peer = "none" /\ \A d \in Conns \ {c} : conn'[d] = conn[d]
      BY <2>1, <2>2 DEF TypeOK, Unused
    <2>5. Occupied \subseteq Slots
      BY DEF Occupied
    <2> QED BY <2>1, <2>2, <2>3, <2>4, <2>5, NilAssumption DEF HandlesAccounted
  <1>4. CASE Ignore(s)
    <2>1. slots[s].sock \in Conns
      BY <1>4, ReadingSocket DEF Ignore
    <2> QED BY <1>4, <2>1, PeersUntouched, HandlesUntouched DEF Ignore
  <1> QED BY <1>1, <1>2, <1>3, <1>4

LEMMA HandlesHandle ==
    ASSUME TypeOK, Phase, HandlesAccounted, NEW s \in Slots,
           \/ Ping(s) \/ Credentials(s) \/ Unauthorized(s) \/ Location(s)
    PROVE  HandlesAccounted'
  <1>1. /\ slots[s].sock \in Conns /\ conn' = Taken(slots[s].sock)
        /\ slots' = slots /\ cur' = cur /\ backlog' = backlog
    BY ReadingSocket DEF Ping, Credentials, Unauthorized, Location, Handle
  <1> QED BY <1>1, PeersUntouched, HandlesUntouched

LEMMA HandlesCalls ==
    ASSUME TypeOK, Phase, HandlesAccounted,
           \/ BackendNext \/ Reply \/ RelayDone \/ \E s \in Slots : RelayTo(s)
    PROVE  HandlesAccounted'
  <1>1. pc \in {"post", "reply", "relay"} => i \in Slots /\ slots[i].sock \in Conns
    BY DEF Phase, Occupied, TypeOK, ClientInfo
  <1>2. ASSUME NEW r, LoginReturn(r) PROVE HandlesAccounted'
    <2>1. i \in Slots /\ slots[i].sock \in Conns /\ cur' = cur /\ backlog' = backlog
      BY <1>1, <1>2 DEF LoginReturn
    <2>2. slots' = slots \/ slots' = [slots EXCEPT ![i].authenticated = TRUE, ![i].user = work.arg]
      BY <1>2 DEF LoginReturn
    <2>3. \A t \in Slots : slots'[t].sock = slots[t].sock
      <3>1. slots \in [Slots -> ClientInfo]
        BY DEF TypeOK
      <3>2. CASE slots' = slots
        BY <3>2
      <3>3. CASE slots' = [slots EXCEPT ![i].authenticated = TRUE, ![i].user = work.arg]
        BY <2>1, <3>1, <3>3 DEF ClientInfo
      <3> QED BY <2>2, <3>2, <3>3
    <2>4. \A d \in Conns : conn'[d].peer = conn[d].peer
      BY <1>2, <2>1, PeersUntouched DEF LoginReturn
    <2> QED BY <2>1, <2>3, <2>4, HandlesUntouched
  <1>3. ASSUME NEW r, StoreReturn(r) PROVE HandlesAccounted'
    BY <1>3, HandlesUntouched DEF StoreReturn
  <1>4. CASE Reply
    BY <1>1, <1>4, PeersUntouched, HandlesUntouched DEF Reply
  <1>5. CASE RelayDone
    BY <1>5, HandlesUntouched DEF RelayDone
  <1>6. ASSUME NEW s \in Slots, RelayTo(s) PROVE HandlesAccounted'
    <2>1. slots[s].sock \in Conns
      BY <1>6 DEF RelayTo, NextInAudience, Audience, Occupied, TypeOK, ClientInfo
    <2> QED BY <1>6, <2>1, PeersUntouched, HandlesUntouched DEF RelayTo
  <1> QED BY <1>2, <1>3, <1>4, <1>5, <1>6 DEF BackendNext, HttpReturn

LEMMA HandlesClients ==
    ASSUME TypeOK, Phase, HandlesAccounted, NEW c \in Conns, ClientNext(c)
    PROVE  HandlesAccounted'
  <1>1. slots' = slots /\ cur' = cur /\ Occupied' = Occupied
    BY ClientsLeaveServer DEF serverVars, Occupied
  <1>2. conn \in [Conns -> Connection] /\ backlog \in Seq(Conns) /\ IsInjective(backlog)
    BY DEF TypeOK, HandlesAccounted
  <1>3. CASE Connect(c)
    <2>1. /\ conn[c].peer = "none" /\ conn'[c].peer = "connecting"
          /\ backlog' = Append(backlog, c) /\ \A d \in Conns \ {c} : conn'[d] = conn[d]
      BY <1>2, <1>3 DEF Connect, Connection
    <2>2. /\ c \notin Range(backlog) /\ c # cur
          /\ \A s \in Occupied : slots[s].sock # c
      BY <2>1 DEF HandlesAccounted
    <2>3. /\ IsInjective(backlog')
          /\ \A x : x \in Range(backlog') <=> x = c \/ x \in Range(backlog)
      BY <1>2, <2>1, <2>2, AppendElements
    <2> QED BY <1>1, <2>1, <2>2, <2>3 DEF HandlesAccounted
  <1>4. CASE \E k \in DOMAIN backlog : /\ backlog[k] = c
                                      /\ backlog' = RemoveAt(backlog, k)
                                      /\ conn' = [conn EXCEPT ![c] = Unused]
    <2>1. PICK k \in DOMAIN backlog : /\ backlog[k] = c
                                      /\ backlog' = RemoveAt(backlog, k)
                                      /\ conn' = [conn EXCEPT ![c] = Unused]
      BY <1>4
    <2>2. /\ IsInjective(backlog')
          /\ \A x : x \in Range(backlog') <=> x # c /\ x \in Range(backlog)
      BY <1>2, <2>1, RemoveAtElements
    <2>3. conn'[c].peer = "none" /\ \A d \in Conns \ {c} : conn'[d] = conn[d]
      BY <1>2, <2>1 DEF Unused
    <2>4. c \in Range(backlog)
      BY <2>1 DEF Range
    <2> QED BY <1>1, <2>2, <2>3, <2>4 DEF HandlesAccounted
  <1>5. CASE /\ backlog' = backlog /\ conn[c].peer # "none" /\ conn'[c].peer # "none"
             /\ \A d \in Conns \ {c} : conn'[d] = conn[d]
    BY <1>1, <1>5, HandlesUntouched
  <1>6. SendUpgrade(c) \/ Send(c) \/ Finish(c) \/ Read(c) \/ Leave(c) \/ Vanish(c) \/ Expire(c)
           => /\ backlog' = backlog /\ conn[c].peer # "none" /\ conn'[c].peer # "none"
              /\ \A d \in Conns \ {c} : conn'[d] = conn[d]
    <2>1. SendUpgrade(c) \/ Leave(c) \/ Vanish(c) \/ Expire(c)
           => /\ backlog' = backlog /\ conn[c].peer # "none" /\ conn'[c].peer # "none"
              /\ \A d \in Conns \ {c} : conn'[d] = conn[d]
      BY <1>2 DEF SendUpgrade, Leave, Vanish, Expire, Alive, Connection
    <2>2. Send(c) \/ Finish(c)
           => /\ backlog' = backlog /\ conn[c].peer # "none" /\ conn'[c].peer # "none"
              /\ \A d \in Conns \ {c} : conn'[d] = conn[d]
      BY <1>2 DEF Send, Finish, Connection
    <2>3. Read(c)
           => /\ backlog' = backlog /\ conn[c].peer # "none" /\ conn'[c].peer # "none"
              /\ \A d \in Conns \ {c} : conn'[d] = conn[d]
      BY <1>2 DEF Read, Alive, Connection
    <2> QED BY <2>1, <2>2, <2>3
  <1>7. CASE Abort(c)
    <2>1. CASE c \notin Range(backlog) /\ UNCHANGED backlog
               /\ conn' = [conn EXCEPT ![c].peer = "gone", ![c].inq = <<>>, ![c].outq = <<>>]
      <3>1. conn'[c].peer # "none" /\ \A d \in Conns \ {c} : conn'[d] = conn[d]
        BY <1>2, <2>1 DEF Connection
      <3> QED BY <1>5, <1>7, <2>1, <3>1 DEF Abort, Alive
    <2> QED BY <1>4, <1>7, <2>1 DEF Abort
  <1> QED BY <1>3, <1>5, <1>6, <1>7 DEF ClientNext

LEMMA HandlesStep ==
    TypeOK /\ Phase /\ HandlesAccounted /\ [Next]_vars => HandlesAccounted'
  <1> SUFFICES ASSUME TypeOK, Phase, HandlesAccounted, [Next]_vars PROVE HandlesAccounted'
    OBVIOUS
  <1>1. CASE UNCHANGED vars
    BY <1>1, HandlesUntouched DEF vars
  <1>2. CASE ServerNext
    <2>1. ASSUME NEW s \in Slots, NullPayload(s) PROVE Crash
      BY <2>1 DEF NullPayload
    <2> QED BY <1>2, <2>1, HandlesProcess, HandlesScan, HandlesHandle, HandlesCalls,
               ClientsAssumption
            DEF ServerNext, Slots
  <1>3. CASE BackendNext
    BY <1>3, HandlesCalls
  <1>4. CASE Interrupt \/ Restart
    BY <1>4, HandlesProcess
  <1>5. ASSUME NEW c \in Conns, ClientNext(c) PROVE HandlesAccounted'
    BY <1>5, HandlesClients
  <1> QED BY <1>1, <1>2, <1>3, <1>4, <1>5 DEF Next
-----------------------------------------------------------------------------
(* No login is carried over to another connection.                         *)

\* A step that leaves the slots alone and forgets no grant of a connection
\* that is in a slot.
LEMMA SessionsKept ==
    ASSUME TypeOK, SessionIsolation, slots' = slots,
           \A s \in Occupied : conn[slots[s].sock].granted \subseteq conn'[slots[s].sock].granted
    PROVE  SessionIsolation'
  BY DEF SessionIsolation, Occupied

\* What the steps of the clients do to the grants, and to what select() saw.
LEMMA ClientsKeep ==
    ASSUME TypeOK, HandlesAccounted, NEW c \in Conns, ClientNext(c)
    PROVE  \A s \in Occupied :
              /\ conn[slots[s].sock].granted \subseteq conn'[slots[s].sock].granted
              /\ Readable(slots[s].sock) => Readable(slots[s].sock)'
  <1> DEFINE Kept == \A d \in Conns : /\ conn[d].granted \subseteq conn'[d].granted
                                      /\ Readable(d) => conn'[d].inq # <<>> \/ conn'[d].peer = "gone"
  <1>1. conn \in [Conns -> Connection] /\ \A s \in Occupied : slots[s].sock \in Conns
    BY DEF TypeOK, Occupied, ClientInfo
  <1>2. slots' = slots
    BY ClientsLeaveServer DEF serverVars
  <1>3. Connect(c) \/ Vanish(c) => Kept
    <2>1. ASSUME NEW p, conn[c].peer # "gone", conn' = [conn EXCEPT ![c].peer = p] PROVE Kept
      BY <1>1, <2>1 DEF Readable, Connection
    <2> QED BY <2>1 DEF Connect, Vanish, Alive
  <1>4. SendUpgrade(c) => Kept
    BY <1>1 DEF SendUpgrade, Readable, Connection
  <1>5. Send(c) => Kept
    <2> SUFFICES ASSUME NEW f, conn' = [conn EXCEPT ![c].inq = Append(@, f)] PROVE Kept
      BY DEF Send
    <2>1. conn[c].inq \in Seq(Arrivals)
      BY <1>1 DEF Connection
    <2>2. Append(conn[c].inq, f) # <<>>
      BY <2>1
    <2> QED BY <1>1, <2>2 DEF Readable, Connection
  <1>6. Finish(c) => Kept
    <2> SUFFICES ASSUME NEW f, conn' = [conn EXCEPT ![c].inq = [@ EXCEPT ![Len(@)] = f]],
                        conn[c].inq # <<>>
                 PROVE  Kept
      BY DEF Finish, Unfinished
    <2>1. conn[c].inq \in Seq(Arrivals)
      BY <1>1 DEF Connection
    <2>2. DOMAIN [conn[c].inq EXCEPT ![Len(conn[c].inq)] = f] = 1 .. Len(conn[c].inq)
          /\ Len(conn[c].inq) \in Nat \ {0}
      BY <2>1
    <2>3. [conn[c].inq EXCEPT ![Len(conn[c].inq)] = f] # <<>>
      BY <2>2
    <2> QED BY <1>1, <2>3 DEF Readable, Connection
  <1>7. Read(c) => Kept
    BY <1>1 DEF Read, Alive, Readable, Connection
  <1>8. Leave(c) \/ Expire(c) => Kept
    <2>1. ASSUME conn' = [conn EXCEPT ![c].peer = "gone", ![c].outq = <<>>] PROVE Kept
      BY <1>1, <2>1 DEF Readable, Connection
    <2> QED BY <2>1 DEF Leave, Expire
  <1>9. CASE Abort(c)
    <2>1. CASE conn' = [conn EXCEPT ![c].peer = "gone", ![c].inq = <<>>, ![c].outq = <<>>]
      <3>1. Kept
        BY <1>1, <2>1 DEF Readable, Connection
      <3> QED BY <1>1, <1>2, <3>1 DEF Readable
    <2>2. CASE c \in Range(backlog) /\ conn' = [conn EXCEPT ![c] = Unused]
      <3>1. \A s \in Occupied : slots[s].sock # c
        BY <2>2 DEF HandlesAccounted
      <3>2. \A d \in Conns \ {c} : conn'[d] = conn[d]
        BY <1>1, <2>2
      <3> QED BY <1>1, <1>2, <3>1, <3>2 DEF Readable
    <2> QED BY <1>9, <2>1, <2>2 DEF Abort, Range
  <1>10. CASE Kept
    BY <1>1, <1>2, <1>10 DEF Readable
  <1> QED BY <1>3, <1>4, <1>5, <1>6, <1>7, <1>8, <1>9, <1>10 DEF ClientNext

LEMMA SessionsStep ==
    TypeOK /\ Phase /\ HandlesAccounted /\ SessionIsolation /\ [Next]_vars => SessionIsolation'
  <1> SUFFICES ASSUME TypeOK, Phase, HandlesAccounted, SessionIsolation, [Next]_vars
               PROVE  SessionIsolation'
    OBVIOUS
  <1>1. /\ slots \in [Slots -> ClientInfo] /\ conn \in [Conns -> Connection]
        /\ \A s \in Occupied : s \in Slots /\ slots[s].sock \in Conns
    BY DEF TypeOK, Occupied, ClientInfo
  <1>2. CASE ServerInit \/ Shutdown \/ Crash \/ Restart
    <2>1. \A s \in Slots : slots'[s].sock = Nil
      BY <1>1, <1>2 DEF ServerInit, Shutdown, Crash, Restart, SlotFor, ClientInfo
    <2> QED BY <2>1 DEF SessionIsolation
  <1>3. CASE UNCHANGED <<slots, conn>> \/ ServerInitFails
    BY <1>3 DEF SessionIsolation, ServerInitFails
  <1>4. ASSUME NEW s \in Slots, HandshakeOk(s) PROVE SessionIsolation'
    <2>1. cur \in Conns
      BY <1>4 DEF HandshakeOk, Phase, TypeOK
    <2>2. ~slots'[s].authenticated /\ \A t \in Slots \ {s} : slots'[t] = slots[t]
      BY <1>1, <1>4 DEF HandshakeOk, SlotFor
    <2>3. \A c \in Conns : conn'[c].granted = conn[c].granted
      BY <1>1, <1>4, <2>1 DEF HandshakeOk, Taken, Connection
    <2> QED BY <1>1, <2>2, <2>3 DEF SessionIsolation, Occupied
  <1>5. CASE HandshakeFailed
    <2>1. cur \in Conns /\ slots' = slots /\ conn' = [conn EXCEPT ![cur] = Unused]
      BY <1>5 DEF HandshakeFailed, Phase, TypeOK
    <2>2. \A s \in Occupied : slots[s].sock # cur
      BY DEF HandlesAccounted
    <2> QED BY <1>1, <2>1, <2>2, SessionsKept
  <1>6. ASSUME NEW s \in Slots, Disconnect(s) PROVE SessionIsolation'
    <2>1. s \in Occupied
      BY <1>6, ReadingSocket DEF Disconnect
    <2>2. slots'[s].sock = Nil /\ \A t \in Slots \ {s} : slots'[t] = slots[t]
      BY <1>1, <1>6 DEF Disconnect, SlotFor
    <2>3. \A t \in Occupied \ {s} : slots[t].sock # slots[s].sock
      BY <2>1 DEF HandlesAccounted
    <2>4. \A t \in Occupied \ {s} : conn'[slots[t].sock] = conn[slots[t].sock]
      BY <1>1, <1>6, <2>3 DEF Disconnect
    <2> QED BY <2>2, <2>4 DEF SessionIsolation, Occupied
  <1>7. ASSUME NEW s \in Slots,
               Ignore(s) \/ Ping(s) \/ Credentials(s) \/ Unauthorized(s) \/ Location(s)
        PROVE  SessionIsolation'
    <2>1. slots[s].sock \in Conns /\ conn' = Taken(slots[s].sock) /\ slots' = slots
      BY <1>7, ReadingSocket DEF Ignore, Ping, Credentials, Unauthorized, Location, Handle
    <2>2. \A d \in Conns : conn'[d].granted = conn[d].granted
      BY <1>1, <2>1 DEF Taken, Connection
    <2> QED BY <1>1, <2>1, <2>2, SessionsKept
  <1>8. ASSUME NEW r, LoginReturn(r) PROVE SessionIsolation'
    <2>1. i \in Slots /\ i \in Occupied /\ slots[i].sock \in Conns
      BY <1>1, <1>8 DEF LoginReturn, Phase
    <2>2. CASE r = "ok"
      <3>1. slots' = [slots EXCEPT ![i].authenticated = TRUE, ![i].user = work.arg]
        BY <1>8, <2>2 DEF LoginReturn, Granted
      <3>2. /\ slots'[i].user = work.arg /\ \A t \in Slots : slots'[t].sock = slots[t].sock
            /\ \A t \in Slots \ {i} : slots'[t] = slots[t]
        BY <1>1, <2>1, <3>1 DEF ClientInfo
      <3>3. conn' = [conn EXCEPT ![slots[i].sock].granted = @ \union {work.arg}]
        BY <1>8, <2>2 DEF LoginReturn
      <3>4. /\ work.arg \in conn'[slots[i].sock].granted
            /\ \A d \in Conns : conn[d].granted \subseteq conn'[d].granted
        BY <1>1, <2>1, <3>3 DEF Connection
      <3> QED BY <1>1, <2>1, <3>2, <3>4 DEF SessionIsolation, Occupied
    <2>3. CASE r # "ok"
      BY <1>8, <2>3, <1>3 DEF LoginReturn, Granted
    <2> QED BY <2>2, <2>3
  <1>9. CASE Reply
    <2>1. slots[i].sock \in Conns /\ slots' = slots /\ conn' = Written(slots[i].sock, work)
      BY <1>1, <1>9 DEF Reply, Phase
    <2>2. \A d \in Conns : conn'[d].granted = conn[d].granted
      BY <1>1, <2>1 DEF Written, Connection
    <2> QED BY <1>1, <2>1, <2>2, SessionsKept
  <1>10. ASSUME NEW s \in Slots, RelayTo(s) PROVE SessionIsolation'
    <2> DEFINE m == [kind |-> "location", arg |-> work.arg]
    <2>1. slots[s].sock \in Conns /\ slots' = slots /\ conn' = Written(slots[s].sock, m)
      BY <1>1, <1>10 DEF RelayTo, NextInAudience, Audience
    <2>2. \A d \in Conns : conn'[d].granted = conn[d].granted
      BY <1>1, <2>1 DEF Written, Connection
    <2> QED BY <1>1, <2>1, <2>2, SessionsKept
  <1>11. ASSUME NEW c \in Conns, ClientNext(c) PROVE SessionIsolation'
    <2>1. slots' = slots
      BY <1>11, ClientsLeaveServer DEF serverVars
    <2> QED BY <1>11, <2>1, ClientsKeep, SessionsKept
  <1>12. Interrupt \/ Select \/ AcceptNothing \/ Accept \/ ScanDone \/ RelayDone
           \/ (\E r \in Results : StoreReturn(r)) \/ UNCHANGED vars => UNCHANGED <<slots, conn>>
    BY DEF Interrupt, Select, AcceptNothing, Accept, ScanDone, RelayDone, StoreReturn, vars
  <1>13. \A s \in Slots : NullPayload(s) => Crash
    BY DEF NullPayload
  <1> QED BY <1>2, <1>3, <1>4, <1>5, <1>6, <1>7, <1>8, <1>9, <1>10, <1>11, <1>12, <1>13
          DEF Next, ServerNext, BackendNext, HttpReturn
-----------------------------------------------------------------------------
(* What select() reported stays readable until the scan comes to it.       *)

\* A step that only moves on in the scan, or stays where it is.
LEMMA PendingKept ==
    ASSUME TypeOK, StillReadable,
           slots' = slots, readfds' = readfds,
           \A s \in Occupied : Readable(slots[s].sock) => Readable(slots[s].sock)',
           \/ pc' = pc /\ i' = i
           \/ pc = "accept" /\ pc' \in {"handshake", "scan"}
           \/ pc \in {"post", "reply", "relay"} /\ pc' \in {"post", "reply", "relay"} /\ i' = i
    PROVE  StillReadable'
  <1>1. Occupied' = Occupied /\ \A s \in Occupied : slots'[s].sock = slots[s].sock
    BY DEF Occupied
  <1>2. i' = i => Pending' = Pending
    BY <1>1 DEF Pending
  <1>3. Pending' \subseteq Occupied /\ \A s \in Pending' : slots[s].sock \in readfds
    BY <1>1 DEF Pending
  <1>4. CASE pc' = pc /\ i' = i
    <2>1. Pending \subseteq Occupied
      BY DEF Pending
    <2> QED BY <1>1, <1>2, <1>4, <2>1 DEF StillReadable
  <1>5. CASE pc = "accept" /\ pc' \in {"handshake", "scan"}
    <2>1. \A c \in readfds : Readable(c) /\ \E s \in Occupied : slots[s].sock = c
      BY <1>5 DEF StillReadable
    <2>2. \A c \in readfds : Readable(c)' /\ \E s \in Occupied : slots[s].sock = c
      BY <2>1
    <2> QED BY <1>1, <1>3, <1>5, <2>2 DEF StillReadable
  <1>6. CASE pc \in {"post", "reply", "relay"} /\ pc' \in {"post", "reply", "relay"} /\ i' = i
    <2>1. Pending \subseteq Occupied
      BY DEF Pending
    <2> QED BY <1>1, <1>2, <1>6, <2>1 DEF StillReadable
  <1> QED BY <1>4, <1>5, <1>6

\* A step of the scan that has finished with slot s, or goes on to handle
\* its frame: the slots after s are as they were.
LEMMA PendingAdvances ==
    ASSUME TypeOK, StillReadable, NEW s \in Slots, readfds' = readfds,
           \/ pc = "scan"
           \/ pc \in {"post", "reply", "relay"} /\ i = s,
           \/ pc' = "scan" /\ i' = s + 1
           \/ pc' \in {"post", "reply", "relay"} /\ i' = s,
           i <= s,
           \A t \in Slots \ {s} : slots'[t] = slots[t],
           \A t \in Occupied \ {s} : Readable(slots[t].sock) => Readable(slots[t].sock)'
    PROVE  StillReadable'
  <1>1. Slots \subseteq Int /\ i \in Int
    BY ClientsAssumption DEF Slots, TypeOK
  <1>2. \A t \in Pending' : t # i' \/ pc' = "scan" => t \in Pending \ {s} /\ slots'[t] = slots[t]
    BY <1>1 DEF Pending, Occupied
  <1>3. \A t \in Pending \ {s} : Readable(slots[t].sock)
    BY DEF StillReadable
  <1>4. \A t \in Pending \ {s} : Readable(slots[t].sock)'
    BY <1>3 DEF Pending
  <1>5. pc' = "scan" => \A t \in Pending' : Readable(slots[t].sock)'
    BY <1>2, <1>4
  <1>6. pc' # "scan" => \A t \in Pending' \ {i'} : Readable(slots[t].sock)'
    BY <1>2, <1>4
  <1> QED BY <1>5, <1>6 DEF StillReadable

LEMMA StillReadableStep ==
    TypeOK /\ Phase /\ HandlesAccounted /\ StillReadable /\ [Next]_vars => StillReadable'
  <1> SUFFICES ASSUME TypeOK, Phase, HandlesAccounted, StillReadable, [Next]_vars
               PROVE  StillReadable'
    OBVIOUS
  <1>1. /\ slots \in [Slots -> ClientInfo] /\ conn \in [Conns -> Connection]
        /\ \A s \in Occupied : s \in Slots /\ slots[s].sock \in Conns
    BY DEF TypeOK, Occupied, ClientInfo
  <1>2. \A s \in Slots : s \in Int /\ s <= s
    BY DEF Slots
  <1>3. CASE UNCHANGED vars \/ Interrupt
    <2>1. Occupied' = Occupied /\ Pending' = Pending /\ UNCHANGED <<pc, slots, readfds, i, conn>>
      BY <1>3 DEF vars, Interrupt, Occupied, Pending
    <2> QED BY <2>1, PendingKept DEF Readable
  <1>4. CASE ServerInit \/ ServerInitFails \/ Shutdown \/ Crash \/ Restart \/ ScanDone
    BY <1>4 DEF ServerInit, ServerInitFails, Shutdown, Crash, Restart, ScanDone, StillReadable
  <1>5. CASE Select
    <2>1. /\ slots' = slots /\ conn' = conn /\ pc' \in {"accept", "scan"}
          /\ \A c \in readfds' : Readable(c) /\ \E s \in Occupied : slots[s].sock = c
      BY <1>5 DEF Select
    <2>2. Occupied' = Occupied
      BY <2>1 DEF Occupied
    <2>3. \A s \in Pending' : slots[s].sock \in readfds'
      BY <2>1 DEF Pending
    <2> QED BY <2>1, <2>2, <2>3 DEF StillReadable, Readable
  <1>6. CASE AcceptNothing \/ Accept
    BY <1>6, PendingKept DEF AcceptNothing, Accept, Readable
  <1>7. ASSUME NEW s \in Slots, HandshakeOk(s) PROVE StillReadable'
    <2>1. cur \in Conns /\ pc = "handshake" /\ pc' = "scan" /\ readfds' = readfds
      BY <1>7 DEF HandshakeOk, Phase, TypeOK
    <2>2. slots'[s].sock = cur /\ \A t \in Slots \ {s} : slots'[t] = slots[t]
      BY <1>1, <1>7 DEF HandshakeOk, SlotFor
    <2>3. \A c \in readfds : Readable(c) /\ c # cur /\ c \in Conns
      BY <1>1, <2>1 DEF StillReadable, HandlesAccounted
    <2>4. \A c \in Conns \ {cur} : conn'[c] = conn[c]
      BY <1>1, <1>7, <2>1 DEF HandshakeOk, Taken
    <2>5. \A t \in Pending' : slots'[t].sock \in readfds
      BY <2>1 DEF Pending
    <2> QED BY <2>1, <2>3, <2>4, <2>5 DEF StillReadable, Readable
  <1>8. CASE HandshakeFailed
    <2>1. cur \in Conns /\ pc = "handshake" /\ pc' = "scan" /\ readfds' = readfds /\ slots' = slots
      BY <1>8 DEF HandshakeFailed, Phase, TypeOK
    <2>2. \A c \in readfds : Readable(c) /\ c # cur /\ c \in Conns
      BY <1>1, <2>1 DEF StillReadable, HandlesAccounted
    <2>3. \A c \in Conns \ {cur} : conn'[c] = conn[c]
      BY <1>1, <1>8, <2>1 DEF HandshakeFailed
    <2>4. \A t \in Pending' : slots'[t].sock \in readfds
      BY <2>1 DEF Pending
    <2> QED BY <2>1, <2>2, <2>3, <2>4 DEF StillReadable, Readable
  <1>9. ASSUME NEW s \in Slots,
               Disconnect(s) \/ Ignore(s) \/ Ping(s) \/ Credentials(s) \/ Unauthorized(s) \/ Location(s)
        PROVE  StillReadable'
    <2>1. s \in Occupied /\ pc = "scan" /\ readfds' = readfds /\ i <= s
      BY <1>9, ReadingSocket
      DEF Disconnect, Ignore, Ping, Credentials, Unauthorized, Location, Handle, Reading,
          NextPending, Pending
    <2>2. \/ pc' = "scan" /\ i' = s + 1
          \/ pc' \in {"post", "reply", "relay"} /\ i' = s
      BY <1>9, <2>1 DEF Disconnect, Ignore, Ping, Credentials, Unauthorized, Location, Handle
    <2>3. \A t \in Slots \ {s} : slots'[t] = slots[t]
      BY <1>1, <1>9 DEF Disconnect, Ignore, Ping, Credentials, Unauthorized, Location, Handle
    <2>4. \A t \in Occupied \ {s} : slots[t].sock # slots[s].sock
      BY <2>1 DEF HandlesAccounted
    <2>5. \A c \in Conns \ {slots[s].sock} : conn'[c] = conn[c]
      BY <1>1, <1>9
      DEF Disconnect, Ignore, Ping, Credentials, Unauthorized, Location, Handle, Taken
    <2>6. \A t \in Occupied \ {s} : Readable(slots[t].sock) => Readable(slots[t].sock)'
      BY <1>1, <2>3, <2>4, <2>5 DEF Readable
    <2> QED BY <2>1, <2>2, <2>3, <2>6, PendingAdvances
  <1>10. ASSUME NEW r, LoginReturn(r) PROVE StillReadable'
    <2>1. i \in Slots /\ slots[i].sock \in Conns /\ pc = "post"
      BY <1>1, <1>10 DEF LoginReturn, Phase
    <2>2. \A t \in Slots \ {i} : slots'[t] = slots[t]
      BY <1>1, <1>10, <2>1 DEF LoginReturn
    <2>3. \A c \in Conns : conn'[c].inq = conn[c].inq /\ conn'[c].peer = conn[c].peer
      BY <1>1, <1>10, <2>1 DEF LoginReturn, Connection
    <2>4. \A t \in Occupied \ {i} : Readable(slots[t].sock) => Readable(slots[t].sock)'
      BY <1>1, <2>2, <2>3 DEF Readable
    <2> QED BY <1>2, <1>10, <2>1, <2>2, <2>4, PendingAdvances DEF LoginReturn
  <1>11. ASSUME NEW r, StoreReturn(r) PROVE StillReadable'
    BY <1>11, PendingKept DEF StoreReturn, Readable
  <1>12. CASE Reply \/ RelayDone
    <2>1. i \in Slots /\ slots[i].sock \in Conns /\ slots' = slots
      BY <1>1, <1>12 DEF Reply, RelayDone, Phase
    <2>2. \A c \in Conns : conn'[c].inq = conn[c].inq /\ conn'[c].peer = conn[c].peer
      <3>1. CASE Reply
        <4>1. conn' = Written(slots[i].sock, work)
          BY <3>1 DEF Reply
        <4> QED BY <1>1, <2>1, <4>1 DEF Written, Connection
      <3>2. CASE RelayDone
        BY <3>2 DEF RelayDone
      <3> QED BY <1>12, <3>1, <3>2
    <2>3. \A t \in Occupied : Readable(slots[t].sock) => Readable(slots[t].sock)'
      BY <1>1, <2>1, <2>2 DEF Readable
    <2>4. pc \in {"reply", "relay"} /\ pc' = "scan" /\ i' = i + 1 /\ readfds' = readfds
      BY <1>12 DEF Reply, RelayDone
    <2> QED BY <1>2, <2>1, <2>3, <2>4, PendingAdvances
  <1>13. ASSUME NEW s \in Slots, RelayTo(s) PROVE StillReadable'
    <2>1. slots[s].sock \in Conns /\ slots' = slots
      BY <1>1, <1>13 DEF RelayTo, NextInAudience, Audience
    <2>2. \A c \in Conns : conn'[c].inq = conn[c].inq /\ conn'[c].peer = conn[c].peer
      BY <1>1, <1>13, <2>1 DEF RelayTo, Written, Connection
    <2>3. \A t \in Occupied : Readable(slots[t].sock) => Readable(slots[t].sock)'
      BY <1>1, <2>1, <2>2 DEF Readable
    <2> QED BY <1>13, <2>1, <2>3, PendingKept DEF RelayTo
  <1>14. ASSUME NEW c \in Conns, ClientNext(c) PROVE StillReadable'
    BY <1>14, ClientsLeaveServer, ClientsKeep, PendingKept DEF serverVars
  <1>15. \A s \in Slots : NullPayload(s) => Crash
    BY DEF NullPayload
  <1> QED BY <1>3, <1>4, <1>5, <1>6, <1>7, <1>8, <1>9, <1>10, <1>11, <1>12, <1>13, <1>14, <1>15
          DEF Next, ServerNext, BackendNext, HttpReturn
-----------------------------------------------------------------------------
(* The theorems.                                                           *)

\* IInv is inductive.
LEMMA IInvInitially == Init => IInv
  <1> SUFFICES ASSUME Init PROVE IInv
    OBVIOUS
  <1>1. TypeOK /\ Phase
    BY InitTypePhase
  <1>2. Occupied = {}
    BY DEF Init, Occupied, SlotFor
  <1>3. HandlesAccounted
    BY <1>2, NilAssumption DEF Init, HandlesAccounted, Unused, Range, IsInjective
  <1>4. SessionIsolation /\ StillReadable
    BY DEF Init, SessionIsolation, StillReadable, SlotFor
  <1> QED BY <1>1, <1>3, <1>4 DEF IInv

LEMMA IInvPreserved == IInv /\ [Next]_vars => IInv'
  BY TypePhaseStep, HandlesStep, SessionsStep, StillReadableStep DEF IInv

\* The inductive invariant of the event loop (server.c:73-253) holds in every
\* state: everything below follows from it.
THEOREM Invariance == Spec => []IInv
  BY IInvInitially, IInvPreserved, PTL DEF Spec

\* No slot ever holds a login that the backend did not confirm on the
\* connection the slot holds (server_run and handle_auth, for any number of
\* clients and slots, any reuse of handles, and any results of the POSTs).
THEOREM SessionsAreIsolated == Spec => []SessionIsolation
  BY Invariance, PTL DEF IInv

\* No socket leaks and none is served twice.
THEOREM HandlesAreAccounted == Spec => []HandlesAccounted
  BY Invariance, PTL DEF IInv

\* The scan never enters a blocking read on a socket with nothing to read.
THEOREM ScanReadsReadySockets == Spec => []ScanNeverIdles
  <1>1. IInv => ScanNeverIdles
    BY DEF IInv, StillReadable, ScanNeverIdles
  <1> QED BY <1>1, Invariance, PTL

\* server_broadcast writes to each confirmed client other than the sender,
\* in slot order, and to nobody else.
THEOREM RelaysReachTheAudience == Spec => RelayAudience
  <1> DEFINE Reached == \A c \in Conns :
          conn'[c].outq # conn[c].outq /\ pc = "relay" /\ pc' = "relay" /\ j' > j =>
             /\ conn[c].granted # {}
             /\ c # slots[i].sock
             /\ \E s \in Slots : s >= j /\ s = j' - 1 /\ slots[s].sock = c
  <1>1. ASSUME IInv, Next PROVE Reached
    <2> SUFFICES ASSUME NEW c \in Conns, conn'[c].outq # conn[c].outq,
                        pc = "relay", pc' = "relay", j' > j
                 PROVE  /\ conn[c].granted # {}
                        /\ c # slots[i].sock
                        /\ \E s \in Slots : s >= j /\ s = j' - 1 /\ slots[s].sock = c
      OBVIOUS
    <2>1. j \in Int
      BY <1>1 DEF IInv, TypeOK
    <2>2. \A d \in Conns : ~ClientNext(d)
      BY <2>1, ClientsLeaveServer DEF serverVars
    <2>3. PICK s \in Slots : RelayTo(s)
      BY <1>1, <2>1, <2>2
      DEF Next, ServerNext, BackendNext, HttpReturn, LoginReturn, StoreReturn, ServerInit,
          ServerInitFails, Shutdown, Select, AcceptNothing, Accept, HandshakeFailed, ScanDone, Reply,
          RelayDone, HandshakeOk, Disconnect, Ignore, Ping, Credentials, Unauthorized,
          Location, NullPayload, Reading, Interrupt, Restart
    <2>4. /\ s \in Occupied /\ s >= j /\ slots[s].sock # slots[i].sock /\ slots[s].authenticated
          /\ j' = s + 1
      BY <2>3 DEF RelayTo, NextInAudience, Audience
    <2>5. slots[s].sock = c
      <3>1. conn \in [Conns -> Connection] /\ slots[s].sock \in Conns
        BY <1>1, <2>4 DEF IInv, TypeOK, Occupied, ClientInfo
      <3> QED BY <2>3, <3>1 DEF RelayTo, Written, Connection
    <2>6. slots[s].user \in conn[c].granted
      BY <1>1, <2>4, <2>5 DEF IInv, SessionIsolation, Occupied
    <2>7. s = j' - 1
      BY <2>4 DEF Slots
    <2> QED BY <2>4, <2>5, <2>6, <2>7
  <1>2. IInv /\ [Next]_vars => [Reached]_vars
    BY <1>1
  <1> QED BY <1>2, Invariance, PTL DEF Spec, RelayAudience
=============================================================================
