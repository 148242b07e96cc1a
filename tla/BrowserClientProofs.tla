------------------------ MODULE BrowserClientProofs ------------------------
(***************************************************************************)
(* Theorems about BrowserClient, for every number of sockets and of drills *)
(* that wait: its callbacks and timers in any order.                       *)
(***************************************************************************)
EXTENDS BrowserClient, TLAPS

\* A page that shows "Live" is logged in on its current socket, and waits for
\* no other answer there.
LoggedInWhenLive ==
    state = "connected" => /\ ws # 0 /\ sock[ws].ready \in {"open", "closing"}
                           /\ sock[ws].authed /\ ~sock[ws].asked

\* A socket that has not opened has carried nothing yet.
UnopenedUnused ==
    \A k \in Sockets : sock[k].ready = "connecting" => ~sock[k].authed /\ sock[k].located = "no"

\* When a login was answered with no old socket left, none is left after: the
\* one onclose that is still to come is that of the current socket.
NoOldSocketLeft ==
    ~overtaken /\ ws # 0 /\ sock[ws].authed =>
        /\ \A o \in Sockets \ {ws} : sock[o].ready = "closed"
        /\ sock[ws].ready = "open" => state = "connected"

\* Positions that are still taken from a watch or the route when the page is
\* no longer live will be stopped by the onclose of an old socket.
StoppedByOldSocket ==
    ~overtaken /\ (watch \/ demo) =>
        state = "connected" \/ \E o \in Sockets \ {ws} : sock[o].ready = "closing"

IInv == /\ TypeOK /\ OnlyCurrentLive /\ NoLocationBeforeLogin
        /\ LoggedInWhenLive /\ UnopenedUnused /\ NoOldSocketLeft
        /\ StoppedByOldSocket /\ OnePositionSource /\ SignedOutStaysOut
-----------------------------------------------------------------------------
(* What a step on the socket objects leaves of each of them.               *)

\* ws.close(): the current socket, if it was live, is closing; nothing else.
LEMMA ClosingFields ==
    ASSUME TypeOK
    PROVE  /\ CurrentClosing \in [Sockets -> WebSocket]
           /\ \A k \in Sockets :
                /\ CurrentClosing[k].asked = sock[k].asked
                /\ CurrentClosing[k].authed = sock[k].authed
                /\ CurrentClosing[k].located = sock[k].located
                /\ CurrentClosing[k].ready = IF k = ws /\ Live(k) THEN "closing" ELSE sock[k].ready
  BY DEF TypeOK, CurrentClosing, Live, WebSocket

\* new WebSocket: one that was closed is made anew and becomes the current one,
\* the one before is closing.
LEMMA ConnectFields ==
    ASSUME TypeOK, connectAndAuth
    PROVE  /\ sock' \in [Sockets -> WebSocket] /\ ws' \in Sockets /\ ws' # ws
           /\ sock[ws'].ready = "closed" /\ sock'[ws'] = NewSocket
           /\ \A k \in Sockets \ {ws'} :
                /\ sock'[k].asked = sock[k].asked /\ sock'[k].authed = sock[k].authed
                /\ sock'[k].located = sock[k].located
                /\ sock'[k].ready = IF k = ws /\ Live(k) THEN "closing" ELSE sock[k].ready
  <1>1. PICK n \in Sockets : /\ n # ws /\ sock[n].ready = "closed" /\ ws' = n
                             /\ sock' = [CurrentClosing EXCEPT ![n] = NewSocket]
    BY DEF connectAndAuth, Fresh
  <1>2. NewSocket \in WebSocket
    BY DEF NewSocket, WebSocket
  <1> DEFINE closed == CurrentClosing
  <1>3. closed \in [Sockets -> WebSocket]
    BY ClosingFields
  <1>4. sock' = [closed EXCEPT ![n] = NewSocket]
    BY <1>1
  <1>5. \A k \in Sockets :
          /\ closed[k].asked = sock[k].asked /\ closed[k].authed = sock[k].authed
          /\ closed[k].located = sock[k].located
          /\ closed[k].ready = IF k = ws /\ Live(k) THEN "closing" ELSE sock[k].ready
    BY ClosingFields
  <1> HIDE DEF closed
  <1>6. /\ sock' \in [Sockets -> WebSocket] /\ sock'[n] = NewSocket
        /\ \A k \in Sockets \ {n} : sock'[k] = closed[k]
    BY <1>2, <1>3, <1>4
  <1> QED BY <1>1, <1>5, <1>6

\* A location on the current socket.
LEMMA SentFields ==
    ASSUME TypeOK, IsOpen
    PROVE  /\ LocationSent \in [Sockets -> WebSocket] /\ ws \in Sockets
           /\ \A k \in Sockets :
                /\ LocationSent[k].ready = sock[k].ready
                /\ LocationSent[k].asked = sock[k].asked
                /\ LocationSent[k].authed = sock[k].authed
                /\ k # ws => LocationSent[k].located = sock[k].located
           /\ sock[ws].authed => LocationSent[ws].located \in {sock[ws].located, "yes"}
  BY DEF TypeOK, IsOpen, LocationSent, WebSocket
-----------------------------------------------------------------------------
(* Every step keeps IInv.                                                  *)

LEMMA IInvInitially == Init => IInv
  <1> SUFFICES ASSUME Init PROVE IInv
    OBVIOUS
  <1>1. /\ sock \in [Sockets -> WebSocket]
        /\ \A k \in Sockets : sock[k].ready = "closed" /\ sock[k].located = "no"
    <2> DEFINE unused == [NewSocket EXCEPT !.ready = "closed"]
    <2>1. sock = [k \in Sockets |-> unused]
      BY DEF Init
    <2>2. unused \in WebSocket /\ unused.ready = "closed" /\ unused.located = "no"
      <3>1. NewSocket \in WebSocket /\ NewSocket.located = "no"
        BY DEF NewSocket, WebSocket
      <3> QED BY <3>1 DEF WebSocket
    <2> HIDE DEF unused
    <2> QED BY <2>1, <2>2
  <1>2. TypeOK
    <2>1. {authTimer, watch, orphan, demo, busy, app, known, overtaken, out} \subseteq BOOLEAN
      BY DEF Init
    <2>2. ws \in Sockets \union {0} /\ state \in {"disconnected", "connecting", "connected"} /\ drills \in 0 .. MaxDrills
      BY SocketsAssumption DEF Init
    <2> QED BY <1>1, <2>1, <2>2 DEF TypeOK
  <1>3. OnlyCurrentLive /\ NoLocationBeforeLogin /\ UnopenedUnused
    BY <1>1 DEF OnlyCurrentLive, NoLocationBeforeLogin, UnopenedUnused, Live
  <1>4. LoggedInWhenLive /\ NoOldSocketLeft /\ StoppedByOldSocket
    BY DEF Init, LoggedInWhenLive, NoOldSocketLeft, StoppedByOldSocket
  <1>5. OnePositionSource /\ SignedOutStaysOut
    BY DEF Init, OnePositionSource, SignedOutStaysOut
  <1> QED BY <1>2, <1>3, <1>4, <1>5 DEF IInv

\* connectAndAuth, by whichever handler.
LEMMA ConnectKeeps ==
    ASSUME IInv, connectAndAuth, UNCHANGED <<watch, orphan, demo, overtaken>>,
           busy' \in BOOLEAN, app' \in BOOLEAN, known' \in BOOLEAN, drills' \in 0 .. MaxDrills, out' \in BOOLEAN, ~out'
    PROVE  IInv'
  <1>1. TypeOK /\ OnlyCurrentLive
    BY DEF IInv
  <1>2. TypeOK'
    BY <1>1, ConnectFields DEF TypeOK, connectAndAuth, updateConnectionState
  <1>3. OnlyCurrentLive'
    BY <1>1, ConnectFields DEF OnlyCurrentLive, Live
  <1>4. NoLocationBeforeLogin'
    BY <1>1, ConnectFields DEF IInv, NoLocationBeforeLogin, NewSocket
  <1>5. LoggedInWhenLive'
    BY DEF connectAndAuth, updateConnectionState, LoggedInWhenLive
  <1>6. UnopenedUnused'
    BY <1>1, ConnectFields DEF IInv, UnopenedUnused, NewSocket
  <1>7. NoOldSocketLeft'
    BY <1>1, ConnectFields DEF NoOldSocketLeft, NewSocket
  <1>8. StoppedByOldSocket'
    <2>1. CASE state = "connected"
      BY <2>1, <1>1, ConnectFields DEF IInv, TypeOK, LoggedInWhenLive, StoppedByOldSocket, Live
    <2>2. CASE state # "connected"
      BY <2>2, <1>1, ConnectFields DEF IInv, StoppedByOldSocket
    <2> QED BY <2>1, <2>2
  <1>9. OnePositionSource' /\ SignedOutStaysOut'
    BY DEF IInv, OnePositionSource, SignedOutStaysOut
  <1> QED BY <1>2, <1>3, <1>4, <1>5, <1>6, <1>7, <1>8, <1>9 DEF IInv

\* A location leaves everything but the socket's history alone.
LEMMA SentKeeps ==
    ASSUME IInv, IsOpen, state = "connected", sock' = LocationSent,
           UNCHANGED <<ws, state, authTimer, watch, orphan, demo, busy, app, known,
                       drills, overtaken, out>>
    PROVE  IInv'
  <1>1. TypeOK
    BY DEF IInv
  <1>2. TypeOK'
    BY <1>1, SentFields DEF TypeOK
  <1>3. NoLocationBeforeLogin'
    BY <1>1, SentFields DEF IInv, NoLocationBeforeLogin, LoggedInWhenLive
  <1>4. UnopenedUnused'
    BY <1>1, SentFields DEF IInv, UnopenedUnused, LoggedInWhenLive
  <1>5. OnlyCurrentLive' /\ LoggedInWhenLive' /\ NoOldSocketLeft' /\ StoppedByOldSocket'
    BY <1>1, SentFields
    DEF IInv, OnlyCurrentLive, LoggedInWhenLive, NoOldSocketLeft, StoppedByOldSocket, Live
  <1>6. OnePositionSource' /\ SignedOutStaysOut'
    BY <1>1, SentFields DEF IInv, OnePositionSource, SignedOutStaysOut, Live
  <1> QED BY <1>2, <1>3, <1>4, <1>5, <1>6 DEF IInv

\* ws.close(), or nothing, with the rest of a handler that starts nothing.
LEMMA StopKeeps ==
    ASSUME IInv, sock' \in {sock, CurrentClosing}, ws' = ws, UNCHANGED <<orphan, known, overtaken>>,
           \/ UNCHANGED <<watch, demo>>
           \/ ~watch' /\ ~demo' /\ watch' \in BOOLEAN /\ demo' \in BOOLEAN,
           \/ state' = state
           \/ state # "connected" /\ state' = "disconnected" /\ ~(ws # 0 /\ sock'[ws].ready = "open"),
           authTimer' \in BOOLEAN, busy' \in BOOLEAN, app' \in BOOLEAN, out' \in BOOLEAN,
           drills' \in 0 .. MaxDrills,
           out' => /\ ~app' /\ drills' = 0
                   /\ out \/ (sock' = CurrentClosing /\ ~demo' /\ ~watch')
    PROVE  IInv'
  <1>1. TypeOK
    BY DEF IInv
  <1>2. /\ sock' \in [Sockets -> WebSocket]
        /\ \A k \in Sockets :
             /\ sock'[k].asked = sock[k].asked /\ sock'[k].authed = sock[k].authed
             /\ sock'[k].located = sock[k].located
             /\ \/ sock'[k].ready = sock[k].ready
                \/ k = ws /\ Live(k) /\ sock'[k].ready = "closing"
    BY <1>1, ClosingFields DEF TypeOK
  <1>3. TypeOK'
    BY <1>1, <1>2 DEF TypeOK
  <1>4. OnlyCurrentLive' /\ NoLocationBeforeLogin' /\ UnopenedUnused'
    BY <1>2 DEF IInv, OnlyCurrentLive, NoLocationBeforeLogin, UnopenedUnused, Live
  <1>5. LoggedInWhenLive'
    BY <1>1, <1>2 DEF IInv, TypeOK, LoggedInWhenLive, Live
  <1>6. NoOldSocketLeft'
    BY <1>1, <1>2 DEF IInv, TypeOK, NoOldSocketLeft
  <1>7. StoppedByOldSocket'
    BY <1>1, <1>2 DEF IInv, TypeOK, StoppedByOldSocket
  <1>8. OnePositionSource'
    BY DEF IInv, OnePositionSource
  <1>9. SignedOutStaysOut'
    BY <1>1, <1>2, ClosingFields DEF IInv, SignedOutStaysOut, OnlyCurrentLive, Live
  <1> QED BY <1>3, <1>4, <1>5, <1>6, <1>7, <1>8, <1>9 DEF IInv

\* Clicks.
LEMMA UserKeeps == ASSUME IInv, UserNext PROVE IInv'
  <1>1. TypeOK
    BY DEF IInv
  <1>2. CASE SignIn
    BY <1>1, <1>2, ConnectKeeps DEF SignIn, TypeOK
  <1>3. CASE toggleDemoRoute
    <2>1. TypeOK'
      BY <1>1, <1>3 DEF toggleDemoRoute, startSharing, stopSharing, TypeOK
    <2>2. UNCHANGED <<sock, ws, state, overtaken, out>> /\ app
      BY <1>3 DEF toggleDemoRoute
    <2>3. OnlyCurrentLive' /\ NoLocationBeforeLogin' /\ UnopenedUnused' /\ LoggedInWhenLive' /\ NoOldSocketLeft'
      BY <2>2 DEF IInv, OnlyCurrentLive, NoLocationBeforeLogin, UnopenedUnused, LoggedInWhenLive,
                  NoOldSocketLeft, Live
    <2>4. StoppedByOldSocket' /\ SignedOutStaysOut'
      BY <1>3, <2>2 DEF IInv, toggleDemoRoute, startSharing, stopSharing, StoppedByOldSocket,
                        SignedOutStaysOut
    <2>5. OnePositionSource'
      <3>1. CASE demo /\ ~demo'
        <4>1. orphan' \in {orphan, orphan \/ watch}
          BY <1>3, <3>1 DEF toggleDemoRoute, startSharing
        <4> QED BY <2>2, <3>1, <4>1 DEF IInv, OnePositionSource
      <3>2. CASE ~watch' /\ UNCHANGED orphan
        BY <2>2, <3>2 DEF IInv, OnePositionSource
      <3> QED BY <1>3, <3>1, <3>2 DEF toggleDemoRoute, stopSharing
    <2> QED BY <2>1, <2>3, <2>4, <2>5 DEF IInv
  <1>4. CASE runBurstTest
    BY <1>4, SentKeeps DEF runBurstTest
  <1>5. CASE runReconnectDrill
    <2>1. ~out
      BY <1>5 DEF IInv, runReconnectDrill, SignedOutStaysOut
    <2>2. CASE IsOpen /\ sock' = CurrentClosing /\ drills < MaxDrills /\ drills' = drills + 1 /\ UNCHANGED <<ws, state, authTimer>>
      <3>1. drills' \in 0 .. MaxDrills
        BY <1>1, <2>2, SocketsAssumption DEF TypeOK
      <3> QED BY <1>1, <1>5, <2>1, <2>2, <3>1, StopKeeps DEF runReconnectDrill, TypeOK
    <2>3. CASE connectAndAuth /\ UNCHANGED drills
      BY <1>1, <1>5, <2>1, <2>3, ConnectKeeps DEF runReconnectDrill, TypeOK
    <2> QED BY <1>5, <2>2, <2>3 DEF runReconnectDrill
  <1>6. CASE disconnect
    BY <1>1, <1>6, StopKeeps DEF disconnect, stopSharing, TypeOK
  <1> QED BY <1>2, <1>3, <1>4, <1>5, <1>6 DEF UserNext

\* Positions and timers.
LEMMA TimersKeep == ASSUME IInv, Position \/ AuthTimeout \/ DrillTimeout PROVE IInv'
  <1>1. TypeOK
    BY DEF IInv
  <1>2. CASE Position
    BY <1>2, SentKeeps DEF Position
  <1>3. CASE AuthTimeout
    <2>1. CASE state = "connected"
      BY <2>1, <1>3 DEF AuthTimeout, IInv, TypeOK, OnlyCurrentLive, NoLocationBeforeLogin, LoggedInWhenLive,
           UnopenedUnused, NoOldSocketLeft, StoppedByOldSocket, OnePositionSource, SignedOutStaysOut, Live
    <2>2. CASE state # "connected"
      <3>1. /\ sock' \in {sock, CurrentClosing}
            /\ ~(ws # 0 /\ sock'[ws].ready = "open")
        BY <1>1, <1>3, <2>2, ClosingFields DEF AuthTimeout, IsOpen, TypeOK, Live
      <3>2. out' => /\ ~app' /\ drills' = 0 /\ out
        BY <1>3 DEF IInv, AuthTimeout, SignedOutStaysOut
      <3> QED BY <1>1, <1>3, <2>2, <3>1, <3>2, StopKeeps DEF AuthTimeout, updateConnectionState, TypeOK
    <2> QED BY <2>1, <2>2
  <1>4. CASE DrillTimeout
    <2>1. ~out /\ drills' \in 0 .. MaxDrills
      BY <1>1, <1>4, SocketsAssumption DEF IInv, DrillTimeout, SignedOutStaysOut, TypeOK
    <2> QED BY <1>1, <1>4, <2>1, ConnectKeeps DEF DrillTimeout, TypeOK
  <1> QED BY <1>2, <1>3, <1>4

\* Callbacks of socket k.
LEMMA SocketKeeps == ASSUME IInv, NEW k \in Sockets, SocketNext(k) PROVE IInv'
  <1>1. TypeOK /\ OnlyCurrentLive
    BY DEF IInv
  <1>2. CASE onopen(k)
    <2>1. k = ws
      BY <1>1, <1>2 DEF onopen, OnlyCurrentLive, Live
    <2>2. /\ sock' \in [Sockets -> WebSocket]
          /\ sock'[k].ready = "open" /\ sock'[k].authed = sock[k].authed
          /\ sock'[k].located = sock[k].located
          /\ \A o \in Sockets \ {k} : sock'[o] = sock[o]
      <3>1. sock' = [sock EXCEPT ![k].ready = "open", ![k].asked = TRUE]
        BY <1>2, <2>1 DEF onopen
      <3> QED BY <1>1, <3>1 DEF TypeOK, WebSocket
    <2>3. sock[k].ready = "connecting" /\ ~sock[k].authed /\ state # "connected" /\ ~out
      BY <1>2, <2>1 DEF IInv, onopen, UnopenedUnused, LoggedInWhenLive, SignedOutStaysOut, Live
    <2>4. UNCHANGED <<ws, state, watch, orphan, demo, busy, app, known, drills, overtaken, out>>
      BY <1>2 DEF onopen
    <2>5. TypeOK'
      BY <1>1, <1>2, <2>2, <2>4 DEF onopen, TypeOK
    <2>6. OnlyCurrentLive' /\ NoLocationBeforeLogin' /\ UnopenedUnused'
      BY <2>1, <2>2, <2>4 DEF IInv, OnlyCurrentLive, NoLocationBeforeLogin, UnopenedUnused, Live
    <2>7. LoggedInWhenLive' /\ NoOldSocketLeft' /\ StoppedByOldSocket'
      BY <2>1, <2>2, <2>3, <2>4 DEF IInv, LoggedInWhenLive, NoOldSocketLeft, StoppedByOldSocket
    <2>8. OnePositionSource' /\ SignedOutStaysOut'
      BY <2>3, <2>4 DEF IInv, OnePositionSource, SignedOutStaysOut
    <2> QED BY <2>5, <2>6, <2>7, <2>8 DEF IInv
  <1>3. CASE onclose(k)
    <2>1. /\ sock' \in [Sockets -> WebSocket]
          /\ sock'[k].ready = "closed" /\ sock'[k].authed = sock[k].authed
          /\ sock'[k].located = sock[k].located
          /\ \A o \in Sockets \ {k} : sock'[o] = sock[o]
      BY <1>1, <1>3 DEF onclose, TypeOK, WebSocket
    <2>2. /\ UNCHANGED <<ws, orphan, app, known, drills, overtaken, out>>
          /\ state' = "disconnected" /\ ~demo' /\ ~watch' /\ sock[k].ready # "closed"
      BY <1>3 DEF onclose, updateConnectionState, stopSharing
    <2>3. TypeOK'
      BY <1>1, <1>3, <2>1, <2>2 DEF onclose, updateConnectionState, stopSharing, TypeOK
    <2>4. OnlyCurrentLive' /\ NoLocationBeforeLogin' /\ UnopenedUnused'
      BY <2>1, <2>2 DEF IInv, OnlyCurrentLive, NoLocationBeforeLogin, UnopenedUnused, Live
    <2>5. LoggedInWhenLive' /\ StoppedByOldSocket'
      BY <2>2 DEF LoggedInWhenLive, StoppedByOldSocket
    <2>6. NoOldSocketLeft'
      BY <1>1, <2>1, <2>2 DEF IInv, NoOldSocketLeft, TypeOK
    <2>7. OnePositionSource' /\ SignedOutStaysOut'
      BY <2>1, <2>2 DEF IInv, OnePositionSource, SignedOutStaysOut, Live
    <2> QED BY <2>3, <2>4, <2>5, <2>6, <2>7 DEF IInv
  <1>4. ASSUME NEW success \in BOOLEAN, AuthResponse(k, success) PROVE IInv'
    <2>1. k = ws /\ ~out /\ state # "connected"
      BY <1>1, <1>4 DEF IInv, AuthResponse, OnlyCurrentLive, Live, LoggedInWhenLive, SignedOutStaysOut
    <2>2. /\ sock' \in [Sockets -> WebSocket]
          /\ sock'[k].ready = "open" /\ sock'[k].authed = success /\ ~sock'[k].asked
          /\ sock'[k].located = sock[k].located
          /\ \A o \in Sockets \ {k} : sock'[o] = sock[o]
      BY <1>1, <1>4 DEF AuthResponse, TypeOK, WebSocket
    <2>3. /\ UNCHANGED <<ws, demo, known, drills, out>>
          /\ state' = IF success THEN "connected" ELSE state
      BY <1>4 DEF AuthResponse, updateConnectionState
    <2>4. ~overtaken' => ~overtaken /\ \A o \in Sockets : sock[o].ready # "closing"
      BY <1>4 DEF AuthResponse
    <2>5. TypeOK'
      <3>1. {authTimer', watch', orphan', busy', app', overtaken'} \subseteq BOOLEAN
        BY <1>1, <1>4 DEF AuthResponse, updateConnectionState, startSharing, TypeOK
      <3> QED BY <1>1, <2>2, <2>3, <3>1 DEF TypeOK
    <2>6. OnlyCurrentLive' /\ NoLocationBeforeLogin' /\ UnopenedUnused'
      BY <2>1, <2>2, <2>3 DEF IInv, OnlyCurrentLive, NoLocationBeforeLogin, UnopenedUnused, Live
    <2>7. LoggedInWhenLive'
      BY <1>4, <2>1, <2>2, <2>3 DEF LoggedInWhenLive, Sockets
    <2>8. NoOldSocketLeft'
      BY <1>1, <2>1, <2>2, <2>3, <2>4 DEF NoOldSocketLeft, OnlyCurrentLive, Live, TypeOK, WebSocket
    <2>9. ~overtaken' => ~watch /\ ~demo
      BY <2>1, <2>4 DEF IInv, StoppedByOldSocket
    <2>10. StoppedByOldSocket'
      BY <1>4, <2>3, <2>9 DEF AuthResponse, StoppedByOldSocket
    <2>11. OnePositionSource'
      <3>1. orphan' \in {orphan, orphan \/ watch}
        BY <1>4 DEF AuthResponse, startSharing
      <3> QED BY <2>3, <2>4, <2>9, <3>1 DEF IInv, OnePositionSource
    <2>12. SignedOutStaysOut'
      BY <2>1, <2>3 DEF SignedOutStaysOut
    <2> QED BY <2>5, <2>6, <2>7, <2>8, <2>10, <2>11, <2>12 DEF IInv
  <1> QED BY <1>2, <1>3, <1>4 DEF SocketNext

LEMMA IInvPreserved == IInv /\ [Next]_vars => IInv'
  <1>1. ASSUME IInv, UNCHANGED vars PROVE IInv'
    BY <1>1 DEF vars, IInv, TypeOK, OnlyCurrentLive, NoLocationBeforeLogin, LoggedInWhenLive,
                UnopenedUnused, NoOldSocketLeft, StoppedByOldSocket, OnePositionSource,
                SignedOutStaysOut, Live
  <1> QED BY <1>1, UserKeeps, TimersKeep, SocketKeeps DEF Next
-----------------------------------------------------------------------------
(* The theorems.                                                           *)

\* The inductive invariant holds in every state of a page, whatever callback
\* or timer runs next (app.js:324-439, 958-975, 1057-1113).
THEOREM Invariance == Spec => []IInv
  BY IInvInitially, IInvPreserved, PTL DEF Spec

\* The sockets, flags and timers of the page keep their types.
THEOREM TypeCorrectness == Spec => []TypeOK
  BY Invariance, PTL DEF IInv

\* connectAndAuth, the drill, the timers and disconnect never leave an old
\* socket that is open or may still open.
THEOREM OldSocketsDie == Spec => []OnlyCurrentLive
  BY Invariance, PTL DEF IInv

\* emitOwnLocation and the burst look at the page's state, yet never send on a
\* socket the server has not accepted a login on.
THEOREM LocationsFollowLogin == Spec => []NoLocationBeforeLogin
  BY Invariance, PTL DEF IInv

\* What the page shows is what its current socket is.
THEOREM LiveMeansLoggedIn == Spec => []LiveWhenLoggedIn
  <1>1. IInv => LiveWhenLoggedIn
    BY DEF IInv, TypeOK, LoggedInWhenLive, NoOldSocketLeft, IsOpen, LiveWhenLoggedIn
  <1> QED BY <1>1, Invariance, PTL

\* No watch is lost and none runs beside the demo route, unless a login was
\* answered before the onclose of an old socket.
THEOREM PositionsHaveOneSource == Spec => []OnePositionSource
  BY Invariance, PTL DEF IInv

\* No callback or timer undoes disconnect.
THEOREM SignOutIsFinal == Spec => []SignedOutStaysOut
  BY Invariance, PTL DEF IInv
=============================================================================
