--------------------------- MODULE BrowserClient ---------------------------
(***************************************************************************)
(* One page of frontend/app.js: its WebSocket objects, its sign-in, its    *)
(* timers and its two sources of positions.                                *)
(*                                                                         *)
(* The page has one variable ws but may have several sockets: close() only *)
(* starts the closing of one, whose onclose runs later, perhaps after the  *)
(* next one has opened.  Each callback and each click is one step, and the *)
(* callbacks of different sockets come in any order.                       *)
(*                                                                         *)
(* Left out: what is only shown (map, markers, trails, counters, the       *)
(* workflow badges, uptime) and the polling of /stats.                     *)
(***************************************************************************)
EXTENDS Integers, FiniteSets

CONSTANTS
    MaxSockets,  \* bound: sockets that are not closed yet, and the last one
    MaxDrills    \* bound: reconnect drills that wait at the same time

ASSUME SocketsAssumption == MaxSockets \in Nat \ {0} /\ MaxDrills \in Nat

Sockets == 1 .. MaxSockets

VARIABLES
    sock,           \* the WebSocket objects
    ws,             \* the current one; 0 for null
    state,          \* STATE
    authTimer,      \* the ten-second timer of authTimeoutId is running
    watch,          \* the position watch watcherId refers to is running
    orphan,         \* history: a position watch runs that nothing refers to
    demo,           \* demoRouteEnabled, and its timer
    busy,           \* the submit button is disabled
    app,            \* the map is shown, not the sign-in form
    known,          \* lastAuthUsername and lastAuthPassword are set
    drills,         \* 900 ms timers of runReconnectDrill that are running
    overtaken,      \* history: a login was answered before the onclose of a
                    \* socket that had been closed for it
    out             \* history: the user has signed out, with no drill waiting

vars == <<sock, ws, state, authTimer, watch, orphan, demo, busy, app,
          known, drills, overtaken, out>>

\* asked: the login was sent and not answered; authed: it was answered with
\* success; located: were locations sent on it, and the first before authed?
NewSocket == [ready |-> "connecting", asked |-> FALSE, authed |-> FALSE, located |-> "no"]

Init ==
    /\ sock = [k \in Sockets |-> [NewSocket EXCEPT !.ready = "closed"]]
    /\ ws = 0 /\ state = "disconnected"
    /\ authTimer = FALSE /\ watch = FALSE /\ orphan = FALSE /\ demo = FALSE
    /\ busy = FALSE /\ app = FALSE /\ known = FALSE
    /\ drills = 0 /\ overtaken = FALSE /\ out = FALSE
-----------------------------------------------------------------------------
(* WebSocket objects.                                                      *)

Live(k) == sock[k].ready \in {"connecting", "open"}

\* ws && ws.readyState === WebSocket.OPEN
IsOpen == ws # 0 /\ sock[ws].ready = "open"

\* sock after ws.close()
CurrentClosing ==
    [k \in Sockets |-> IF k = ws /\ Live(k) THEN [sock[k] EXCEPT !.ready = "closing"]
                       ELSE sock[k]]

\* An object that can be made anew, since no callback of it is to come.
Fresh(n) == n # ws /\ sock[n].ready = "closed"
-----------------------------------------------------------------------------
(* Parts of several handlers.                                              *)

updateConnectionState(newState) == state' = newState

stopSharing == watch' = FALSE

\* Mutants of connectAndAuth: the old socket is left open; state is not set.
connectWithoutClosing ==
    /\ \E n \in Sockets :
         /\ Fresh(n) /\ \A m \in Sockets : m < n => ~Fresh(m)
         /\ sock' = [sock EXCEPT ![n] = NewSocket]
         /\ ws' = n
    /\ updateConnectionState("connecting") /\ authTimer' = FALSE

connectQuietly ==
    /\ \E n \in Sockets :
         /\ Fresh(n) /\ \A m \in Sockets : m < n => ~Fresh(m)
         /\ sock' = [CurrentClosing EXCEPT ![n] = NewSocket]
         /\ ws' = n
    /\ authTimer' = FALSE /\ UNCHANGED state

connectAndAuth ==
    /\ \E n \in Sockets :
         /\ Fresh(n) /\ \A m \in Sockets : m < n => ~Fresh(m)
         /\ sock' = [CurrentClosing EXCEPT ![n] = NewSocket]
         /\ ws' = n
    /\ updateConnectionState("connecting") /\ authTimer' = FALSE

startSharing == watch' = TRUE /\ orphan' = (orphan \/ watch)

\* emitOwnLocation and the loop of runBurstTest, on the current socket.
LocationSent ==
    [sock EXCEPT ![ws].located = IF @ # "no" THEN @
                                 ELSE IF sock[ws].authed THEN "yes" ELSE "early"]
-----------------------------------------------------------------------------
(* The user.                                                               *)

\* handleAuth
SignIn ==
    /\ ~app /\ ~busy
    /\ busy' = TRUE /\ known' = TRUE /\ out' = FALSE
    /\ connectAndAuth
    /\ UNCHANGED <<watch, orphan, demo, app, drills, overtaken>>

toggleDemoRoute ==
    /\ app
    /\ \/ /\ demo
          /\ demo' = FALSE
          /\ IF state = "connected" THEN startSharing ELSE UNCHANGED <<watch, orphan>>
       \/ /\ ~demo /\ state = "connected"
          /\ demo' = TRUE /\ stopSharing /\ UNCHANGED orphan
    /\ UNCHANGED <<sock, ws, state, authTimer, busy, app, known, drills, overtaken, out>>

runBurstTest ==
    /\ app /\ IsOpen /\ state = "connected"
    /\ sock' = LocationSent
    /\ UNCHANGED <<ws, state, authTimer, watch, orphan, demo, busy, app, known,
                   drills, overtaken, out>>

runReconnectDrill ==
    /\ app /\ known
    /\ \/ /\ IsOpen /\ drills < MaxDrills
          /\ sock' = CurrentClosing
          /\ drills' = drills + 1
          /\ UNCHANGED <<ws, state, authTimer>>
       \/ ~IsOpen /\ connectAndAuth /\ UNCHANGED drills
    /\ UNCHANGED <<watch, orphan, demo, busy, app, known, overtaken, out>>

\* Mutant of disconnect: a socket is closed only once it is open.
disconnectIfOpen ==
    /\ app
    /\ app' = FALSE /\ busy' = FALSE /\ out' = (drills = 0)
    /\ sock' = IF IsOpen THEN CurrentClosing ELSE sock
    /\ demo' = FALSE /\ stopSharing
    /\ UNCHANGED <<ws, state, authTimer, orphan, known, drills, overtaken>>

disconnect ==
    /\ app
    /\ app' = FALSE /\ busy' = FALSE /\ out' = (drills = 0)
    /\ sock' = CurrentClosing
    /\ demo' = FALSE /\ stopSharing
    /\ UNCHANGED <<ws, state, authTimer, orphan, known, drills, overtaken>>
-----------------------------------------------------------------------------
(* Positions and timers.                                                   *)

\* A position of a watch or of the demo route: emitOwnLocation.
Position ==
    /\ watch \/ orphan \/ demo
    /\ state = "connected" /\ IsOpen
    /\ sock' = LocationSent
    /\ UNCHANGED <<ws, state, authTimer, watch, orphan, demo, busy, app, known,
                   drills, overtaken, out>>

AuthTimeout ==
    /\ authTimer
    /\ authTimer' = FALSE
    /\ IF state = "connected" THEN UNCHANGED <<sock, busy, state>>
       ELSE /\ sock' = IF IsOpen THEN CurrentClosing ELSE sock
            /\ busy' = FALSE /\ updateConnectionState("disconnected")
    /\ UNCHANGED <<ws, watch, orphan, demo, app, known, drills, overtaken, out>>

DrillTimeout ==
    /\ drills > 0
    /\ drills' = drills - 1
    /\ connectAndAuth
    /\ UNCHANGED <<watch, orphan, demo, busy, app, known, overtaken, out>>
-----------------------------------------------------------------------------
(* Callbacks of socket k.                                                  *)

\* Mutant of onopen: the timer is not started.
onopenUnguarded(k) ==
    /\ sock[k].ready = "connecting"
    /\ sock' = [sock EXCEPT ![k].ready = "open",
                            ![ws].asked = IF ws = k \/ IsOpen THEN TRUE ELSE @]
    /\ UNCHANGED <<ws, state, authTimer, watch, orphan, demo, busy, app, known,
                   drills, overtaken, out>>

\* onopen sends the login on ws, not on the socket it belongs to.
onopen(k) ==
    /\ sock[k].ready = "connecting"
    /\ sock' = [sock EXCEPT ![k].ready = "open",
                            ![ws].asked = IF ws = k \/ IsOpen THEN TRUE ELSE @]
    /\ authTimer' = TRUE
    /\ UNCHANGED <<ws, state, watch, orphan, demo, busy, app, known, drills, overtaken, out>>

\* onmessage of an auth_response; a socket that is closing gets none.
AuthResponse(k, success) ==
    /\ sock[k].ready = "open" /\ sock[k].asked
    /\ sock' = [sock EXCEPT ![k].asked = FALSE, ![k].authed = success]
    /\ overtaken' = (overtaken \/ \E o \in Sockets : sock[o].ready = "closing")
    /\ authTimer' = FALSE
    /\ IF success
       THEN /\ updateConnectionState("connected") /\ app' = TRUE
            /\ IF demo THEN UNCHANGED <<watch, orphan>> ELSE startSharing
            /\ UNCHANGED busy
       ELSE busy' = FALSE /\ UNCHANGED <<state, app, watch, orphan>>
    /\ UNCHANGED <<ws, demo, known, drills, out>>

\* Mutants of onclose: STATE has no such member; the watch is not stopped.
oncloseOther(k, next, watching) ==
    /\ sock[k].ready # "closed"
    /\ sock' = [sock EXCEPT ![k].ready = "closed"]
    /\ authTimer' = FALSE
    /\ state' = next
    /\ demo' = FALSE /\ watch' = watching /\ busy' = FALSE
    /\ UNCHANGED <<ws, orphan, app, known, drills, overtaken, out>>

oncloseUndefined(k) == oncloseOther(k, "undefined", FALSE)
oncloseWatching(k) == oncloseOther(k, "disconnected", watch)

\* onclose, after onerror if the socket had not opened.
onclose(k) ==
    /\ sock[k].ready # "closed"
    /\ sock' = [sock EXCEPT ![k].ready = "closed"]
    /\ authTimer' = FALSE
    /\ updateConnectionState("disconnected")
    /\ demo' = FALSE /\ stopSharing /\ busy' = FALSE
    /\ UNCHANGED <<ws, orphan, app, known, drills, overtaken, out>>
-----------------------------------------------------------------------------
UserNext == SignIn \/ toggleDemoRoute \/ runBurstTest \/ runReconnectDrill \/ disconnect

SocketNext(k) ==
    \/ onopen(k) \/ onclose(k)
    \/ \E success \in BOOLEAN : AuthResponse(k, success)

Next ==
    \/ UserNext \/ Position \/ AuthTimeout \/ DrillTimeout
    \/ \E k \in Sockets : SocketNext(k)

Spec == Init /\ [][Next]_vars

\* A connection attempt succeeds or fails, a closing ends, a timer runs out;
\* the user, the positions and the server need do nothing.
FairSpec ==
    /\ Spec
    /\ WF_vars(AuthTimeout) /\ WF_vars(DrillTimeout)
    /\ \A k \in Sockets : /\ WF_vars(onopen(k) \/ (onclose(k) /\ sock[k].ready = "connecting"))
                          /\ WF_vars(onclose(k) /\ sock[k].ready = "closing")
-----------------------------------------------------------------------------
(* Properties.                                                             *)

WebSocket == [ready : {"connecting", "open", "closing", "closed"},
              asked : BOOLEAN, authed : BOOLEAN, located : {"no", "yes", "early"}]

TypeOK ==
    /\ sock \in [Sockets -> WebSocket] /\ ws \in Sockets \union {0}
    /\ state \in {"disconnected", "connecting", "connected"}
    /\ {authTimer, watch, orphan, demo, busy, app, known, overtaken, out} \subseteq BOOLEAN
    /\ drills \in 0 .. MaxDrills

\* Of all the sockets a page has made, through retries, drills and sign-outs,
\* only the current one can be open or become so.
OnlyCurrentLive == \A k \in Sockets : Live(k) => k = ws

\* state belongs to the page and authed to a socket, yet no location is ever
\* sent on a socket before the server has accepted the login on that socket.
NoLocationBeforeLogin == \A k \in Sockets : sock[k].located # "early"

\* In whatever order drills, their timers and the onclose of old sockets come,
\* a page that shows "Live" is logged in on its current socket and has not been
\* told of its end; and it shows that whenever it is, as long as no login was
\* answered before the onclose of an old socket.
LiveWhenLoggedIn ==
    /\ state = "connected" => sock[ws].authed /\ sock[ws].ready # "closed"
    /\ ~overtaken /\ IsOpen /\ sock[ws].authed => state = "connected"

\* With that proviso positions have one source too, which sign-out and the
\* demo route can stop.
OnePositionSource == ~overtaken => ~orphan /\ ~(demo /\ watch)

\* Signing out is final: no callback or timer that was under way then opens a
\* socket, brings the map back or shares a position until the user signs in
\* again.  Only a drill that waits at that moment (app.js:969) undoes it.
SignedOutStaysOut == out => ~app /\ ~demo /\ ~watch /\ drills = 0 /\ \A k \in Sockets : ~Live(k)

\* A sign-in that has been submitted ends: with the map, or with a form that
\* can be submitted again, even if the server accepts and never answers.
SignInEnds == busy ~> ~busy \/ state = "connected"
=============================================================================
