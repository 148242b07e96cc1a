--------------------------- MODULE LocationServer ---------------------------
(***************************************************************************)
(* The GeoSync C server: the single-threaded select() loop of              *)
(* src/server.c, the dispatcher and handlers of src/protocol.c, and the    *)
(* outcome of the handshake and frame reader of src/websocket.c, together  *)
(* with the TCP connections of its clients.                                *)
(*                                                                         *)
(* The server is one process that alternates between a few program points  *)
(* (pc).  Every blocking call it makes is a step of its own, so that the   *)
(* clients, the network and Ctrl+C may act while it waits; everything      *)
(* between two blocking calls is one step.  Accepted sockets are in        *)
(* blocking mode, so a step that reads or writes is simply not enabled     *)
(* until the call would return.                                            *)
(*                                                                         *)
(* Left out: log_event (a POST whose result is ignored and that changes no *)
(* state of the server: the thread stays longer where it is), console      *)
(* output and the wording of messages.                                     *)
(***************************************************************************)
EXTENDS Integers, Sequences, FiniteSets, SequencesExt

CONSTANTS
    Conns,       \* socket handles; a closed one may be handed out again
    MaxClients,  \* MAX_CLIENTS, the length of server->clients
    Users,       \* user names; each stands for its backend user_id too
    Places,      \* coordinates carried by location messages
    Inputs,      \* the frames the clients of this instance may send
    MaxIn,       \* bound: frames a client has sent and the server not read
    SendBuf,     \* bound: messages that fit a connection's send buffer
    KeepAlive,   \* are dead idle peers detected?  (SO_KEEPALIVE, tuned mode)
    Faults,      \* bound: which of the kinds of faults below may happen
    Nil          \* no handle, no user, no argument

Slots == 1 .. MaxClients

\* Text messages by "type", after cJSON_Parse, as the handlers tell them apart.
PlainTextKinds == {"subscribe", "unknown", "no_type", "not_json", "auth_no_payload",
                   "register_no_payload", "location_no_payload", "subscribe_no_payload"}

\* What else websocket_frame_recv tells apart; "empty" is any frame without
\* payload, a bare ping for one, and "partial" one that has not all arrived.
ControlKinds == {"ping", "pong", "binary", "empty", "oversize", "close", "partial"}

\* What a client sends; an auth or register frame whose arg is Nil has no
\* credentials, or credentials of an illegal type or length.
Frame ==
    [kind : {"auth", "register"}, arg : Users \union {Nil}] \union
    [kind : {"location", "bad_location"}, arg : Places] \union
    [kind : PlainTextKinds \union ControlKinds, arg : {Nil}]

\* Messages the server writes.
Message ==
    [kind : {"auth_ok"}, arg : Users] \union
    [kind : {"location"}, arg : Places] \union
    [kind : {"switching", "auth_fail", "error", "pong"}, arg : {Nil}]

\* HTTP/1.1 101 Switching Protocols.
Switching == [kind |-> "switching", arg |-> Nil]

\* The HTTP request that opens a connection, with and without a usable key.
Upgrade == [kind |-> "upgrade", arg |-> Nil]
BadUpgrade == [kind |-> "bad_upgrade", arg |-> Nil]

Nothing == [kind |-> "nothing", arg |-> Nil]

ASSUME ClientsAssumption == MaxClients \in Nat \ {0} /\ IsFiniteSet(Conns)
ASSUME NilAssumption == Nil \notin Conns /\ Nil \notin Users \union Places
ASSUME InputsAssumption == Inputs \subseteq Frame
ASSUME BoundsAssumption == MaxIn \in Nat \ {0} /\ SendBuf \in Nat \ {0}
ASSUME KeepAliveAssumption == KeepAlive \in BOOLEAN
ASSUME FaultsAssumption == Faults \subseteq {"leave", "vanish", "abort", "interrupt"}

VARIABLES
    pc,          \* where the server's only thread is
    running,     \* server->running
    interrupted, \* has Ctrl+C been pressed since the process started?
    slots,       \* server->clients
    readfds,     \* readfds as select() left it, without the listening socket
    i,           \* the scan's loop index
    j,           \* server_broadcast's loop index
    cur,         \* new_socket, while it is not in a slot yet
    work,        \* the message being handled, or the reply being written
    backlog,     \* connections the listening socket has not accepted yet
    conn         \* the two directions and the client end of every connection

serverVars == <<pc, running, interrupted, slots, readfds, i, j, cur, work>>
vars == <<pc, running, interrupted, slots, readfds, i, j, cur, work, backlog, conn>>
-----------------------------------------------------------------------------
(* Connections.  peer is the state of the client end:                      *)
(*   none        the handle is not in use                                  *)
(*   connecting  TCP is up, the upgrade request not sent                   *)
(*   upgrading   the upgrade request is sent                               *)
(*   open        the client has received 101 and may send frames           *)
(*   dead        the client vanished without a FIN                         *)
(*   gone        the server's end has received FIN or RST, or timed out    *)
(* inq and outq are the bytes in flight, a frame at a time.  granted and   *)
(* loggedIn are history: the identities the backend confirmed on this      *)
(* connection, and whether the client has read a success reply on it.      *)

Unused == [peer |-> "none", inq |-> <<>>, outq |-> <<>>, granted |-> {}, loggedIn |-> FALSE]

PeerStates == {"none", "connecting", "upgrading", "open", "dead", "gone"}

Alive(c) == conn[c].peer \in {"connecting", "upgrading", "open"}

\* recv() on c returns at once: a frame has begun to arrive or the end is known.
Readable(c) == conn[c].inq # <<>> \/ conn[c].peer = "gone"

\* send() on c returns: there is room in the buffer, or the peer is gone.
Writable(c) == Len(conn[c].outq) < SendBuf \/ conn[c].peer = "gone"

\* The head of c's stream is a whole frame (or the stream has ended).
Whole(c) == IF conn[c].inq = <<>> THEN conn[c].peer = "gone"
            ELSE Head(conn[c].inq).kind = "partial" => conn[c].peer = "gone"

\* What websocket_frame_recv finds at the head of c's stream.
NextFrame(c) == IF conn[c].inq = <<>> \/ Head(conn[c].inq).kind = "partial"
                THEN "end" ELSE Head(conn[c].inq).kind

\* conn after the server has read the frame at the head of c's stream.
Taken(c) == [conn EXCEPT ![c].inq = Tail(@)]

\* conn after the server has written m to c; an error is ignored.
Written(c, m) == IF conn[c].peer = "gone" THEN conn
                 ELSE [conn EXCEPT ![c].outq = Append(@, m)]

-----------------------------------------------------------------------------
(* Client slots.                                                           *)

\* A slot as server_init, the accept path and the disconnect path set it.
SlotFor(c) == [sock |-> c, authenticated |-> FALSE, user |-> Nil]

Occupied == {s \in Slots : slots[s].sock # Nil}

\* The slot the accept path's search loop takes: the lowest empty one.
FirstFree(s) == s \notin Occupied /\ \A t \in Slots : t < s => t \in Occupied

\* The slots the scan has still to visit: s is the next of them.
Pending == {s \in Occupied : s >= i /\ slots[s].sock \in readfds}
NextPending(s) == s \in Pending /\ \A t \in Pending : s <= t

\* Mutants of Audience: the login is not checked, the sender is not left out.
AudienceOfAll == {s \in Occupied : s >= j /\ slots[s].sock # slots[i].sock}
AudienceWithSender == {s \in Occupied : s >= j /\ slots[s].authenticated}

\* The slots server_broadcast has still to write to.
Audience == {s \in Occupied : /\ s >= j
                              /\ slots[s].sock # slots[i].sock
                              /\ slots[s].authenticated}
NextInAudience(s) == s \in Audience /\ \A t \in Audience : s <= t
-----------------------------------------------------------------------------
(* The process: main.c, server_init, server_shutdown.                      *)

\* The process has ended: after server_shutdown, in a set-up that failed, or in
\* an access violation.
Exited == {"stopped", "failed", "crashed"}

Init ==
    /\ pc = "boot" /\ running = FALSE /\ interrupted = FALSE
    /\ slots = [s \in Slots |-> SlotFor(Nil)]
    /\ readfds = {} /\ i = 1 /\ j = 1 /\ cur = Nil /\ work = Nothing
    /\ backlog = <<>>
    /\ conn = [c \in Conns |-> Unused]

\* server_init and listen_on_socket, after main's Sleep(2000).
ServerInit ==
    /\ pc = "boot"
    /\ pc' = "select"
    /\ running' = TRUE
    /\ slots' = [s \in Slots |-> SlotFor(Nil)]
    /\ UNCHANGED <<interrupted, readfds, i, j, cur, work, backlog, conn>>

\* WSAStartup, socket, an option, bind (the port is in use) or listen fails:
\* the process exits.
ServerInitFails ==
    /\ pc = "boot"
    /\ pc' = "failed"
    /\ UNCHANGED <<running, interrupted, slots, readfds, i, j, cur, work, backlog, conn>>

\* Mutant of Shutdown: it forgets the table.
ShutdownKeepsTable ==
    /\ pc = "select" /\ ~running
    /\ pc' = "stopped" /\ backlog' = <<>>
    /\ conn' = [c \in Conns |-> Unused]
    /\ UNCHANGED <<running, interrupted, slots, readfds, i, j, cur, work>>

\* The loop leaves: every client socket and the listening socket are closed.
\* server_shutdown resets sock only, not authenticated or user.
Shutdown ==
    /\ pc = "select" /\ ~running
    /\ pc' = "stopped"
    /\ slots' = [s \in Slots |-> [slots[s] EXCEPT !.sock = Nil]]
    /\ backlog' = <<>>
    /\ conn' = [c \in Conns |-> Unused]
    /\ UNCHANGED <<running, interrupted, readfds, i, j, cur, work>>

\* The process ends without server_shutdown; Windows closes its sockets.
Crash ==
    /\ pc' = "crashed"
    /\ slots' = [s \in Slots |-> SlotFor(Nil)]
    /\ backlog' = <<>>
    /\ conn' = [c \in Conns |-> Unused]
    /\ cur' = Nil /\ work' = Nothing /\ readfds' = {} /\ i' = 1 /\ j' = 1
    /\ UNCHANGED <<running, interrupted>>

\* The operator starts the program again (static data is zero).
Restart ==
    /\ pc \in Exited
    /\ pc' = "boot" /\ running' = FALSE /\ interrupted' = FALSE
    /\ slots' = [s \in Slots |-> SlotFor(Nil)]
    /\ UNCHANGED <<readfds, i, j, cur, work, backlog, conn>>

\* signal_handler.  The C runtime disarms the handler once it has run.
Interrupt ==
    /\ "interrupt" \in Faults
    /\ pc \notin Exited /\ ~interrupted
    /\ running' = FALSE /\ interrupted' = TRUE
    /\ UNCHANGED <<pc, slots, readfds, i, j, cur, work, backlog, conn>>
-----------------------------------------------------------------------------
(* server_run: select and accept.  select() times out after a second, a    *)
(* step that changes nothing; an iteration that finds something to do is   *)
(* the action Select.                                                      *)

\* Mutants of Select: the loop looks at the table, not at running; every
\* client is taken to be readable.
SelectWhileBusy ==
    /\ pc = "select" /\ (running \/ Occupied # {})
    /\ LET ready == {slots[s].sock : s \in Occupied}
       IN  /\ readfds' = {c \in ready : Readable(c)}
           /\ backlog # <<>> \/ readfds' # {}
    /\ pc' = IF backlog # <<>> THEN "accept" ELSE "scan"
    /\ UNCHANGED <<running, interrupted, slots, i, j, cur, work, backlog, conn>>

SelectEveryone ==
    /\ pc = "select" /\ running
    /\ readfds' = {slots[s].sock : s \in Occupied}
    /\ backlog # <<>> \/ readfds' # {}
    /\ pc' = IF backlog # <<>> THEN "accept" ELSE "scan"
    /\ UNCHANGED <<running, interrupted, slots, i, j, cur, work, backlog, conn>>

Select ==
    /\ pc = "select" /\ running
    /\ LET ready == {slots[s].sock : s \in Occupied}
       IN  /\ readfds' = {c \in ready : Readable(c)}
           /\ backlog # <<>> \/ readfds' # {}
    /\ pc' = IF backlog # <<>> THEN "accept" ELSE "scan"
    /\ UNCHANGED <<running, interrupted, slots, i, j, cur, work, backlog, conn>>

\* The client aborted between select() and accept(): WSAEWOULDBLOCK.
AcceptNothing ==
    /\ pc = "accept" /\ backlog = <<>>
    /\ pc' = "scan"
    /\ UNCHANGED <<running, interrupted, slots, readfds, i, j, cur, work, backlog, conn>>

Accept ==
    /\ pc = "accept" /\ backlog # <<>>
    /\ cur' = Head(backlog) /\ backlog' = Tail(backlog)
    /\ pc' = "handshake"
    /\ UNCHANGED <<running, interrupted, slots, readfds, i, j, work, conn>>

\* websocket_handshake has the whole upgrade request, 101 is sent and the
\* socket gets the first empty slot.
HandshakeOk(s) ==
    /\ pc = "handshake" /\ Whole(cur) /\ NextFrame(cur) = "upgrade"
    /\ FirstFree(s)
    /\ slots' = [slots EXCEPT ![s] = SlotFor(cur)]
    /\ conn' = [Taken(cur) EXCEPT ![cur].outq = IF conn[cur].peer = "gone" THEN @
                                                ELSE <<Switching>>]
    /\ cur' = Nil /\ pc' = "scan"
    /\ UNCHANGED <<running, interrupted, readfds, i, j, work, backlog>>

\* Mutant of HandshakeFailed: the new socket is not closed.
HandshakeFailedOpen ==
    /\ pc = "handshake" /\ Whole(cur)
    /\ NextFrame(cur) # "upgrade" \/ conn[cur].peer = "gone" \/ Occupied = Slots
    /\ cur' = Nil /\ pc' = "scan"
    /\ UNCHANGED <<running, interrupted, slots, readfds, i, j, work, backlog, conn>>

\* No key, the client left, 101 could not be sent, or every slot is taken
\* (after the 101): the new socket is closed.
HandshakeFailed ==
    /\ pc = "handshake" /\ Whole(cur)
    /\ \/ NextFrame(cur) # "upgrade"
       \/ conn[cur].peer = "gone"
       \/ Occupied = Slots
    /\ conn' = [conn EXCEPT ![cur] = Unused]
    /\ cur' = Nil /\ pc' = "scan"
    /\ UNCHANGED <<running, interrupted, slots, readfds, i, j, work, backlog>>
-----------------------------------------------------------------------------
(* server_run: the scan over the slots.  Reading(s, kinds) is the common   *)
(* guard: slot s is the next ready one, and websocket_frame_recv finds a   *)
(* frame of one of these kinds.                                            *)

Reading(s, kinds) ==
    /\ pc = "scan" /\ NextPending(s)
    /\ Whole(slots[s].sock)
    /\ NextFrame(slots[s].sock) \in kinds

\* Mutant of Disconnect: the end of a connection is skipped like a pong.
DisconnectIgnored(s) ==
    /\ Reading(s, {"end", "close", "empty", "oversize"})
    /\ i' = s + 1
    /\ UNCHANGED <<pc, running, interrupted, slots, readfds, j, cur, work, backlog, conn>>

\* websocket_frame_recv returned -1: close the socket and empty the slot.
Disconnect(s) ==
    /\ Reading(s, {"end", "close", "empty", "oversize"})
    /\ conn' = [conn EXCEPT ![slots[s].sock] = Unused]
    /\ slots' = [slots EXCEPT ![s] = SlotFor(Nil)]
    /\ i' = s + 1
    /\ UNCHANGED <<pc, running, interrupted, readfds, j, cur, work, backlog>>

\* Nothing to do: a frame websocket_frame_recv swallows, a text that is not
\* a message, or one whose handler changes nothing.
Ignore(s) ==
    /\ Reading(s, {"pong", "binary", "no_type", "not_json"} \union
                  (IF slots[s].authenticated THEN {"subscribe", "unknown"} ELSE {}))
    /\ conn' = Taken(slots[s].sock)
    /\ i' = s + 1
    /\ UNCHANGED <<pc, running, interrupted, slots, readfds, j, cur, work, backlog>>

\* The frame at slot s is taken and the server goes on to handle it.
Handle(s, next, message) ==
    /\ conn' = Taken(slots[s].sock)
    /\ i' = s /\ pc' = next /\ work' = message
    /\ UNCHANGED <<running, interrupted, slots, readfds, j, cur, backlog>>

Ping(s) ==
    /\ Reading(s, {"ping"})
    /\ Handle(s, "reply", [kind |-> "pong", arg |-> Nil])

\* handle_auth and handle_register: credentials that are missing (or of an
\* illegal length) are answered at once, others go to the backend.
Credentials(s) ==
    /\ Reading(s, {"auth", "register"})
    /\ LET f == Head(conn[slots[s].sock].inq)
       IN  IF f.arg = Nil THEN Handle(s, "reply", [kind |-> "auth_fail", arg |-> Nil])
                          ELSE Handle(s, "post", f)

\* handle_message rejects everything else from a client that is not logged in.
Unauthorized(s) ==
    /\ ~slots[s].authenticated
    /\ Reading(s, {"location", "bad_location", "subscribe", "unknown",
                   "location_no_payload", "subscribe_no_payload"})
    /\ Handle(s, "reply", [kind |-> "error", arg |-> Nil])

\* handle_location: only numeric coordinates are posted; server_run
\* broadcasts the text in either case.
Location(s) ==
    /\ slots[s].authenticated
    /\ \/ Reading(s, {"location"}) /\ Handle(s, "post", Head(conn[slots[s].sock].inq))
       \/ Reading(s, {"bad_location"}) /\ Handle(s, "relay", Head(conn[slots[s].sock].inq))

\* cJSON_GetObjectItem(NULL, ...) in the handlers: access violation.
NullPayload(s) ==
    /\ Reading(s, {"auth_no_payload", "register_no_payload"} \union
                  (IF slots[s].authenticated
                   THEN {"location_no_payload", "subscribe_no_payload"} ELSE {}))
    /\ Crash

ScanDone ==
    /\ pc = "scan" /\ Pending = {}
    /\ pc' = "select" /\ readfds' = {} /\ i' = 1
    /\ UNCHANGED <<running, interrupted, slots, j, cur, work, backlog, conn>>
-----------------------------------------------------------------------------
(* Blocking calls made while a frame is handled.                           *)

\* What http_post_json and the parsed reply amount to: the backend said
\* success, it said no, or no reply was read in time.
Results == {"ok", "refused", "failed"}

\* Mutant of Granted: any reply counts as success.
GrantedByAnyReply(result) == result # "failed"

Granted(result) == result = "ok"

\* http_post_json returns to handle_auth or handle_register.
LoginReturn(result) ==
    /\ pc = "post" /\ work.kind \in {"auth", "register"}
    /\ IF Granted(result)
       THEN /\ slots' = [slots EXCEPT ![i].authenticated = TRUE, ![i].user = work.arg]
            /\ work' = [kind |-> "auth_ok", arg |-> work.arg]
       ELSE /\ slots' = slots
            /\ work' = [kind |-> "auth_fail", arg |-> Nil]
    /\ conn' = IF result = "ok" THEN [conn EXCEPT ![slots[i].sock].granted = @ \union {work.arg}]
                               ELSE conn
    /\ pc' = "reply"
    /\ UNCHANGED <<running, interrupted, readfds, i, j, cur, backlog>>

\* Mutant of StoreReturn: only what has been stored is relayed.
StoreReturnChecked(result) ==
    /\ pc = "post" /\ work.kind = "location"
    /\ IF result = "ok" THEN pc' = "relay" /\ UNCHANGED <<i, work>>
                        ELSE pc' = "scan" /\ i' = i + 1 /\ work' = Nothing
    /\ UNCHANGED <<running, interrupted, slots, readfds, j, cur, backlog, conn>>

\* http_post_json returns to handle_location, which ignores the result.
StoreReturn(result) ==
    /\ pc = "post" /\ work.kind = "location"
    /\ pc' = "relay"
    /\ UNCHANGED <<running, interrupted, slots, readfds, i, j, cur, work, backlog, conn>>

HttpReturn(result) == LoginReturn(result) \/ StoreReturn(result)

\* Mutants of Reply: the scan starts over after it, or skips a slot.
ReplyRestartsScan ==
    /\ pc = "reply" /\ Writable(slots[i].sock)
    /\ conn' = Written(slots[i].sock, work)
    /\ pc' = "select" /\ i' = 1 /\ work' = Nothing
    /\ UNCHANGED <<running, interrupted, slots, readfds, j, cur, backlog>>

ReplySkipsSlot ==
    /\ pc = "reply" /\ Writable(slots[i].sock)
    /\ conn' = Written(slots[i].sock, work)
    /\ pc' = "scan" /\ i' = i + 2 /\ work' = Nothing
    /\ UNCHANGED <<running, interrupted, slots, readfds, j, cur, backlog>>

\* send_json_response or the pong: the scan goes on after it.
Reply ==
    /\ pc = "reply" /\ Writable(slots[i].sock)
    /\ conn' = Written(slots[i].sock, work)
    /\ pc' = "scan" /\ i' = i + 1 /\ work' = Nothing
    /\ UNCHANGED <<running, interrupted, slots, readfds, j, cur, backlog>>

\* server_broadcast: one websocket_frame_send.
RelayTo(s) ==
    /\ pc = "relay" /\ NextInAudience(s) /\ Writable(slots[s].sock)
    /\ conn' = Written(slots[s].sock, [kind |-> "location", arg |-> work.arg])
    /\ j' = s + 1
    /\ UNCHANGED <<pc, running, interrupted, slots, readfds, i, cur, work, backlog>>

\* Mutant of RelayDone: the loop ends at the first send that fails.
RelayGivesUp ==
    /\ pc = "relay"
    /\ \/ Audience = {}
       \/ \E s \in Slots : NextInAudience(s) /\ conn[slots[s].sock].peer = "gone"
    /\ pc' = "scan" /\ i' = i + 1 /\ j' = 1 /\ work' = Nothing
    /\ UNCHANGED <<running, interrupted, slots, readfds, cur, backlog, conn>>

RelayDone ==
    /\ pc = "relay" /\ Audience = {}
    /\ pc' = "scan" /\ i' = i + 1 /\ j' = 1 /\ work' = Nothing
    /\ UNCHANGED <<running, interrupted, slots, readfds, cur, backlog, conn>>
-----------------------------------------------------------------------------
(* The clients and the network.                                            *)

Up == pc \notin Exited \union {"boot"}

Connect(c) ==
    /\ Up /\ conn[c].peer = "none"
    /\ conn' = [conn EXCEPT ![c].peer = "connecting"]
    /\ backlog' = Append(backlog, c)
    /\ UNCHANGED serverVars

SendUpgrade(c) ==
    /\ conn[c].peer = "connecting"
    /\ \E r \in {Upgrade, BadUpgrade} :
         conn' = [conn EXCEPT ![c].peer = "upgrading", ![c].inq = <<r>>]
    /\ UNCHANGED <<serverVars, backlog>>

\* The last frame c sent has not arrived completely.
Unfinished(c) == conn[c].inq # <<>> /\ conn[c].inq[Len(conn[c].inq)].kind = "partial"

Send(c) ==
    /\ conn[c].peer = "open" /\ Len(conn[c].inq) < MaxIn /\ ~Unfinished(c)
    /\ \E f \in Inputs : conn' = [conn EXCEPT ![c].inq = Append(@, f)]
    /\ UNCHANGED <<serverVars, backlog>>

\* The rest of a frame arrives.
Finish(c) ==
    /\ conn[c].peer = "open" /\ Unfinished(c)
    /\ \E f \in Inputs :
         /\ f.kind # "partial"
         /\ conn' = [conn EXCEPT ![c].inq = [@ EXCEPT ![Len(@)] = f]]
    /\ UNCHANGED <<serverVars, backlog>>

Read(c) ==
    /\ Alive(c) /\ conn[c].outq # <<>>
    /\ LET m == Head(conn[c].outq)
       IN  conn' = [conn EXCEPT ![c].outq = Tail(@),
                                ![c].peer = IF m = Switching THEN "open" ELSE @,
                                ![c].loggedIn = IF m.kind = "auth_ok" THEN TRUE ELSE @]
    /\ UNCHANGED <<serverVars, backlog>>

\* The client closes: what it sent before the FIN can still be read.
Leave(c) ==
    /\ "leave" \in Faults
    /\ Alive(c)
    /\ conn' = [conn EXCEPT ![c].peer = "gone", ![c].outq = <<>>]
    /\ UNCHANGED <<serverVars, backlog>>

\* RST: nothing more can be read, and a connection that was not accepted
\* yet leaves the backlog.
Abort(c) ==
    /\ "abort" \in Faults
    /\ Alive(c)
    /\ \/ \E k \in DOMAIN backlog :
             /\ backlog[k] = c
             /\ backlog' = RemoveAt(backlog, k)
             /\ conn' = [conn EXCEPT ![c] = Unused]
       \/ /\ c \notin Range(backlog)
          /\ conn' = [conn EXCEPT ![c].peer = "gone", ![c].inq = <<>>, ![c].outq = <<>>]
          /\ UNCHANGED backlog
    /\ UNCHANGED serverVars

\* The client's machine or network is lost: nothing arrives at the server.
Vanish(c) ==
    /\ "vanish" \in Faults
    /\ Alive(c)
    /\ conn' = [conn EXCEPT ![c].peer = "dead"]
    /\ UNCHANGED <<serverVars, backlog>>

\* Keepalive probes, or the retransmission of unacknowledged data, give up.
Expire(c) ==
    /\ conn[c].peer = "dead" /\ (KeepAlive \/ conn[c].outq # <<>>)
    /\ conn' = [conn EXCEPT ![c].peer = "gone", ![c].outq = <<>>]
    /\ UNCHANGED <<serverVars, backlog>>
-----------------------------------------------------------------------------
ServerNext ==
    \/ ServerInit \/ ServerInitFails \/ Shutdown \/ Select \/ AcceptNothing \/ Accept
    \/ HandshakeFailed \/ ScanDone \/ Reply \/ RelayDone
    \/ \E s \in Slots :
         \/ HandshakeOk(s) \/ Disconnect(s) \/ Ignore(s) \/ Ping(s)
         \/ Credentials(s) \/ Unauthorized(s) \/ Location(s) \/ NullPayload(s)
         \/ RelayTo(s)

BackendNext == \E r \in Results : HttpReturn(r)

ClientNext(c) ==
    \/ Connect(c) \/ SendUpgrade(c) \/ Send(c) \/ Finish(c) \/ Read(c)
    \/ Leave(c) \/ Abort(c) \/ Vanish(c) \/ Expire(c)

Next ==
    \/ ServerNext \/ BackendNext \/ Interrupt \/ Restart
    \/ \E c \in Conns : ClientNext(c)

Spec == Init /\ [][Next]_vars
-----------------------------------------------------------------------------
(* Fairness.  The server's thread is always scheduled; http_post_json has  *)
(* two-second timeouts, so a POST always returns; TCP gives up on a dead   *)
(* peer.  FairSpec assumes nothing of the clients.  CooperativeSpec adds   *)
(* that a live client finishes the frame or upgrade request it began and   *)
(* reads what it is sent, or leaves.                                       *)

FairSpec ==
    /\ Spec
    /\ WF_vars(ServerNext) /\ WF_vars(BackendNext)
    /\ \A c \in Conns : WF_vars(Expire(c))

CooperativeSpec ==
    /\ FairSpec
    /\ \A c \in Conns : WF_vars(SendUpgrade(c)) /\ WF_vars(Finish(c)) /\ WF_vars(Read(c))
-----------------------------------------------------------------------------
(* Properties.                                                             *)

PCs == {"boot", "select", "accept", "handshake", "scan", "post", "reply", "relay",
        "stopped", "failed", "crashed"}

ClientInfo == [sock : Conns \union {Nil}, authenticated : BOOLEAN, user : Users \union {Nil}]

Arrivals == Frame \union {Upgrade, BadUpgrade}

Connection == [peer : PeerStates, inq : Seq(Arrivals), outq : Seq(Message),
               granted : SUBSET Users, loggedIn : BOOLEAN]

TypeOK ==
    /\ pc \in PCs /\ running \in BOOLEAN /\ interrupted \in BOOLEAN
    /\ slots \in [Slots -> ClientInfo]
    /\ readfds \subseteq Conns
    /\ i \in 1 .. MaxClients + 1 /\ j \in 1 .. MaxClients + 1
    /\ cur \in Conns \union {Nil}
    /\ work \in Frame \union Message \union {Nothing}
    /\ backlog \in Seq(Conns)
    /\ conn \in [Conns -> Connection]

\* What the server's program point says about its variables.
Phase ==
    /\ pc = "handshake" <=> cur # Nil
    /\ pc \in {"post", "reply", "relay"} => i \in Occupied
    /\ pc = "post" => \/ work.kind \in {"auth", "register"} /\ work.arg \in Users
                      \/ work.kind = "location" /\ work.arg \in Places
    /\ pc = "reply" => work \in Message
    /\ pc = "relay" => work.arg \in Places
    /\ ~Up => /\ Occupied = {} /\ backlog = <<>>
              /\ \A c \in Conns : conn[c] = Unused

\* An identity in a slot was confirmed by the backend on the very connection
\* that slot now holds: neither the reuse of slots (server.c:157-168,
\* 235-239) nor that of socket handles carries a login over to someone else.
SessionIsolation ==
    \A s \in Slots :
        slots[s].sock # Nil /\ slots[s].authenticated
            => slots[s].user \in conn[slots[s].sock].granted

\* Every open connection is held in exactly one place: a slot, new_socket,
\* or the backlog.  No handle leaks (server.c:172, 177, 235 close whatever is
\* let go of) and none is served through two slots.
HandlesAccounted ==
    /\ \A s, t \in Occupied : slots[s].sock = slots[t].sock => s = t
    /\ IsInjective(backlog)
    /\ \A s \in Occupied : slots[s].sock # cur /\ slots[s].sock \notin Range(backlog)
    /\ cur \notin Range(backlog)
    /\ \A c \in Conns :
         conn[c].peer # "none" <=> \/ \E s \in Occupied : slots[s].sock = c
                                  \/ c \in Range(backlog)
                                  \/ c = cur

\* Every socket the scan will still read has something to read: although
\* readfds was filled before the accept and the other reads, the blocking
\* websocket_frame_recv is never entered on an idle socket.
ScanNeverIdles == pc = "scan" => \A s \in Pending : Readable(slots[s].sock)

\* A client that finds a location in its stream has read the reply that
\* logged it in: the relay never overtakes auth_response.
LoginBeforeLocations ==
    \A c \in Conns :
        conn[c].outq # <<>> /\ Head(conn[c].outq).kind = "location" => conn[c].loggedIn

\* A relay reaches only clients that the backend has confirmed, never its
\* sender, and each of them at most once, in slot order.
RelayAudience ==
    [][\A c \in Conns :
          conn'[c].outq # conn[c].outq /\ pc = "relay" /\ pc' = "relay" /\ j' > j =>
             /\ conn[c].granted # {}
             /\ c # slots[i].sock
             /\ \E s \in Slots : s >= j /\ s = j' - 1 /\ slots[s].sock = c]_vars

\* What a client has sent is eventually read, or its connection is over.
InputConsumed == \A c \in Conns : conn[c].inq # <<>> ~> conn[c].inq = <<>>

\* server.c:261: a connection that has ended "will be cleaned up": its slot
\* and handle become free again.
ConnectionReleased == \A c \in Conns : conn[c].peer = "gone" ~> conn[c].peer # "gone"

\* Ctrl+C at any moment after server_init, even while a frame, a reply or a
\* relay is half done, ends the process, in server_shutdown if not in a crash;
\* under CooperativeSpec, since a client that stops in mid-frame holds the
\* thread where the flag is not looked at.
ShutdownCompletes == Up /\ interrupted /\ ~running ~> pc \in Exited
-----------------------------------------------------------------------------
\* The sockets select() reported and the loop has not reached yet are still
\* open and readable, through the accept and the frames handled before them.
StillReadable ==
    /\ pc \in {"accept", "handshake"} =>
         \A c \in readfds : Readable(c) /\ \E s \in Occupied : slots[s].sock = c
    /\ pc = "scan" => \A s \in Pending : Readable(slots[s].sock)
    /\ pc \in {"post", "reply", "relay"} => \A s \in Pending \ {i} : Readable(slots[s].sock)

\* The inductive invariant.
IInv == TypeOK /\ Phase /\ HandlesAccounted /\ SessionIsolation /\ StillReadable
=============================================================================
