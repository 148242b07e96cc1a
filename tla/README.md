# GeoSync: a TLA+ verification project

GeoSync (`FISAC1/`) is a location-sharing system in three processes: a
single-threaded C WebSocket server, a Flask service over SQLite, and a page in
each user's browser.  These modules model how the three behave together; the
lines of the code every definition stands for are in `PROJECT.json` under
`map`.

## The system

| Component | State | Operations | Hard part |
|---|---|---|---|
| Event loop, `src/server.c`, `src/main.c` | `Server` (listening socket, `running`, `clients[MAX_CLIENTS]`: socket, `authenticated`, `user_id`), `readfds`, loop indices | `server_init`, `server_run` (select, accept, handshake, scan), `server_broadcast`, `server_shutdown`, `signal_handler` | sockets are switched to blocking mode, so every read and write may wait; slots and handles are used again; `readfds` ages during an iteration; Ctrl+C at any moment |
| Message protocol, `src/protocol.c` | none of its own; writes the slot of the sender | `handle_message`, `handle_auth`, `handle_register`, `handle_location`, `handle_subscribe`, `send_json_response`, `log_event`, `json_escape_minimal` | the handler posts to the service in the middle; missing payloads; the same text is parsed again for the broadcast |
| WebSocket layer, `src/websocket.c`, `src/network.c` | the bytes on the connection | `websocket_handshake`, `websocket_frame_recv`, `websocket_frame_send`, `robust_send`, `robust_recv` | partial frames, control frames, payloads of length 0 |
| SHA-1 and Base64, `src/sha1.c`, `src/base64.c` | none | the accept key of the handshake | block boundaries |
| HTTP client, `src/http_client.c` | none | `http_post_json`, `http_get` | two-second timeouts: a call that has failed may have succeeded, or succeed later |
| Database service, `scripts/service.py`, `scripts/schema.sql` | tables `users`, `locations`, `logs` | `init_db`, `/auth`, `/register`, `/location`, `/log`, `/stats` | threads of requests whose caller has gone; restarts |
| Browser client, `frontend/app.js` | `ws`, `state`, timers, the position watch, the demo route | sign-in, reconnect drill, sign-out, socket callbacks, positions | callbacks of an old socket run after the next one was made |
| Embedded database, `src/database.c` | the same tables and `sessions` | `db_init`, `db_add_user`, `db_add_location`, `db_add_log`, `db_seed_users`, `db_create_session` | no longer linked (`Makefile`, `APP_SRCS`): the service has replaced it and is to match it |
| cJSON, `src/cJSON.c` | none | `cJSON_Parse`, `cJSON_GetObjectItem` | a lenient reader between two strict ones |
| Test and report scripts, style sheets | | | outside the system |

They interact so.  The browser sends text frames (`auth`, `register`,
`location`, `subscribe`) and pings; the server answers on the same connection,
calls the service over HTTP while it handles `auth`, `register` and `location`,
and relays each `location` of a logged-in client to every other logged-in
client.  The server has one thread: while it waits for the service, or for a
client in `recv` or `send`, no one else is served.  A client that hangs up, or
is reset, is noticed when the scan reads its socket; writes to it fail without
consequence.

What makes each part correct:

* server: a login belongs to one connection and never outlives it; each open
  handle is held in one place; the scan never waits on an idle socket; a relay
  goes to the logged-in others, once, and after their login reply; whatever a
  client has sent is read, dead connections are released, Ctrl+C ends the
  program;
* service: a name has one owner; what was confirmed is in the tables; each
  change is one the layer it replaced would have made, so that rows survive
  restarts; late requests neither duplicate nor displace anything; what it
  reports hangs together;
* both: who is logged in has an account; what is stored and what is relayed
  part only where a call timed out or a location has no coordinates;
* texts: a name means the same to the page, the server and the service;
* WebSocket layer: however TCP cuts the stream, a result is that of its frame
  and the reader ends where the next begins; the accept key is the one the
  browser expects;
* browser: one live socket; no location before the login of that socket; the
  page shows what its connection is; a sign-in ends, and a sign-out lasts.

## The modules

| Module | What it is |
|---|---|
| `LocationServer` | the C server with its clients' TCP connections: `main`, `server_run`, the dispatcher and handlers, what the handshake and the frame reader return |
| `MCLocationServer` | frames for the instances of it |
| `MCServerClaims` | what documents, comments and tests say of the server and the code does not do |
| `LocationServerProofs` | the theorems about `LocationServer` |
| `LocationRelay` | abstract specification: a group, its members' inboxes, one relay at a time |
| `RelayRefinement` | the refinement mapping from `LocationServer` |
| `MCLocationRelay` | an instance of it |
| `LocationRelayProofs` | the order of login and locations, and the step simulation: `LocationServer` implements `LocationRelay` |
| `EmbeddedDatabase` | abstract specification of the tables: `database.c`, one call at a time |
| `DatabaseService` | `service.py` over SQLite, with `http_post_json` and the reader of `/stats` as its callers |
| `MCDatabaseService` | an instance of it |
| `DatabaseServiceProofs` | the theorems about `DatabaseService`, and that it implements `EmbeddedDatabase` |
| `GeoSync` | `LocationServer` composed with `DatabaseService` |
| `MCGeoSync` | an instance of it |
| `GeoSyncProofs` | the composition implements its parts, and the theorems about both |
| `WebSocket` | one connection of `websocket.c` byte by byte: the handshake's answer, frames in both directions |
| `HandshakeKey` | the blocks `sha1.c` hashes, and `base64.c`, with reference definitions |
| `MCWebSocket` | an instance of it |
| `SequenceLemmas` | lemmas about recursive functions, joined sequences and sequences that stand in others |
| `WebSocketProofs` | the theorems about the frames of `WebSocket` and its accept key |
| `JsonEscape` | the loop of `json_escape_minimal` |
| `MessageText` | a name's way through `JSON.stringify`, `parse_string` of cJSON, the document for the service, and back |
| `MessageTextProofs` | the theorems about the loop and about the name's way |
| `BrowserClient` | the sockets, timers and sign-in of one page of `app.js` |
| `MCBrowserClient` | what a comment in `app.js` says of it |
| `BrowserClientProofs` | the theorems about `BrowserClient` |

### LocationServer

The thread's place in the code is `pc`:

| `pc` | where the thread is | leaves by |
|---|---|---|
| `boot` | `main` up to `server_init` (a two-second sleep) | `ServerInit`, `ServerInitFails` |
| `select` | top of `server_run`'s loop | `Select`, `Shutdown` |
| `accept` | `accept` (`server.c:122`) | `Accept`, `AcceptNothing` |
| `handshake` | `websocket_handshake` | `HandshakeOk`, `HandshakeFailed` |
| `scan` | the loop over the slots, or `websocket_frame_recv` in it | `Disconnect`, `Ignore`, `Ping`, `Credentials`, `Unauthorized`, `Location`, `NullPayload`, `ScanDone` |
| `post` | `http_post_json` in a handler | `HttpReturn` |
| `reply` | `send_json_response`, or the pong | `Reply` |
| `relay` | `server_broadcast` | `RelayTo`, `RelayDone` |
| `stopped`, `failed`, `crashed` | after `server_shutdown`; after a set-up that failed; after an access violation | `Restart` |

A blocking call ends one step, so clients, the network and Ctrl+C act while
the server waits, and what lies between two blocking calls is one step (the
process has one thread; the signal handler only writes `running`).  A
blocking read or write is enabled when it would return.  `slots` is
`server->clients`, with the user's name for `user_id` too; `readfds`, `i`, `j`,
`cur` (`new_socket`) are the code's variables; `work` is the message at hand.
`i` stays at the slot being handled while the thread is in `post`, `reply` or
`relay`, and `ScanDone` skips the slots that are not in `readfds`.

`conn[c]` is the connection with handle `c`: `peer` (the client's end), `inq`
and `outq` (frames in flight), and two history fields, `granted` (identities the
service confirmed on this connection) and `loggedIn` (the client has read a
success).  A handle that was closed may be handed out again at once.

Frames are told apart by what the code does with them (`PlainTextKinds`,
`ControlKinds`), not by their bytes.  `empty` is any frame without payload,
which `recv_exact` reports like the end of the stream; `partial` has not
arrived completely.  A `bad_location` is a location without numeric
coordinates, which is relayed without a post.

### DatabaseService, EmbeddedDatabase

`requests` holds the requests inside Flask; a call that fails leaves its
request there, to be handled later.  Each handler is one SQL statement and its
commit, one step.  `Refuse` is an error of SQLite or Flask: no success, no
change.  `/stats` is five statements in no transaction, five steps; `stats` is
what they have read so far.  Its callers, any number of pages, are one: it
changes nothing, so that two of them do not meet.

Passwords are sequences of code points and `hash_password` is computed, in
two halves of 16 bits since TLC's integers have 32 with their sign.  Two passwords of one
hash ("xAb" and "xBA") are in the instance: either logs in for the other.

`Implemented` maps the tables to those of `EmbeddedDatabase` and the service's
being up to the database handle.  It carries what `service.py:12` (the
hashes agree) and `service.py:29-30` (rows survive a restart) say; the demo accounts
are its `Seeds` (the C code seeds four accounts, the service two).  Seeding may fail on
both sides and neither notices: `init_db` passes over an error of its `INSERT`s
(`service.py:58`) and the service comes up with one demo account or none, whose name a
registration may then take; `db_seed_users` looks at no result.

### GeoSync

`GeoSync` replaces the free choice of an HTTP result in
`LocationServer` by what `DatabaseService` makes of the document posted;
`ServerImplemented` states that it implements `LocationServer`'s `FairSpec`.
The history variable `relayed` has the locations whose relay has begun, each
with its post and the result of it: `MapAndTableAgree` compares it with the table.
`/log` and `/stats` take no part here.  The server's `log_event` only holds
its thread for the time of a post, in states in which it may be held anyway.

### WebSocket, HandshakeKey

`stage` is the `recv_exact` the reader waits in (`header`, `length16`,
`length64`, `mask`, `payload`), `buf` what it has so far, `header` the local
variables of `websocket_frame_recv`.  `flight` are the bytes of the frame the
client has sent that have not arrived, `stream` those `recv` may return.  The
server reads in blocking mode (`server.c:137`), so a read waits for a byte or for
the end, and the retries of `recv_exact` never run.  `returned` has the
results and `sent` the frames they stand for.  `websocket_frame_send` is seen in the
pongs.  In `HandshakeKey` a byte of the message is its position, so that a
block shows which bytes went into it; memory nobody has written is `Unknown`.
`Blocks` equals `Padded` for messages of 0 to 55 and 57 to 64 bytes and for multiples of 64.

### JsonEscape, MessageText

Each iteration of the loop is a step; a character is one of the four classes the loop
tells apart.  `MessageText` adds what happens to the same text elsewhere.  Both loops of
`parse_string` (the one that finds how much to allocate, `string_length`, and the one that
writes) and the readers of Flask and the browser (`Strict`) are recursive functions over
its positions.  For the documents the classes do not suffice: there, and in a name or a
password on its way into one, the marks `{ } , :` and the two keys are symbols of their own
(`Symbol`).  `req_json` is the document of `handle_auth`, written without escapes and cut at the size of
its buffer; `get` is `data.get`, for which the last member of a key counts.  A reader is
`lost` where the symbols do not tell what it would do; `AskedAsTyped` includes that this does not
happen.

`AskedAsTyped` is about inert texts: no backslash, and no marks in a text that has a quote.
Of other texts the code has no such property - nothing is escaped at `protocol.c:67`, so
that what follows a quote is part of the document - and no claim is made of them; `Inert` names
that boundary.

### LocationRelay

Members, the clients whose connection has ended, the relay in progress and each client's
inbox.  The mapping (in `RelayRefinement`) makes the members the authenticated
slots' clients, and an inbox a connection's output, in which locations are told
apart and every other message is `Other`.

### BrowserClient

`sock` holds the page's WebSocket objects, of which `ws` is the current one:
`close()` starts a closing, `onclose` of that object runs later.  Each click,
callback and timer is a step.  Three history variables say what could not be
said otherwise: `orphan` (a position watch runs that `watcherId` has lost),
`overtaken` (a login was answered while another socket was still closing) and
`out` (the user has signed out, with no drill waiting).

## The runs

| Run | Instance | Shows |
|---|---|---|
| `sessions` | 2 handles, 2 slots, 2 users; login, location, partial frame; leaving, reset, Ctrl+C | `TypeOK`, `SessionIsolation`, `LoginBeforeLocations`, `ScanNeverIdles`, `RelayAudience`, and `IInv`, the inductive invariant of the proofs |
| `frames` | 2 handles for 1 slot, every kind of frame; leaving, Ctrl+C | `HandlesAccounted`, with crash and restart and a client turned away for want of a slot; `ShutdownCompletes` |
| `liveness` | 2 handles, 2 slots, vanishing clients | `InputConsumed`, `ConnectionReleased` |
| `relay` | 3 handles, 3 slots, resets; locations without coordinates, which spare the post | `RelaySpec`: the server implements `LocationRelay` |
| `service` | 2 users, both with demo accounts, whose seeding may fail; 3 passwords of which 2 have one hash, 3 posts, a reader of `/stats` | `OneOwner`, `ConfirmedAccounts`, `ConfirmedInOrder`, `StatsConsistent`, `TypeOK`; `Implemented`: the service implements `EmbeddedDatabase` |
| `geosync` | 2 handles, 1 slot, 2 users, 1 password, 2 posts, locations with coordinates and without; resets, Ctrl+C | `LoggedInUsersExist`, `LocationsHaveOwners`, `MapAndTableAgree`, `ServerImplemented` |
| `browser` | 4 sockets, 2 drills waiting | `OnlyCurrentLive`, `NoLocationBeforeLogin`, `LiveWhenLoggedIn`, `OnePositionSource`, `SignedOutStaysOut`, `SignInEnds`, `TypeOK` |
| `websocket` | 2 frames out of 15, cut at 8 places or not; 2 digests, 5 lengths of key | `ResultsMatchFrames`, `FrameBoundary`, `PongsEcho`, `FramesServed`, `AcceptKeyRight` |
| `escape` | texts of up to 5 characters, buffers of 18 sizes between 0 and 21 | `WithinBuffer`, `BareOnlyAtEnd`, `ReadAsTyped`, `AskedAsTyped`, `ShownAsTyped` |
| `claim_malformed` | 1 client | violated: an `auth` without payload ends the process |
| `claim_interrupt` | 1 client | violated: Ctrl+C before `server_init` is forgotten |
| `claim_guard` | 3 sockets | violated: `onclose` of an old socket stops the new one's timer |

**Bounds.**  `Conns` and `MaxClients` (30 in the code): two clients are enough
for one to take over another's slot or handle, to wait behind another, and to
be relayed to; two for one slot fill the table; three are enough for a relay
with two receivers of which one fails.  The safety invariants are
proved for every number.  `MaxIn` (frames a client has sent that are not read)
and `SendBuf` (messages that fit a send buffer): 1 lets the server block on each
write.  `Faults` chooses the
faults of a run.  `MaxPosts`: three posts are the least for one that is given
up, one confirmed after it and a third registration of the same name, or for
rows committed between the statements of `/stats`; `Levels` has one level, which
stands for a whole entry.  In
`GeoSync` the bound holds back the clients and never the server.
`MaxSockets`: four lets three sockets close while a fourth opens;
`MaxDrills` bounds the drills whose timers run at once.  `MaxFrames`: two frames let a
result depend on what the frame before it left behind.  `BufferSize` is 131 (4096 in
the code), the least that a frame with a two-byte length fits with room to
spare; the frames are those at the ends of the three length fields and of the
buffer.  `Cuts` has a byte in every field of a frame and between its fields.
`KeyLengths`: 24 is a browser's; the others are the boundaries at 56 (which
goes wrong, and the property leaves out) and 64 bytes.  The loop of
`json_escape_minimal` looks at three bytes of its buffer at most, so that small buffers stand
for those of 128 and 384; the document for the service (512 bytes in the code) has 15 symbols around
name and password, which have five together, and fits 21: the sizes cut it in every member
and around every mark.  Symmetry over handles is used
only in runs without a temporal property that needs fairness.
`Ctrl+C` is once per process (a second one kills it, since the C runtime
disarms the handler).

**Fairness.**  `FairSpec`: the server's thread is scheduled (`WF` of
`ServerNext`), a post returns (`http_client.c:30-32` sets two-second timeouts),
and TCP gives up on a dead peer (`SO_KEEPALIVE`, `socket.c:98-115`, on in the tuned
profile).  No fairness of clients.  `CooperativeSpec`
adds that a live client sends the upgrade request, finishes the frame it began
and reads what it is sent: without that `recv` and `send` on the blocking
sockets may wait for ever, so nothing below could hold.  `GeoFairSpec`
justifies the second assumption: `geosync` checks that it follows
from timeouts alone, whatever the service does.  Browser `FairSpec`: callbacks
and timers that are due run; the user and the server owe nothing.

In `WebSocket`, a reader that can go on does so, what was sent
arrives, and a handshake whose client has gone fails; the client owes nothing.

Deadlock is checked in every run but `websocket`, where a closed connection is the
end, and `escape`, where the function returns.  `select()` timing
out changes nothing and is not a step, but a client can always act.

## What the code does that its texts do not say

* `protocol.c:54` dereferences a payload that may be missing: `{"type":"auth"}` ends the process
  (`claim_malformed`; `chaos_test.py:118,136` and `map.md:496` say that it survives).
* `server.c:45` sets `running` after the signal handler is installed (`claim_interrupt`; `main.c:23-25`).
* `sha1.c:74` compares with the length of the whole data: digests of messages of 56 bytes, and of
  more than 64 that are no multiple of 64, are wrong (`AcceptKeyRight` holds for the lengths up
  to 64 but 56; a browser's key makes 60).
* `app.js:421` clears the login timer of a newer socket (`claim_guard`; `app.js:375`).
* In the model, without a run of their own: every frame of length 0, the usual ping
  among them, is taken for a disconnect (`websocket.c:204`, `Meaning` in `WebSocket`;
  `member_1_workflow_and_concurrency.md:18` says "without forced disconnect"); a quote
  that only just fits the buffer of `json_escape_minimal` stays bare (`protocol.c:28`, allowed by
  `BareOnlyAtEnd`; `protocol.c:21`), as in a user name whose escaped form has its 127th byte
  there; one client that stops in mid-frame blocks the
  others (`server.c:137`; `FAILURE_ANALYSIS.md:66` says "without blocking other
  clients") - the reason why `liveness` needs `CooperativeSpec`; a location
  without coordinates is relayed and not stored (`protocol.c:210`;
  `VIVA_PREP.md:227`; `MapAndTableAgree` says that no other is, but for timeouts
  and refusals); after a timeout two requests may work on SQLite
  at once (`http_client.c:71`; `VIVA_PREP.md:229`).
* Also in the model: a sign-out within the 900 ms of a drill is undone by its timer
  (`app.js:969`, left out of `SignedOutStaysOut`); a refused login leaves the page in state
  `CONNECTING`; a password logs in for any other of its hash
  (`service.py:17`); a name with a control, or with a quote and no marks, cannot log in, and
  a login whose texts are not inert need not be asked for as it was typed (`protocol.c:67`, left out of
  `AskedAsTyped`); a demo account whose seeding failed is missing without a word
  (`service.py:58`);
  the counts of one answer of `/stats` may be of different moments (`service.py:151`).
* Not in the model, met while reading: after a registration `authMode` stays `register`
  (`app.js:369`), so that a drill registers again and is refused, where
  `map.md:222` says "re-authenticates" (in the model it is a login that is refused);
  `database.c` reads bytes as signed `char` and `service.py` code points, so that passwords
  beyond ASCII do not hash alike, where `service.py:12` says "exactly";
  each accepted login starts an interval and `onclose` stops the last one only (`app.js:501`);
  answers of `/stats` may come in another order (`app.js:254`).

## What is proved

Each theorem holds for all constants that satisfy the named assumptions of its module: for the
server at least one slot, finitely many handles, `Nil` distinct, inputs that are frames and
positive bounds; for the service passwords that are sequences of code points, demo accounts
among the credentials and any number of posts; for the page any numbers of sockets and drills;
for the reader any frames whose length fits its field, any number of them, any cuts of the stream
and a buffer of 1 to 65536 bytes (4096 in the code, `server.c:188`), any digests of 20 bytes and
keys of any lengths; for the texts any characters of the four classes, any lengths and buffers of
any sizes.  No theorem has a hypothesis beside these.

| Module | Theorem | |
|---|---|---|
| `LocationServerProofs` | `TypeCorrectness` | `Spec => []TypeOK` |
| | `Invariance` | `Spec => []IInv` |
| | `SessionsAreIsolated` | `Spec => []SessionIsolation` |
| | `HandlesAreAccounted` | `Spec => []HandlesAccounted` |
| | `ScanReadsReadySockets` | `Spec => []ScanNeverIdles` |
| | `RelaysReachTheAudience` | `Spec => RelayAudience` (an action property) |
| `LocationRelayProofs` | `RelayFollowsLogin` | `Spec => []LoginBeforeLocations` |
| | `ServerImplementsRelay` | `Spec => RelaySpec` |
| `DatabaseServiceProofs` | `TypeCorrectness` | `Spec => []TypeOK` |
| | `NamesHaveOneOwner` | `Spec => []OneOwner` |
| | `ConfirmedHaveAccounts` | `Spec => []ConfirmedAccounts` |
| | `ConfirmedStoredInOrder` | `Spec => []ConfirmedInOrder` |
| | `StatsAreConsistent` | `Spec => []StatsConsistent` |
| | `ServiceImplementsDatabase` | `Spec => Implemented` |
| `GeoSyncProofs` | `CompositionImplementsServer` | `GeoSpec => Spec` |
| | `CompositionImplementsService` | `GeoSpec => Service!Spec` |
| | `LoggedInHaveAccounts` | `GeoSpec => []LoggedInUsersExist` |
| | `LocationsAreOwned` | `GeoSpec => []LocationsHaveOwners` |
| | `MapsAgreeWithTable` | `GeoSpec => []MapAndTableAgree` |
| `BrowserClientProofs` | `TypeCorrectness` | `Spec => []TypeOK` |
| | `OldSocketsDie` | `Spec => []OnlyCurrentLive` |
| | `LocationsFollowLogin` | `Spec => []NoLocationBeforeLogin` |
| | `LiveMeansLoggedIn` | `Spec => []LiveWhenLoggedIn` |
| | `PositionsHaveOneSource` | `Spec => []OnePositionSource` |
| | `SignOutIsFinal` | `Spec => []SignedOutStaysOut` |
| `WebSocketProofs` | `TypeCorrect` | `Spec => []TypeOK` |
| | `Invariance` | `Spec => []IInv` |
| | `ReaderResultsMatch` | `Spec => []ResultsMatchFrames` |
| | `ReaderAtBoundary` | `Spec => []FrameBoundary` |
| | `PongsMatch` | `Spec => []PongsEcho` |
| | `AcceptKeysAreRight` | `Spec => []AcceptKeyRight` |
| `MessageTextProofs` | `EscapeStaysWithin` | `Spec => []WithinBuffer` |
| | `EscapeIsJson` | `Spec => []BareOnlyAtEnd` |
| | `NamesAreRead` | `Spec => []ReadAsTyped` |
| | `AccountsAskedAsTyped` | `Spec => []AskedAsTyped` |
| | `NamesAreShown` | `Spec => []ShownAsTyped` |

**The server.**  `IInv` is the conjunction of `TypeOK`, `Phase`, `HandlesAccounted`,
`SessionIsolation` and `StillReadable`.  None of the properties is inductive
alone.  `SessionIsolation` is lost when a handle is closed while a slot still
names it, which `HandlesAccounted` excludes; that in turn needs `Phase` (`cur`
is a handle exactly during the handshake; the slot at `i` is occupied in
`post`, `reply`, `relay`).  `ScanNeverIdles` speaks of the scan only, but
readiness was sampled in `Select` and has to survive accept, handshake, post,
reply and relay: that is `StillReadable`.  The proof has one lemma per group of actions and
part of the invariant (`TypePhase...`, `Handles...`, `Sessions...`,
`StillReadableStep`), one step per action under it, and lemmas about
`Tail`, `Append` and `RemoveAt` on the backlog.

**The order of login and locations.**  `LoginBeforeLocations` looks at the head of a stream;
the invariant `LoginOrder` at all of it.  `LoginLeads`: every location in a stream has a success
reply before it, or the client has read one.  `LoginTold`: a slot that is authenticated has
been told, or the server is in `reply` with just that message - the gap between
`client->authenticated = 1` and `send_json_response`.  `RepliesAreReplies`: what is written there
is never a location.

**The relay.**  `ServerImplementsRelay` takes `IInv`, `LoginOrder` and `RelayInv`: a relay
starts at the first slot, a location is posted only for a client that is logged in, and nobody is
written to before it is in a slot, so that the 101 is the first message of a stream.  Each
server action is then one abstract step or none: `Location` and `StoreReturn` publish
(`RelayBegins`), `RelayTo` delivers or, if the connection has ended, misses, `RelayDone` finishes
with nobody left, `LoginReturn` joins, `Disconnect` and `HandshakeFailed` remove, `Shutdown` and
`Crash` stop.  That sockets differ (`HandlesAccounted`) makes the audience lose one client when it
loses one slot (`ClientsOf`).  `LocationRelay` lets the server send a member other things between
two relays (`Reply`), and the mapping shows them as `Other`.

**The service.**  Its invariant adds to the properties that posts are numbered in the
order they are made, that each request in the service has its own number and at most one row
carries it, that what is answered `ok` is in the tables,
that a name is won once, and that `/stats` has read a beginning of its
columns, each at most as new as the table.  `users` and `locations` only grow (`Grows`), so that
what was true of a row stays true (`RowsStay`) while late requests are handled.  In
its refinement `init_db` is `db_init` and `db_seed_users`, `/register`, `/location` and `/log`
are `db_add_user`, `db_add_location` and `db_add_log`, and all else changes no table;
`hash_password` and the layer's own hash agree by definition (`HashesAgree`).

**Both.**  `CompositionImplementsServer` and `CompositionImplementsService` make every
theorem about the parts one about the whole; the second needs the server's invariant, since the
document of a post is in the service's terms only if the message at hand is what `Phase` says.
`GeoInv` adds what relates the two: the call in progress is the post of the
message being handled, locations on their way are from accounts, and the ledger of relays
has the posts that are over.

**The page.**  `LiveWhenLoggedIn` and `OnePositionSource` depend on which `onclose` is
still to come: `NoOldSocketLeft` and `StoppedByOldSocket` say so.

**The frame reader.**  What the properties say of results and answers cannot be seen in the state
before: a reader in the middle of a frame has bytes of it and nothing says yet whose they are.  So
the invariant says where it is.  `Flow` names everything the client has sent, joined, with the place of each
frame in it, and says that `Unread` (what `recv_exact` has, what has arrived and what is in flight)
stands in it at `Position`: where the frame in hand begins, and as far into it as `stage` says.
`InHand` says that `header` has what was read of that frame, `Told` that a closed connection
has its `End`.  TCP moves bytes within `Unread`, a call of `recv_exact` takes them off its
front (`FieldRead`: and they are the field of the frame), a frame that is sent makes the whole longer
(`SendKeeps`), and a lost client cuts the end off (`HangUpKeeps`).  `LengthRead` and `MaskedTwice` say that the
lengths and the mask are read as they were written: exclusive or is defined bit by bit, and
a mask that is used twice is undone.  `PongIs` says the same of the other direction: what
`websocket_frame_send` writes is a frame.  `IInv` has a quantifier over all byte sequences, so
that TLC checks its other parts only.

`SequenceLemmas` has what this needs of data of any length.  The library's induction theorems take an
operator, which the provers cannot instantiate; but that a set of naturals that is not
empty has a least element can be stated of sets (`LeastNatural`), and
`Induction` and `Recursion` follow from it: a recursive function satisfies its
equation, and a fold over a sequence of sequences (`FlattenSeq`) is the one sequence that has each of them
at its place (`FlattenHas`).

**The accept key.**  `Accepted` says that what is about to be sent was made from the key of the request
and some digest; the rest is about the two algorithms.  For messages up to a block, but for 56 bytes, no
call of `sha1_update` has work for more than two rounds (`TwoRounds`), so that its loop is two copies; what is in the
block after each is said byte by byte (`Copies`).  There are three cases: the padding fits the block (`PaddedAtOnce`); the block was
full and the padding begins a new one (`PaddedAfterBlock`); the padding fills the block and goes on
(`PaddedInTwo`), and here the second round, which compares with the whole length, takes bytes from beyond
the padding, all of which `sha1_final` overwrites with the count.  With 56 bytes they would be a
block of their own, which is why the property leaves that length out.  `base64_encode` of 20 bytes is six quads and a tail of
two (`TextIs`), and a quad has the 24 bits of three bytes (`QuadIs`).

**The loop.**  `FormSoFar` says that the buffer holds the JSON form of the characters behind the
loop, or of all but the last of them, a special one that stands bare in the last byte; without the second case
it would not be inductive.  That form is defined by where each character lies in it (`FormLength`, by counting) and
not by recursion, which is why it can be proved for every length.

**A name's way.**  What a parser has read at the end of a text is a recursive function of it.  The proofs
say what its state is at the place where the part for each character begins (`NameRead` for `parse_string`,
`FormLeads` for the browser), by induction over the characters; and that the first loop of `parse_string` is
never behind what the second has written (`LengthEnough`).  `Leads(s, d, t)` says that a strict reader comes from state `s` over
the symbols of `d` to `t`: such ways are joined (`LeadsJoin`), and a document is followed part by
part (`CredentialsRead`).  A plain text is read as it is (`MemberRead`).  An inert one that is not plain makes an error
that stays (`MemberRefused`): after its first quote only letters and controls come before the next, which
no strict reader takes there.  A document that was cut is not at its end, because nothing but a
last brace leads there and all that follows it would be lost (`PartRefused`).

Only model-checked:

* all liveness (`InputConsumed`, `ConnectionReleased`, `ShutdownCompletes`,
  `FramesServed`, `SignInEnds`) and the fairness that `ServerImplemented` adds to
  `CompositionImplementsServer`: fairness and `ENABLED` are out of the proof system's reach;
* what `hash_password` computes; that the layer and the service compute the same holds by definition of
  the model (`HashesAgree`).

Every invariant of a run and every action property is a theorem.

## What is not modelled

`log_event` in the server (a post whose result is ignored: it changes nothing but the
service's `logs`, and the server's thread may be held where it stands
for as long anyway); the sessions of `database.c` (the service has none) and passwords beyond
ASCII; SHA-1's compression function; the
text of the upgrade request but for its key; frames of 2^16 bytes in `websocket_frame_send`;
the socket options that tune speed; of cJSON all but its strings (its results are the kinds
of frame); what `app.js` only displays, its reconnect counter, uptime
interval and polling of `/stats` included; the scripts.  A second user's page is not a second
`BrowserClient`: pages share nothing but the server, whose clients are
`LocationServer`'s.  SQLite is modelled as statements that succeed or fail
whole.

## Plan

The order: the server first, since everything else hangs on it; what it
promises; the service; both; the browser; then the bytes and algorithms below; then the
layer the service replaced and the way of a name through all three processes.  All of these
are done, with their runs, and so are the proofs of every safety property of the runs and of two
refinements.  That `LocationServer`'s frame kinds are what `WebSocket` returns for them is stated by
`Meaning` and `ResultsMatchFrames`.  Next: properties the theorems now suggest for the composition,
the relay's order of locations (`RelaySpec`) against the table's.
