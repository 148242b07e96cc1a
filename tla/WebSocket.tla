------------------------------ MODULE WebSocket ------------------------------
(***************************************************************************)
(* One connection of src/websocket.c over its bytes: the answer to the     *)
(* upgrade request, then websocket_frame_recv as server_run calls it, over *)
(* a stream that TCP delivers in pieces of any size.                       *)
(*                                                                         *)
(* The socket is in blocking mode (server.c:137), so recv() waits for a    *)
(* byte or the end of the stream, and recv_exact's retries never run.      *)
(* The text of the upgrade request is left out but for its key.            *)
(***************************************************************************)
EXTENDS HandshakeKey, FiniteSets

CONSTANTS
    BufferSize,  \* of the buffer server_run reads into
    KeyLengths,  \* lengths of the Sec-WebSocket-Key of this instance
    Digests,     \* SHA-1 digests of this instance
    Frames,      \* the frames its client may send
    Cuts,        \* bound: the bytes of a frame after which TCP may pause
    MaxFrames    \* bound: frames the client sends

Byte == 0 .. 255

\* A frame as the client means it.  form is the field its length is in: 7
\* bits, or 2 or 8 bytes.
ClientFrame == [opcode : 0 .. 15, masked : BOOLEAN, form : {7, 16, 64}, length : Nat]

\* A length that does not fit the lower two bytes is too large for the buffer.
TooLarge == 65536

\* The length of a frame fits its field.
Fits(f) == (f.form = 7 => f.length < 126) /\ (f.form = 16 => f.length < 65536)

ASSUME SizesAssumption ==
    BufferSize \in 1 .. TooLarge /\ MaxFrames \in Nat /\ Cuts \subseteq Nat
ASSUME KeysAssumption == KeyLengths \subseteq Nat
ASSUME DigestsAssumption == \A d \in Digests : d \in [1 .. 20 -> Byte]
ASSUME FramesAssumption == Frames \subseteq ClientFrame /\ \A f \in Frames : Fits(f)

VARIABLES
    stage,    \* where websocket_handshake or websocket_frame_recv is
    flight,   \* bytes of a frame that have not arrived
    stream,   \* bytes that have arrived and recv() has not returned
    ended,    \* the client has closed
    buf,      \* what recv_exact has so far
    header,   \* opcode, mask bit, payload_len and masking_key so far
    key,      \* the length of the key in the upgrade request
    accept,   \* Sec-WebSocket-Accept and what it was made from, until it is sent
    replies,  \* frames the server has sent: the bytes of each
    sent,     \* history: the frames the client has sent
    whole,    \* history: has the last of them been sent to its end?
    returned  \* history: the results of websocket_frame_recv

vars == <<stage, flight, stream, ended, buf, header, key, accept, replies, sent, whole, returned>>

NoAccept == [text |-> <<>>, digest |-> <<>>, blocks |-> <<>>]
NoHeader == [opcode |-> 0, masked |-> FALSE, length |-> 0, mask |-> <<>>]

Init ==
    /\ stage = "request" /\ flight = <<>> /\ stream = <<>> /\ ended = FALSE /\ buf = <<>>
    /\ header = NoHeader /\ key \in KeyLengths /\ accept = NoAccept
    /\ replies = <<>> /\ sent = <<>> /\ whole = TRUE /\ returned = <<>>
-----------------------------------------------------------------------------
(* Bytes.                                                                  *)

\* n in big-endian order; a length of 2^16 or more is written as one whose
\* upper bytes are not zero.
BigEndian(n, bytes) ==
    [k \in 1 .. bytes |-> CASE k = bytes     -> n % 256
                            [] k = bytes - 1 -> (n \div 256) % 256
                            [] OTHER         -> IF n >= 65536 THEN 1 ELSE 0]

\* ntohs, swap_uint64: only the lower two bytes of a number that is not too
\* large are ever used.
Value(bytes) ==
    IF \E k \in 1 .. Len(bytes) - 2 : bytes[k] # 0 THEN TooLarge
    ELSE bytes[Len(bytes) - 1] * 256 + bytes[Len(bytes)]

\* The exclusive or of two bytes, bit by bit.
XorBit(a, b, bit) == IF (a \div bit) % 2 = (b \div bit) % 2 THEN 0 ELSE bit
Xor(a, b) == XorBit(a, b, 1) + XorBit(a, b, 2) + XorBit(a, b, 4) + XorBit(a, b, 8)
             + XorBit(a, b, 16) + XorBit(a, b, 32) + XorBit(a, b, 64) + XorBit(a, b, 128)

\* buffer[i] ^= masking_key[i % 4]
Masked(bytes, mask) == [k \in DOMAIN bytes |-> Xor(bytes[k], mask[((k - 1) % 4) + 1])]

\* Any payload will do that tells its bytes apart.
Payload(f) == [k \in 1 .. f.length |-> 7 * k % 256]
MaskingKey == <<17, 34, 200, 255>>

\* The bytes of a client's frame (RFC 6455, 5.2).  What follows the length of
\* a frame that is too large is left out: it is never read.
ShortLength(f) == CASE f.form = 7 -> f.length [] f.form = 16 -> 126 [] f.form = 64 -> 127
LongLength(f) == CASE f.form = 7  -> <<>>
             [] f.form = 16 -> BigEndian(f.length, 2)
             [] f.form = 64 -> BigEndian(f.length, 8)
Encoded(f) ==
    <<128 + f.opcode, ShortLength(f) + IF f.masked THEN 128 ELSE 0>> \o LongLength(f) \o
    (IF f.length >= BufferSize THEN <<>>
     ELSE IF f.masked THEN MaskingKey \o Masked(Payload(f), MaskingKey)
     ELSE Payload(f))

Bytes == [f \in Frames |-> Encoded(f)]

\* Mutant of FrameSent: 126 bytes do not fit the 7 bits.
FrameSentShort(payload, opcode) ==
    LET len == Len(payload)
    IN  <<128 + opcode>> \o
        (IF len <= 126 THEN <<len>> ELSE <<126>> \o BigEndian(len, 2)) \o payload

\* websocket_frame_send; no message the server sends needs eight bytes.
FrameSent(payload, opcode) ==
    LET len == Len(payload)
    IN  <<128 + opcode>> \o
        (IF len <= 125 THEN <<len>> ELSE <<126>> \o BigEndian(len, 2)) \o payload
-----------------------------------------------------------------------------
(* The client.                                                             *)

Send(f) ==
    /\ stage \notin {"request", "reply"} /\ ~ended /\ flight = <<>> /\ Len(sent) < MaxFrames
    /\ sent' = Append(sent, f) /\ flight' = Bytes[f]
    /\ UNCHANGED <<stage, stream, ended, buf, header, key, accept, replies, whole, returned>>

\* Some of the bytes arrive, or all.
Arrive ==
    /\ \E n \in 1 .. Len(flight) :
         /\ n = Len(flight) \/ Len(Bytes[Last(sent)]) - Len(flight) + n \in Cuts
         /\ stream' = stream \o SubSeq(flight, 1, n)
         /\ flight' = SubSeq(flight, n + 1, Len(flight))
    /\ UNCHANGED <<stage, ended, buf, header, key, accept, replies, sent, whole, returned>>

\* The client closes or is lost, perhaps in the middle of a frame.
HangUp ==
    /\ ~ended /\ ended' = TRUE
    /\ flight' = <<>> /\ whole' = (flight = <<>>)
    /\ UNCHANGED <<stage, stream, buf, header, key, accept, replies, sent, returned>>
-----------------------------------------------------------------------------
(* The server.                                                             *)

\* websocket_handshake: the request has come and the key is answered.
Handshake ==
    /\ stage = "request"
    /\ \E d \in Digests :
         accept' = [text |-> base64_encode(d), digest |-> d, blocks |-> Blocks(Message(key))]
    /\ stage' = "reply"
    /\ UNCHANGED <<flight, stream, ended, buf, header, key, replies, sent, whole, returned>>

\* 101 is sent; the client may send frames.
Switch ==
    /\ stage = "reply"
    /\ stage' = "header" /\ key' = 0 /\ accept' = NoAccept
    /\ UNCHANGED <<flight, stream, ended, buf, header, replies, sent, whole, returned>>

\* The client left before its request was complete, or 101 cannot be sent.
HandshakeFailed ==
    /\ stage \in {"request", "reply"} /\ ended
    /\ stage' = "closed" /\ key' = 0 /\ accept' = NoAccept
    /\ UNCHANGED <<flight, stream, ended, buf, header, replies, sent, whole, returned>>

\* The len of the recv_exact the server is in.
Wanted ==
    CASE stage \in {"header", "length16"} -> 2
      [] stage = "length64" -> 8
      [] stage = "mask"     -> 4
      [] stage = "payload"  -> header.length
      [] OTHER              -> 0

Missing == Wanted - Len(buf)

\* recv() returns what has arrived, and that is not all.
RecvSome ==
    /\ stream # <<>> /\ Len(stream) < Missing
    /\ buf' = buf \o stream /\ stream' = <<>>
    /\ UNCHANGED <<stage, flight, ended, header, key, accept, replies, sent, whole, returned>>

\* recv_exact returns with all of them: the reader goes on from stage s.
Got == buf \o SubSeq(stream, 1, Missing)
Has(s) == stage = s /\ Missing <= Len(stream)

Taken == stream' = SubSeq(stream, Missing + 1, Len(stream)) /\ buf' = <<>>

\* websocket_frame_recv goes on to stage next with header h.
GoOn(next, h) ==
    /\ Taken
    /\ stage' = next /\ header' = h
    /\ UNCHANGED <<flight, ended, key, accept, replies, sent, whole, returned>>

\* It returns: a positive length and the text, 0, or -1.
Return(result) ==
    /\ returned' = Append(returned, result)
    /\ header' = NoHeader
    /\ stage' = IF result.kind = "end" THEN "closed" ELSE "header"
    /\ UNCHANGED <<flight, ended, key, accept, sent, whole>>

End == [kind |-> "end", text |-> <<>>]
Ignored == [kind |-> "ignored", text |-> <<>>]

\* payload_len is known.  recv_exact of no bytes returns 0, like an error.
PastLength(h) ==
    \/ h.length > BufferSize - 1 /\ Taken /\ Return(End) /\ UNCHANGED replies
    \/ /\ h.length <= BufferSize - 1
       /\ \/ h.masked /\ GoOn("mask", h)
          \/ ~h.masked /\ h.length > 0 /\ GoOn("payload", h)
          \/ ~h.masked /\ h.length = 0 /\ Taken /\ Return(End) /\ UNCHANGED replies

\* Mutant of PastHeader: a ping returns before its payload is read.
PastHeaderEarly(h) ==
    \/ h.opcode \in {8, 9} /\ Taken /\ Return(IF h.opcode = 8 THEN End ELSE Ignored)
                          /\ UNCHANGED replies
    \/ h.opcode \notin {8, 9} /\ h.length = 126 /\ GoOn("length16", h)
    \/ h.opcode \notin {8, 9} /\ h.length = 127 /\ GoOn("length64", h)
    \/ h.opcode \notin {8, 9} /\ h.length < 126 /\ PastLength(h)

\* A close returns at once, without an answer.
PastHeader(h) ==
    \/ h.opcode = 8 /\ Taken /\ Return(End) /\ UNCHANGED replies
    \/ h.opcode # 8 /\ h.length = 126 /\ GoOn("length16", h)
    \/ h.opcode # 8 /\ h.length = 127 /\ GoOn("length64", h)
    \/ h.opcode # 8 /\ h.length < 126 /\ PastLength(h)

RecvHeader ==
    /\ Has("header")
    /\ PastHeader([opcode |-> Got[1] % 16, masked |-> Got[2] >= 128,
                   length |-> Got[2] % 128, mask |-> <<>>])

RecvLength ==
    /\ Has("length16") \/ Has("length64")
    /\ PastLength([header EXCEPT !.length = Value(Got)])

RecvMask ==
    /\ Has("mask")
    /\ IF header.length = 0 THEN Taken /\ Return(End) /\ UNCHANGED replies
       ELSE GoOn("payload", [header EXCEPT !.mask = Got])

\* Mutant of Unmasked: the key starts over with every second byte.
UnmaskedWrong(bytes) ==
    IF header.masked THEN [k \in DOMAIN bytes |-> Xor(bytes[k], header.mask[((k - 1) % 2) + 1])]
    ELSE bytes

Unmasked(bytes) == IF header.masked THEN Masked(bytes, header.mask) ELSE bytes

RecvPayload ==
    /\ Has("payload") /\ Taken
    /\ \E bytes \in {Got} : \E text \in {Unmasked(bytes)} :
       \/ header.opcode = 1 /\ Return([kind |-> "text", text |-> text]) /\ UNCHANGED replies
       \/ /\ header.opcode = 9
          /\ Return(Ignored) /\ replies' = Append(replies, FrameSent(text, 10))
       \/ header.opcode \notin {1, 9} /\ Return(Ignored) /\ UNCHANGED replies

\* Mutant of RecvEnd: the end is noticed between two frames only.
RecvEndNever ==
    /\ stage = "header" /\ buf = <<>> /\ ended /\ stream = <<>>
    /\ Return(End) /\ UNCHANGED <<stream, buf, replies>>

\* The client has closed before the bytes that are wanted.
RecvEnd ==
    /\ stage \notin {"request", "reply", "closed"} /\ ended /\ Missing > Len(stream)
    /\ stream' = <<>> /\ buf' = <<>>
    /\ Return(End) /\ UNCHANGED replies

Reader == RecvSome \/ RecvHeader \/ RecvLength \/ RecvMask \/ RecvPayload \/ RecvEnd

Next ==
    \/ Handshake \/ Switch \/ HandshakeFailed \/ Reader
    \/ Arrive \/ HangUp \/ \E f \in Frames : Send(f)

Spec == Init /\ [][Next]_vars

\* A server thread that can go on is scheduled, and what was sent arrives;
\* the client need do nothing, not even send its request.
FairSpec == Spec /\ WF_vars(HandshakeFailed) /\ WF_vars(Reader) /\ WF_vars(Arrive)
-----------------------------------------------------------------------------
(* Properties.                                                             *)

\* What server_run is meant to make of a frame, and LocationServer assumes.
Meaning(f) ==
    IF f.opcode = 8 \/ f.length = 0 \/ f.length >= BufferSize THEN End
    ELSE IF f.opcode = 1 THEN [kind |-> "text", text |-> Payload(f)]
    ELSE Ignored

\* However TCP cuts the stream, every result is that of the frame it stands
\* for, and a frame that was cut off by the client is the end.
ResultsMatchFrames ==
    \A k \in DOMAIN returned :
      returned[k] = IF k > Len(sent) \/ (k = Len(sent) /\ ~whole) THEN End ELSE Meaning(sent[k])

\* Between two frames the reader stands exactly at the first byte of the next.
FrameBoundary ==
    stage = "header" /\ buf = <<>> /\ whole =>
      stream \o flight =
        FlattenSeq([k \in 1 .. Len(sent) - Len(returned) |-> Bytes[sent[Len(returned) + k]]])

\* A ping that is not the end is echoed, byte for byte, in a frame that a
\* client can read, and nothing else is: the answers come in the pings' order.
Answered == {k \in DOMAIN returned : k <= Len(sent) /\ sent[k].opcode = 9 /\ returned[k] = Ignored}
Pong(f) == [opcode |-> 10, masked |-> FALSE, length |-> f.length,
            form |-> IF f.length < 126 THEN 7 ELSE 16]
PongsEcho ==
    /\ Len(replies) = Cardinality(Answered)
    /\ \A k \in Answered :
         replies[Cardinality({l \in Answered : l <= k})] = Encoded(Pong(sent[k]))

\* Whatever has been sent is dealt with, or the connection closed; and a
\* client that has left is noticed.
FramesServed ==
    /\ Len(returned) < Len(sent) ~> Len(returned) >= Len(sent) \/ stage = "closed"
    /\ ended ~> stage = "closed"

\* The accept key of a browser, whose key has 24 bytes, rests on the blocks
\* that SHA-1 prescribes; so do those of keys up to 28 bytes, but for 20.
AcceptKeyRight ==
    stage = "reply" /\ key + GUIDLength <= BLOCK /\ key + GUIDLength # 56 =>
      /\ FlattenSeq(accept.blocks) = Padded(Message(key))
      /\ Encodes(accept.text, accept.digest)
=============================================================================
