---------------------------- MODULE HandshakeKey ----------------------------
(***************************************************************************)
(* What websocket_handshake computes from a Sec-WebSocket-Key: the blocks  *)
(* that sha1.c feeds to its compression function, and base64.c.            *)
(*                                                                         *)
(* A byte of the message is its position; what the compression function    *)
(* makes of a block is left out.  sha1_update may copy bytes from beyond   *)
(* its data: memory nobody has written, Unknown.                           *)
(***************************************************************************)
EXTENDS Integers, Sequences, SequencesExt

EndMark == 0        \* the byte 0x80 of the padding
Zero == -1
Unknown == -2
Count(k) == -10 - k \* byte k of the 64-bit count of bits

BLOCK == 64
GUIDLength == 36    \* strlen(WEBSOCKET_GUID)

Lesser(m, n) == IF m < n THEN m ELSE n

\* The string that is hashed, as snprintf leaves it in concatenated_key[256].
Message(keyLength) == [k \in 1 .. Lesser(keyLength + GUIDLength, 255) |-> k]
-----------------------------------------------------------------------------
(* sha1.c                                                                  *)

\* SHA1_CTX; done is the blocks that sha1_transform has been given.
sha1_init == [block |-> [k \in 1 .. BLOCK |-> Unknown], offset |-> 0, done |-> <<>>]

\* memcpy of the n bytes at position at of data (0 is the first) to the block.
Copied(ctx, data, at, n) ==
    [k \in 1 .. BLOCK |->
       IF k \notin ctx.offset + 1 .. ctx.offset + n THEN ctx.block[k]
       ELSE IF at + k - ctx.offset \in DOMAIN data THEN data[at + k - ctx.offset]
       ELSE Unknown]

\* One iteration of the loop in sha1_update, if there is one more; s.at is what
\* of data is behind it.
Round(s, data, len) ==
    LET n     == Lesser(BLOCK - s.ctx.offset, len)
        block == Copied(s.ctx, data, s.at, n)
        full  == s.ctx.offset + n = BLOCK
    IN  IF s.at >= len THEN s
        ELSE [at  |-> s.at + n,
              ctx |-> [block  |-> block,
                       offset |-> IF full THEN 0 ELSE s.ctx.offset + n,
                       done   |-> IF full THEN Append(s.ctx.done, block) ELSE s.ctx.done]]

\* The loop; no call of it needs more rounds than there are bytes.
sha1_update(ctx, data, len) ==
    LET rounds[k \in 0 .. len] ==
          IF k = 0 THEN [at |-> 0, ctx |-> ctx] ELSE Round(rounds[k - 1], data, len)
    IN  rounds[len].ctx

\* Mutant of PadLength: the padding ends with the first block.
PadLengthShort(offset) == IF offset < 56 THEN 56 - offset ELSE BLOCK - offset

PadLength(offset) == IF offset < 56 THEN 56 - offset ELSE 120 - offset

\* sha1_final: the count of bits is written over the end of the block, and
\* that block is the last.
Blocks(message) ==
    LET first   == sha1_update(sha1_init, message, Len(message))
        len     == PadLength(first.offset)
        padding == [k \in 1 .. len |-> IF k = 1 THEN EndMark ELSE Zero]
        ctx     == sha1_update(first, padding, len)
    IN  Append(ctx.done, [k \in 1 .. BLOCK |-> IF k > 56 THEN Count(k - 57) ELSE ctx.block[k]])

\* Reference (FIPS 180-4, 5.1.1): the message, 0x80, as few zeros as make
\* whole blocks with the count.
Padded(message) ==
    LET zeros == CHOOSE n \in 0 .. BLOCK - 1 : (Len(message) + 1 + n + 8) % BLOCK = 0
    IN  message \o <<EndMark>> \o [k \in 1 .. zeros |-> Zero] \o [k \in 1 .. 8 |-> Count(k - 1)]
-----------------------------------------------------------------------------
(* base64.c, on positions in base64_table; Pad is "=".                     *)

Pad == 64

\* Three bytes make four characters.
Quad(a, b, c) ==
    <<a \div 4, (a % 4) * 16 + b \div 16, (b % 16) * 4 + c \div 64, c % 64>>

\* What is left after the last three.
Tail64(rest) ==
    CASE rest = <<>>   -> <<>>
      [] Len(rest) = 1 -> SubSeq(Quad(rest[1], 0, 0), 1, 2) \o <<Pad, Pad>>
      [] Len(rest) = 2 -> SubSeq(Quad(rest[1], rest[2], 0), 1, 3) \o <<Pad>>

base64_encode(bytes) ==
    LET quads == Len(bytes) \div 3
    IN  FlattenSeq([q \in 1 .. quads |->
                      Quad(bytes[3 * q - 2], bytes[3 * q - 1], bytes[3 * q])])
        \o Tail64(SubSeq(bytes, 3 * quads + 1, Len(bytes)))

\* The 24 bits of three bytes, and of four characters.
Three(a, b, c) == (a * 256 + b) * 256 + c
Four(a, b, c, d) == ((a * 64 + b) * 64 + c) * 64 + d

\* Reference (RFC 4648, 4): the bits of three bytes are those of four
\* characters; there are zeros for bytes that are missing, and Pad for
\* characters that would only have such zeros.
Encodes(text, bytes) ==
    LET groups     == (Len(bytes) + 2) \div 3
        byte(k)    == IF k <= Len(bytes) THEN bytes[k] ELSE 0
        sextet(p)  == IF text[p] = Pad THEN 0 ELSE text[p]
        characters == (8 * Len(bytes) + 5) \div 6
    IN  /\ Len(text) = 4 * groups
        /\ \A p \in DOMAIN text : text[p] \in 0 .. Pad /\ (text[p] = Pad <=> p > characters)
        /\ \A q \in 0 .. groups - 1 :
             Three(byte(3 * q + 1), byte(3 * q + 2), byte(3 * q + 3))
               = Four(sextet(4 * q + 1), sextet(4 * q + 2), sextet(4 * q + 3), sextet(4 * q + 4))
=============================================================================
