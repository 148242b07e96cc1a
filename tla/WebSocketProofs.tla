--------------------------- MODULE WebSocketProofs ---------------------------
(***************************************************************************)
(* Theorems about WebSocket, for every set of frames, every buffer of at   *)
(* most 65536 bytes and every way in which the stream is cut: the reader's *)
(* results, its place between frames and its answers to pings are right;   *)
(* and so is the answer to every key of a length browsers use.             *)
(*                                                                         *)
(* The invariant says where the reader is in all that was sent: what is    *)
(* unread stands there, and header has what was read of the frame in hand. *)
(***************************************************************************)
EXTENDS WebSocket, SequenceLemmas, FiniteSetTheorems

\* websocket_frame_recv is in one of its calls of recv_exact.
Reading == stage \in {"header", "length16", "length64", "mask", "payload"}
Result == [kind : {"end", "ignored", "text"}, text : Seq(Byte)]
Header == [opcode : Nat, masked : BOOLEAN, length : Nat, mask : Seq(Byte)]

\* The types of the variables.
TypeOK ==
    /\ stage \in {"request", "reply", "header", "length16", "length64", "mask", "payload", "closed"}
    /\ flight \in Seq(Byte) /\ stream \in Seq(Byte) /\ buf \in Seq(Byte)
    /\ ended \in BOOLEAN /\ whole \in BOOLEAN
    /\ header \in Header
    /\ replies \in Seq(Seq(Byte)) /\ sent \in Seq(Frames) /\ returned \in Seq(Result)

\* The frame in hand: the first that has no result yet.
Current == Len(returned) + 1

\* How long the length and the mask of a frame are.
FieldLength(f) == CASE f.form = 7 -> 0 [] f.form = 16 -> 2 [] f.form = 64 -> 8
MaskLength(f) == IF f.masked THEN 4 ELSE 0

\* How much of f the reader has behind it in this stage.
Behind(f) ==
    CASE stage = "header"                   -> 0
      [] stage \in {"length16", "length64"} -> 2
      [] stage = "mask"                     -> 2 + FieldLength(f)
      [] stage = "payload"                  -> 2 + FieldLength(f) + MaskLength(f)

\* The stage goes with the frame in hand, and header has what was read of it.
HeaderOf(f) ==
    /\ f.opcode # 8 /\ header.opcode = f.opcode /\ header.masked = f.masked
    /\ stage = "length16" => f.form = 16
    /\ stage = "length64" => f.form = 64
    /\ stage \in {"mask", "payload"} => header.length = f.length /\ f.length < BufferSize
    /\ stage = "mask" => f.masked
    /\ stage = "payload" => f.length > 0 /\ (f.masked => header.mask = MaskingKey)

InHand == Reading /\ stage # "header" => Current <= Len(sent) /\ HeaderOf(sent[Current])

\* What recv() has left, or given to a recv_exact that is not complete.
Unread == buf \o stream \o flight

\* all is everything that was sent, frame k from behind at[k]; what is unread
\* stands in it from where the reader is, and only of the last frame was any lost.
Sending == [k \in 1 .. Len(sent) |-> Bytes[sent[k]]]
Position(at) == at[Current] + (IF stage = "header" THEN 0 ELSE Behind(sent[Current]))
Flow(all, at) ==
    /\ all \in Seq(Byte) /\ Concatenates(all, at, Sending)
    /\ Reading =>
         /\ Stands(Unread, all, Position(at))
         /\ whole => Position(at) + Len(Unread) = Len(all)
         /\ ~whole => /\ flight = <<>> /\ sent # <<>> /\ Position(at) + Len(Unread) < Len(all)
                      /\ at[Len(sent)] <= Position(at) + Len(Unread)

\* What the stages, the end of the stream and the histories have to do with
\* one another.
Told ==
    /\ stage \in {"request", "reply"} =>
         flight = <<>> /\ stream = <<>> /\ buf = <<>> /\ sent = <<>> /\ returned = <<>> /\ whole
    /\ ended => flight = <<>>
    /\ ~ended => whole
    /\ flight # <<>> => sent # <<>> /\ Len(flight) <= Len(Bytes[sent[Len(sent)]])
    /\ Reading => Len(buf) <= Wanted
    /\ Len(returned) <= Len(sent) \/ (Len(returned) = Len(sent) + 1 /\ stage = "closed" /\ ended)
    /\ stage = "closed" /\ returned # <<>> => returned[Len(returned)] = End

\* The inductive invariant.
IInv ==
    /\ TypeOK /\ InHand /\ Told /\ ResultsMatchFrames /\ PongsEcho
    /\ \E all, at : Flow(all, at)

-----------------------------------------------------------------------------
(* Bytes: bits, masks and lengths.                                         *)

\* The numbers that SizesAssumption bounds.
LEMMA TooLargeIs == TooLarge \in Nat /\ TooLarge = 65536
  BY DEF TooLarge

LEMMA BufferBound == BufferSize \in Nat /\ BufferSize > 0 /\ BufferSize <= TooLarge
  <1> PICK t \in Nat : t = TooLarge
    BY TooLargeIs
  <1>1. BufferSize \in 1 .. t
    BY SizesAssumption
  <1>2. BufferSize \in Nat /\ BufferSize > 0 /\ BufferSize <= t
    BY <1>1
  <1> QED BY <1>2

\* A byte is its bits.
BitAt(a, bit) == (a \div bit) % 2

\* Its bits are those that were put together.
LEMMA BitsOfByte ==
    ASSUME NEW a \in Byte
    PROVE  /\ \A bit \in {1, 2, 4, 8, 16, 32, 64, 128} : BitAt(a, bit) \in {0, 1}
           /\ a = BitAt(a, 1) + 2 * BitAt(a, 2) + 4 * BitAt(a, 4) + 8 * BitAt(a, 8)
                  + 16 * BitAt(a, 16) + 32 * BitAt(a, 32) + 64 * BitAt(a, 64) + 128 * BitAt(a, 128)
  BY DEF Byte, BitAt

\* A byte is put together from its bits.
LEMMA ByteOfBits ==
    ASSUME NEW b1 \in {0, 1}, NEW b2 \in {0, 1}, NEW b3 \in {0, 1}, NEW b4 \in {0, 1},
           NEW b5 \in {0, 1}, NEW b6 \in {0, 1}, NEW b7 \in {0, 1}, NEW b8 \in {0, 1},
           NEW x, x = b1 + 2 * b2 + 4 * b3 + 8 * b4 + 16 * b5 + 32 * b6 + 64 * b7 + 128 * b8
    PROVE  /\ x \in Byte
           /\ BitAt(x, 1) = b1 /\ BitAt(x, 2) = b2 /\ BitAt(x, 4) = b3 /\ BitAt(x, 8) = b4
           /\ BitAt(x, 16) = b5 /\ BitAt(x, 32) = b6 /\ BitAt(x, 64) = b7 /\ BitAt(x, 128) = b8
  BY DEF Byte, BitAt

\* The bits of an exclusive or.
LEMMA XorBits ==
    ASSUME NEW a \in Byte, NEW b \in Byte
    PROVE  /\ Xor(a, b) \in Byte
           /\ \A bit \in {1, 2, 4, 8, 16, 32, 64, 128} :
                BitAt(Xor(a, b), bit) = IF BitAt(a, bit) = BitAt(b, bit) THEN 0 ELSE 1
  <1> DEFINE d(bit) == IF BitAt(a, bit) = BitAt(b, bit) THEN 0 ELSE 1
  <1>1. /\ d(1) \in {0, 1} /\ d(2) \in {0, 1} /\ d(4) \in {0, 1} /\ d(8) \in {0, 1}
        /\ d(16) \in {0, 1} /\ d(32) \in {0, 1} /\ d(64) \in {0, 1} /\ d(128) \in {0, 1}
    OBVIOUS
  <1>2. Xor(a, b) = d(1) + 2 * d(2) + 4 * d(4) + 8 * d(8) + 16 * d(16) + 32 * d(32) + 64 * d(64)
                    + 128 * d(128)
    BY DEF Xor, XorBit, BitAt
  <1> HIDE DEF d
  <1>3. /\ Xor(a, b) \in Byte
        /\ BitAt(Xor(a, b), 1) = d(1) /\ BitAt(Xor(a, b), 2) = d(2) /\ BitAt(Xor(a, b), 4) = d(4)
        /\ BitAt(Xor(a, b), 8) = d(8) /\ BitAt(Xor(a, b), 16) = d(16)
        /\ BitAt(Xor(a, b), 32) = d(32) /\ BitAt(Xor(a, b), 64) = d(64)
        /\ BitAt(Xor(a, b), 128) = d(128)
    BY <1>1, <1>2, ByteOfBits
  <1> QED BY <1>3 DEF d

\* Masking a byte twice leaves it as it was.
LEMMA XorTwice ==
    ASSUME NEW a \in Byte, NEW b \in Byte
    PROVE  Xor(a, b) \in Byte /\ Xor(Xor(a, b), b) = a
  <1> DEFINE x == Xor(a, b)
             y == Xor(x, b)
             B == {1, 2, 4, 8, 16, 32, 64, 128}
  <1>1. x \in Byte /\ \A bit \in B : BitAt(x, bit) = IF BitAt(a, bit) = BitAt(b, bit) THEN 0 ELSE 1
    BY XorBits
  <1> HIDE DEF x
  <1>2. y \in Byte /\ \A bit \in B : BitAt(y, bit) = IF BitAt(x, bit) = BitAt(b, bit) THEN 0 ELSE 1
    BY <1>1, XorBits
  <1> HIDE DEF y
  <1>3. \A bit \in B : BitAt(a, bit) \in {0, 1} /\ BitAt(b, bit) \in {0, 1}
    BY BitsOfByte
  <1>4. \A bit \in B : BitAt(y, bit) = BitAt(a, bit)
    BY <1>1, <1>2, <1>3
  <1>5. /\ BitAt(y, 1) = BitAt(a, 1) /\ BitAt(y, 2) = BitAt(a, 2) /\ BitAt(y, 4) = BitAt(a, 4)
        /\ BitAt(y, 8) = BitAt(a, 8) /\ BitAt(y, 16) = BitAt(a, 16) /\ BitAt(y, 32) = BitAt(a, 32)
        /\ BitAt(y, 64) = BitAt(a, 64) /\ BitAt(y, 128) = BitAt(a, 128)
    BY <1>4
  <1>6. y = a
    BY <1>2, <1>5, BitsOfByte
  <1> QED BY <1>1, <1>6 DEF x, y

\* The same for a payload.
LEMMA MaskedTwice ==
    ASSUME NEW p \in Seq(Byte), NEW m \in Seq(Byte), Len(m) = 4
    PROVE  /\ Masked(p, m) \in Seq(Byte) /\ Len(Masked(p, m)) = Len(p)
           /\ Masked(Masked(p, m), m) = p
  <1> PICK n \in Nat : n = Len(p)
    OBVIOUS
  <1>1. p \in [1 .. n -> Byte] /\ \A k \in 1 .. n : m[((k - 1) % 4) + 1] \in Byte /\ p[k] \in Byte
    <2>1. \A k \in 1 .. n : ((k - 1) % 4) + 1 \in 1 .. 4
      OBVIOUS
    <2>2. m \in [1 .. 4 -> Byte]
      BY LenProperties
    <2>3. p \in [1 .. n -> Byte]
      BY LenProperties
    <2>4. (\A k \in 1 .. n : p[k] \in Byte) /\ \A k \in 1 .. 4 : m[k] \in Byte
      BY <2>2, <2>3
    <2> QED BY <2>1, <2>2, <2>3, <2>4, Zenon
  <1> DEFINE q == Masked(p, m)
  <1>2. q = [k \in 1 .. n |-> Xor(p[k], m[((k - 1) % 4) + 1])]
    BY <1>1 DEF Masked
  <1>3. q \in [1 .. n -> Byte] /\ \A k \in 1 .. n : q[k] = Xor(p[k], m[((k - 1) % 4) + 1])
    BY <1>1, <1>2, XorTwice
  <1> HIDE DEF q
  <1>4. Masked(q, m) = [k \in 1 .. n |-> Xor(q[k], m[((k - 1) % 4) + 1])]
    BY <1>3 DEF Masked
  <1>5. ASSUME NEW k \in 1 .. n PROVE Xor(q[k], m[((k - 1) % 4) + 1]) = p[k]
    <2> PICK a \in Byte, b \in Byte : a = p[k] /\ b = m[((k - 1) % 4) + 1]
      BY <1>1
    <2>1. q[k] = Xor(a, b) /\ Xor(Xor(a, b), b) = a
      BY <1>3, XorTwice
    <2> QED BY <2>1
  <1>6. Masked(q, m) = p
    BY <1>1, <1>4, <1>5
  <1>7. q \in Seq(Byte) /\ Len(q) = n
    BY <1>3
  <1> QED BY <1>6, <1>7 DEF q

\* A length is read as it was written, or is too large either way.
LEMMA LengthRead ==
    ASSUME NEW n \in Nat
    PROVE  /\ BigEndian(n, 2) \in Seq(Byte) /\ Len(BigEndian(n, 2)) = 2
           /\ BigEndian(n, 8) \in Seq(Byte) /\ Len(BigEndian(n, 8)) = 8
           /\ n < TooLarge => Value(BigEndian(n, 2)) = n
           /\ Value(BigEndian(n, 8)) = IF n < TooLarge THEN n ELSE TooLarge
  <1> DEFINE u == BigEndian(n, 2)
             v == BigEndian(n, 8)
  <1>1. n % 256 \in Byte /\ (n \div 256) % 256 \in Byte /\ n \div 256 \in Nat
    BY DEF Byte
  <1>2. u \in Seq(Byte) /\ Len(u) = 2 /\ u[1] = (n \div 256) % 256 /\ u[2] = n % 256
    BY <1>1 DEF BigEndian, Byte
  <1>3. /\ v \in Seq(Byte) /\ Len(v) = 8 /\ v[7] = (n \div 256) % 256 /\ v[8] = n % 256
        /\ \A k \in 1 .. 6 : v[k] = IF n >= 65536 THEN 1 ELSE 0
    BY <1>1 DEF BigEndian, Byte
  <1> HIDE DEF u, v
  <1>5. n < TooLarge => ((n \div 256) % 256) * 256 + (n % 256) = n
    BY DEF TooLarge
  <1>6. n < TooLarge => Value(u) = n
    BY <1>2, <1>5 DEF Value
  <1>7. Value(v) = IF n < TooLarge THEN n ELSE TooLarge
    BY <1>3, <1>5 DEF Value, TooLarge
  <1> QED BY <1>2, <1>3, <1>6, <1>7 DEF u, v

-----------------------------------------------------------------------------
(* The bytes of a frame.                                                   *)

\* The parts of a frame.
Opening(f) == <<128 + f.opcode, ShortLength(f) + IF f.masked THEN 128 ELSE 0>>
Body(f) == IF f.masked THEN Masked(Payload(f), MaskingKey) ELSE Payload(f)

\* What FramesAssumption says of a frame.
LEMMA FrameType ==
    ASSUME NEW f \in Frames
    PROVE  /\ f.opcode \in 0 .. 15 /\ f.masked \in BOOLEAN /\ f.form \in {7, 16, 64} /\ f.length \in Nat
           /\ f.form = 7 => f.length < 126
           /\ f.form = 16 => f.length < TooLarge
  BY FramesAssumption DEF ClientFrame, Fits, TooLarge

\* The parts are bytes, and as long as the fields.
LEMMA PartTypes ==
    ASSUME NEW f, f.opcode \in 0 .. 15, f.masked \in BOOLEAN, f.form \in {7, 16, 64}, f.length \in Nat, Fits(f)
    PROVE  /\ Opening(f) \in Seq(Byte) /\ Len(Opening(f)) = 2
           /\ LongLength(f) \in Seq(Byte) /\ Len(LongLength(f)) = FieldLength(f)
           /\ FieldLength(f) \in Nat /\ MaskLength(f) \in Nat
           /\ MaskingKey \in Seq(Byte) /\ Len(MaskingKey) = 4
           /\ Payload(f) \in Seq(Byte) /\ Len(Payload(f)) = f.length
           /\ Body(f) \in Seq(Byte) /\ Len(Body(f)) = f.length
           /\ f.masked => Masked(Body(f), MaskingKey) = Payload(f)
  <1>1. Opening(f) \in Seq(Byte) /\ Len(Opening(f)) = 2
    BY DEF Opening, ShortLength, Byte, Fits
  <1>2. LongLength(f) \in Seq(Byte) /\ Len(LongLength(f)) = FieldLength(f)
    <2>2. /\ BigEndian(f.length, 2) \in Seq(Byte) /\ Len(BigEndian(f.length, 2)) = 2
          /\ BigEndian(f.length, 8) \in Seq(Byte) /\ Len(BigEndian(f.length, 8)) = 8
      BY LengthRead
    <2>3. <<>> \in Seq(Byte) /\ Len(<<>>) = 0
      OBVIOUS
    <2> HIDE DEF BigEndian
    <2>4. CASE f.form = 7
      BY <2>3, <2>4 DEF LongLength, FieldLength
    <2>5. CASE f.form = 16
      BY <2>2, <2>5 DEF LongLength, FieldLength
    <2>6. CASE f.form = 64
      BY <2>2, <2>6 DEF LongLength, FieldLength
    <2> QED BY <2>4, <2>5, <2>6
  <1>3. MaskingKey \in Seq(Byte) /\ Len(MaskingKey) = 4
    BY DEF MaskingKey, Byte
  <1>4. Payload(f) \in Seq(Byte) /\ Len(Payload(f)) = f.length
    <2>1. Payload(f) \in [1 .. f.length -> Byte]
      BY DEF Payload, Byte
    <2> QED BY <2>1
  <1>5. FieldLength(f) \in Nat /\ MaskLength(f) \in Nat
    BY DEF FieldLength, MaskLength
  <1>6. /\ Masked(Payload(f), MaskingKey) \in Seq(Byte)
        /\ Len(Masked(Payload(f), MaskingKey)) = Len(Payload(f))
        /\ Masked(Masked(Payload(f), MaskingKey), MaskingKey) = Payload(f)
    BY <1>3, <1>4, MaskedTwice
  <1> QED BY <1>1, <1>2, <1>3, <1>4, <1>5, <1>6 DEF Body

\* Where the parts are.
Parts(f, w) ==
    /\ w \in Seq(Byte) /\ 2 + FieldLength(f) <= Len(w)
    /\ Stands(Opening(f), w, 0) /\ Stands(LongLength(f), w, 2)
    /\ f.length < BufferSize =>
         /\ Len(w) = 2 + FieldLength(f) + MaskLength(f) + f.length
         /\ f.masked => Stands(MaskingKey, w, 2 + FieldLength(f))
         /\ Stands(Body(f), w, 2 + FieldLength(f) + MaskLength(f))

\* The parts of a frame are in its bytes.
LEMMA EncodedParts ==
    ASSUME NEW f \in Frames
    PROVE  Parts(f, Encoded(f))
  <1> DEFINE mk == MaskingKey
             o == Opening(f)
             l == LongLength(f)
             b == Body(f)
             rest == IF f.length >= BufferSize THEN <<>>
                     ELSE IF f.masked THEN mk \o b ELSE b
             w == (o \o l) \o rest
             m == FieldLength(f)
  <1>1. /\ o \in Seq(Byte) /\ Len(o) = 2 /\ l \in Seq(Byte) /\ Len(l) = m /\ m \in Nat
        /\ mk \in Seq(Byte) /\ Len(mk) = 4 /\ b \in Seq(Byte) /\ Len(b) = f.length
        /\ f.length \in Nat /\ BufferSize \in Nat /\ f.masked \in BOOLEAN
    BY FrameType, PartTypes, SizesAssumption, FramesAssumption
  <1>2. Encoded(f) = w
    BY DEF Encoded, Opening, Body
  <1> HIDE DEF o, l, b, mk, m
  <1>3. /\ o \o l \in Seq(Byte) /\ Len(o \o l) = 2 + m
        /\ Stands(o, o \o l, 0) /\ Stands(l, o \o l, 2)
    <2>1. /\ o \o l \in Seq(Byte) /\ Len(o \o l) = Len(o) + Len(l)
          /\ Stands(o, o \o l, 0) /\ Stands(l, o \o l, Len(o))
      BY <1>1, StandsJoined, Zenon
    <2> QED BY <1>1, <2>1
  <1>4. /\ mk \o b \in Seq(Byte) /\ Len(mk \o b) = 4 + f.length
        /\ Stands(mk, mk \o b, 0) /\ Stands(b, mk \o b, 4)
    <2>1. /\ mk \o b \in Seq(Byte) /\ Len(mk \o b) = Len(mk) + Len(b)
          /\ Stands(mk, mk \o b, 0) /\ Stands(b, mk \o b, Len(mk))
      BY <1>1, StandsJoined, Zenon
    <2> QED BY <1>1, <2>1
  <1>5. /\ rest \in Seq(Byte) /\ Len(rest) \in Nat
        /\ f.length < BufferSize => IF f.masked THEN rest = mk \o b ELSE rest = b
    <2>1. <<>> \in Seq(Byte)
      OBVIOUS
    <2>2. rest \in Seq(Byte)
      BY <1>1, <1>4, <2>1
    <2> QED BY <1>1, <2>2
  <1> DEFINE h == o \o l
  <1> HIDE DEF rest, h
  <1>6. h \in Seq(Byte)
    BY <1>3 DEF h
  <1>7. /\ w = h \o rest /\ w \in Seq(Byte) /\ Len(w) = Len(h) + Len(rest)
        /\ Stands(h, w, 0) /\ Stands(rest, w, Len(h))
    BY <1>5, <1>6, StandsJoined, Zenon DEF h
  <1>8. Len(h) = 2 + m /\ Stands(o, h, 0) /\ Stands(l, h, 2)
    BY <1>3 DEF h
  <1> HIDE DEF w
  <1>9. Stands(o, w, 0) /\ Stands(l, w, 2) /\ 2 + m <= Len(w)
    <2>1. Stands(o, w, 0 + 0) /\ Stands(l, w, 0 + 2)
      BY <1>1, <1>6, <1>7, <1>8, 0 \in Nat, 2 \in Nat, StandsWithin, Zenon
    <2> QED BY <1>1, <1>5, <1>7, <1>8, <2>1
  <1>10. ASSUME f.length < BufferSize
         PROVE  /\ Len(w) = 2 + m + MaskLength(f) + f.length
                /\ f.masked => Stands(mk, w, 2 + m)
                /\ Stands(b, w, 2 + m + MaskLength(f))
    <2>1. CASE f.masked
      <3>1. MaskLength(f) = 4 /\ rest = mk \o b
        BY <1>5, <1>10, <2>1 DEF MaskLength
      <3>2. Stands(mk, w, (2 + m) + 0) /\ Stands(b, w, (2 + m) + 4)
        <4>1. Stands(rest, w, 2 + m) /\ Stands(mk, rest, 0) /\ Stands(b, rest, 4) /\ 2 + m \in Nat
          BY <1>1, <1>4, <1>7, <1>8, <3>1
        <4> QED BY <1>1, <1>5, <1>7, <4>1, 0 \in Nat, 4 \in Nat, StandsWithin, Zenon
      <3>3. (2 + m) + 0 = 2 + m /\ Len(w) = 2 + m + 4 + f.length
        <4>1. Len(w) = Len(h) + Len(rest) /\ Len(h) = 2 + m /\ Len(rest) = 4 + f.length
          BY <1>4, <1>7, <1>8, <3>1, Zenon
        <4>2. m \in Nat /\ f.length \in Nat
          BY <1>1
        <4> HIDE DEF h, w, rest
        <4> QED BY <4>1, <4>2
      <3> QED BY <2>1, <3>1, <3>2, <3>3
    <2>2. CASE ~f.masked
      <3>1. MaskLength(f) = 0 /\ rest = b
        BY <1>5, <1>10, <2>2 DEF MaskLength
      <3>2. (2 + m) + 0 = 2 + m /\ Len(w) = 2 + m + f.length
        <4>1. Len(w) = Len(h) + Len(rest) /\ Len(h) = 2 + m /\ Len(rest) = f.length
          BY <1>1, <1>7, <1>8, <3>1, Zenon
        <4>2. m \in Nat /\ f.length \in Nat
          BY <1>1
        <4> QED BY <4>1, <4>2
      <3> QED BY <1>1, <1>7, <1>8, <2>2, <3>1, <3>2
    <2> QED BY <1>1, <2>1, <2>2
  <1>11. Parts(f, w)
    BY <1>7, <1>9, <1>10 DEF Parts, o, l, b, mk, m
  <1> QED BY <1>2, <1>11

-----------------------------------------------------------------------------
(* The place of the reader.                                                *)

\* The list of what was sent, frame by frame.
LEMMA SendingIs ==
    ASSUME sent \in Seq(Frames)
    PROVE  /\ Sending \in Lists(Byte) /\ Len(Sending) = Len(sent) /\ Len(sent) \in Nat
           /\ \A k \in 1 .. Len(sent) : sent[k] \in Frames /\ Sending[k] = Encoded(sent[k])
                                        /\ Encoded(sent[k]) \in Seq(Byte)
  <1> PICK n \in Nat : n = Len(sent)
    OBVIOUS
  <1>1. ASSUME NEW k \in 1 .. n PROVE sent[k] \in Frames
    BY ElementOfSeq
  <1>2. ASSUME NEW k \in 1 .. n
        PROVE  Bytes[sent[k]] = Encoded(sent[k]) /\ Encoded(sent[k]) \in Seq(Byte)
    <2> PICK f \in Frames : f = sent[k]
      BY <1>1
    <2>1. Encoded(f) \in Seq(Byte)
      BY EncodedParts DEF Parts
    <2>2. Bytes[f] = Encoded(f)
      BY DEF Bytes
    <2> QED BY <2>1, <2>2
  <1>3. Sending = [k \in 1 .. n |-> Bytes[sent[k]]]
    BY DEF Sending
  <1>4. \A k \in 1 .. n : Bytes[sent[k]] \in Seq(Byte)
    BY <1>2
  <1>5. Len(Sending) = n /\ Sending \in Seq(Seq(Byte))
    BY <1>3, <1>4
  <1>6. \A k \in 1 .. n : Sending[k] = Bytes[sent[k]]
    BY <1>3
  <1> QED BY <1>1, <1>2, <1>5, <1>6, Zenon DEF Lists

\* What the reader wants is a field of the frame in hand.
Field(f) ==
    CASE stage = "header"                   -> Opening(f)
      [] stage \in {"length16", "length64"} -> LongLength(f)
      [] stage = "mask"                     -> MaskingKey
      [] stage = "payload"                  -> Body(f)

\* That field stands in the frame where the reader is.
LEMMA FieldWanted ==
    ASSUME TypeOK, Reading, NEW f \in Frames, stage # "header" => HeaderOf(f)
    PROVE  /\ Behind(f) \in Nat /\ Wanted \in Nat \ {0}
           /\ Field(f) \in Seq(Byte) /\ Len(Field(f)) = Wanted
           /\ Stands(Field(f), Encoded(f), Behind(f))
           /\ stage = "header" => Behind(f) = 0
  <1> PICK w \in Seq(Byte) : w = Encoded(f)
    BY EncodedParts DEF Parts
  <1>1. Parts(f, w)
    BY EncodedParts
  <1>2. /\ Opening(f) \in Seq(Byte) /\ Len(Opening(f)) = 2
        /\ LongLength(f) \in Seq(Byte) /\ Len(LongLength(f)) = FieldLength(f)
        /\ FieldLength(f) \in Nat /\ MaskLength(f) \in Nat
        /\ MaskingKey \in Seq(Byte) /\ Len(MaskingKey) = 4
        /\ Body(f) \in Seq(Byte) /\ Len(Body(f)) = f.length /\ f.length \in Nat
    BY FrameType, PartTypes, FramesAssumption
  <1>3. CASE stage = "header"
    BY <1>1, <1>2, <1>3 DEF Parts, Behind, Wanted, Field
  <1>4. CASE stage \in {"length16", "length64"}
    <2>1. FieldLength(f) = Wanted /\ Wanted \in Nat \ {0}
      BY <1>4 DEF HeaderOf, FieldLength, Wanted
    <2> QED BY <1>1, <1>2, <1>4, <2>1 DEF Parts, Behind, Field
  <1>5. CASE stage = "mask"
    BY <1>1, <1>2, <1>5 DEF Parts, Behind, Wanted, Field, HeaderOf
  <1>6. CASE stage = "payload"
    BY <1>1, <1>2, <1>6 DEF Parts, Behind, Wanted, Field, HeaderOf
  <1> QED BY <1>3, <1>4, <1>5, <1>6 DEF Reading

\* Frame k is where at says, and the later ones are behind it.
LEMMA FramePlace ==
    ASSUME sent \in Seq(Frames), NEW all, NEW at, Flow(all, at), NEW k \in 1 .. Len(sent)
    PROVE  /\ at[k] \in Nat /\ at[k + 1] \in Nat /\ at[Len(sent)] \in Nat /\ Len(all) \in Nat
           /\ at[k + 1] = at[k] + Len(Encoded(sent[k]))
           /\ at[k + 1] <= Len(all) /\ at[Len(sent) + 1] = Len(all)
           /\ k < Len(sent) => at[k + 1] <= at[Len(sent)]
           /\ Stands(Encoded(sent[k]), all, at[k])
  <1> PICK n \in Nat : n = Len(sent)
    OBVIOUS
  <1>1. /\ Sending \in Lists(Byte) /\ Len(Sending) = n
        /\ sent[k] \in Frames /\ Sending[k] = Encoded(sent[k]) /\ Encoded(sent[k]) \in Seq(Byte)
    BY SendingIs
  <1>2. /\ all \in Seq(Byte) /\ Layout(at, Sending) /\ Len(all) = at[n + 1]
        /\ \A j \in 1 .. n : \A b \in 1 .. Len(Sending[j]) : all[at[j] + b] = Sending[j][b]
    BY <1>1 DEF Flow, Concatenates
  <1>3. /\ k \in 1 .. n + 1 /\ k + 1 \in k .. n + 1 /\ k + 1 \in 1 .. n + 1
        /\ n + 1 \in k + 1 .. n + 1 /\ n \in 1 .. n + 1 /\ (k < n => n \in k + 1 .. n + 1)
        /\ n \in n .. n + 1
    <2>1. k \in Nat /\ 1 <= k /\ k <= n
      OBVIOUS
    <2>2. k \in 1 .. n + 1 /\ k + 1 \in k .. n + 1 /\ k + 1 \in 1 .. n + 1
      BY <2>1
    <2>3. n + 1 \in k + 1 .. n + 1 /\ n \in 1 .. n + 1 /\ n \in n .. n + 1
      BY <2>1
    <2>4. k < n => n \in k + 1 .. n + 1
      BY <2>1
    <2> QED BY <2>2, <2>3, <2>4
  <1>4. at[k] \in Nat /\ at[k + 1] \in Nat /\ at[n + 1] \in Nat /\ at[n] \in Nat
    <2>1. at \in [1 .. n + 1 -> Nat]
      BY <1>1, <1>2 DEF Layout
    <2>2. n + 1 \in 1 .. n + 1
      OBVIOUS
    <2> QED BY <1>3, <2>1, <2>2, Zenon
  <1>5. at[k + 1] <= at[n + 1]
    BY <1>1, <1>2, <1>3, LayoutGrows, Zenon
  <1>6. k < n => at[k + 1] <= at[n]
    BY <1>1, <1>2, <1>3, LayoutGrows, Zenon
  <1>7. at[k + 1] = at[k] + Len(Sending[k])
    BY <1>1, <1>2 DEF Layout
  <1>8. Stands(Encoded(sent[k]), all, at[k])
    <2> PICK w \in Seq(Byte) : w = Encoded(sent[k])
      BY <1>1
    <2>1. \A b \in 1 .. Len(w) : w[b] = all[at[k] + b]
      BY <1>1, <1>2
    <2>2. at[k] + Len(w) <= Len(all)
      BY <1>1, <1>2, <1>5, <1>7
    <2> QED BY <2>1, <2>2 DEF Stands
  <1> QED BY <1>1, <1>2, <1>4, <1>5, <1>6, <1>7, <1>8

\* The reader is within the frame in hand, with its field in front of it, or
\* between two frames.
LEMMA ReaderPlace ==
    ASSUME TypeOK, InHand, Told, Reading, NEW all, NEW at, Flow(all, at)
    PROVE  /\ Position(at) \in Nat /\ Wanted \in Nat \ {0} /\ Len(all) \in Nat
           /\ Current \in 1 .. Len(sent) + 1
           /\ Current = Len(sent) + 1 => stage = "header" /\ Position(at) = Len(all)
           /\ Current <= Len(sent) =>
                /\ sent[Current] \in Frames
                /\ stage # "header" => HeaderOf(sent[Current])
                /\ Field(sent[Current]) \in Seq(Byte) /\ Len(Field(sent[Current])) = Wanted
                /\ Stands(Field(sent[Current]), all, Position(at))
                /\ Position(at) = at[Current] + Behind(sent[Current])
                /\ at[Current] \in Nat /\ Behind(sent[Current]) \in Nat
                /\ Position(at) + Wanted <= at[Current] + Len(Encoded(sent[Current]))
  <1>1. sent \in Seq(Frames) /\ Len(sent) \in Nat /\ Len(returned) \in Nat
    BY DEF TypeOK
  <1>2. Current \in 1 .. Len(sent) + 1
    BY <1>1 DEF Current, Told, Reading
  <1>3. CASE Current = Len(sent) + 1
    <2>1. stage = "header"
      BY <1>1, <1>3 DEF InHand
    <2>2. at[Len(sent) + 1] = Len(all) /\ Len(all) \in Nat
      BY SendingIs, <1>1 DEF Flow, Concatenates
    <2>3. Wanted \in Nat \ {0}
      BY <2>1 DEF Wanted
    <2> QED BY <1>1, <1>2, <1>3, <2>1, <2>2, <2>3 DEF Position
  <1>4. CASE Current <= Len(sent)
    <2> PICK k \in 1 .. Len(sent) : k = Current
      BY <1>2, <1>4
    <2> PICK f \in Frames : f = sent[k]
      BY <1>1, SendingIs
    <2>1. /\ at[k] \in Nat /\ at[k + 1] = at[k] + Len(Encoded(f)) /\ at[k + 1] <= Len(all)
          /\ Stands(Encoded(f), all, at[k])
      BY <1>1, FramePlace
    <2>2. stage # "header" => HeaderOf(f)
      BY DEF InHand
    <2>3. /\ Behind(f) \in Nat /\ Wanted \in Nat \ {0}
          /\ Field(f) \in Seq(Byte) /\ Len(Field(f)) = Wanted
          /\ Stands(Field(f), Encoded(f), Behind(f))
          /\ stage = "header" => Behind(f) = 0
      BY <2>2, FieldWanted
    <2>4. all \in Seq(Byte) /\ Len(all) \in Nat
      BY DEF Flow
    <2>5. Encoded(f) \in Seq(Byte) /\ Len(Encoded(f)) \in Nat
      <3> PICK w \in Seq(Byte) : w = Encoded(f)
        BY EncodedParts DEF Parts
      <3> QED OBVIOUS
    <2>6. Position(at) = at[k] + Behind(f)
      BY <2>1, <2>3 DEF Position
    <2>7. Stands(Field(f), all, at[k] + Behind(f))
      BY <2>1, <2>3, <2>4, <2>5, StandsWithin, Zenon
    <2>8. at[k] + Behind(f) + Wanted <= at[k] + Len(Encoded(f))
      <3>1. Behind(f) + Wanted <= Len(Encoded(f))
        BY <2>3 DEF Stands
      <3> QED BY <2>1, <2>3, <2>5, <3>1
    <2> QED BY <1>1, <1>2, <1>4, <2>1, <2>2, <2>3, <2>4, <2>6, <2>7, <2>8
  <1> QED BY <1>1, <1>2, <1>3, <1>4

\* The unread bytes begin with the next field, if that many have arrived.
LEMMA FieldRead ==
    ASSUME TypeOK, InHand, Told, Reading, NEW all, NEW at, Flow(all, at), Missing <= Len(stream)
    PROVE  /\ Current <= Len(sent) /\ Got = Field(sent[Current]) /\ Len(Got) = Wanted
           /\ Missing \in 0 .. Len(stream)
           /\ Splits(Byte, buf, stream, flight, Missing)
           /\ Stands(RestOf(stream, Missing) \o flight, all, Position(at) + Wanted)
           /\ Len(Unread) = Wanted + Len(RestOf(stream, Missing) \o flight)
  <1>1. /\ Position(at) \in Nat /\ Wanted \in Nat \ {0} /\ Len(all) \in Nat
        /\ Current \in 1 .. Len(sent) + 1
        /\ Current = Len(sent) + 1 => Position(at) = Len(all)
        /\ Current <= Len(sent) =>
             /\ Field(sent[Current]) \in Seq(Byte) /\ Len(Field(sent[Current])) = Wanted
             /\ Stands(Field(sent[Current]), all, Position(at))
    BY ReaderPlace
  <1>2. buf \in Seq(Byte) /\ stream \in Seq(Byte) /\ flight \in Seq(Byte) /\ Len(sent) \in Nat
    BY DEF TypeOK
  <1> PICK m \in Nat, l \in Nat : m = Len(buf) /\ l = Len(stream)
    BY <1>2
  <1>3. Missing = Wanted - m /\ Missing \in 0 .. l
    BY <1>1 DEF Told, Missing
  <1>4. Splits(Byte, buf, stream, flight, Missing)
    BY <1>2, <1>3, StreamSplit, Zenon
  <1> DEFINE n == Missing
             u == FirstOf(stream, n)
             v == RestOf(stream, n)
  <1>5. /\ u \in Seq(Byte) /\ v \in Seq(Byte) /\ Len(u) = n
        /\ Unread = (buf \o u) \o (v \o flight) /\ Got = buf \o u
    BY <1>4 DEF Splits, Unread, Got, FirstOf
  <1> HIDE DEF n, u, v
  <1>6. Got \in Seq(Byte) /\ Len(Got) = m + n /\ v \o flight \in Seq(Byte)
    <2>1. buf \o u \in Seq(Byte) /\ Len(buf \o u) = Len(buf) + Len(u)
      BY <1>2, <1>5, StandsJoined, Zenon
    <2>2. v \o flight \in Seq(Byte)
      BY <1>2, <1>5, StandsJoined, Zenon
    <2> QED BY <1>5, <2>1, <2>2
  <1>7. m + n = Wanted
    BY <1>1, <1>3 DEF n
  <1> DEFINE r == v \o flight
             g == Got
  <1>8. r \in Seq(Byte) /\ g \in Seq(Byte) /\ Unread = g \o r /\ Len(g) = Wanted
    BY <1>5, <1>6, <1>7
  <1> HIDE DEF r, g
  <1>9. Unread \in Seq(Byte) /\ Len(Unread) = Len(g) + Len(r) /\ Stands(g, Unread, 0) /\ Stands(r, Unread, Len(g))
    <2>1. /\ g \o r \in Seq(Byte) /\ Len(g \o r) = Len(g) + Len(r)
          /\ Stands(g, g \o r, 0) /\ Stands(r, g \o r, Len(g))
      BY <1>8, StandsJoined, Zenon
    <2> QED BY <1>8, <2>1
  <1>10. Stands(Unread, all, Position(at)) /\ all \in Seq(Byte)
    BY DEF Flow
  <1>11. Stands(g, all, Position(at) + 0) /\ Stands(r, all, Position(at) + Wanted)
    BY <1>1, <1>8, <1>9, <1>10, StandsWithin, 0 \in Nat, Zenon
  <1>12. Position(at) + 0 = Position(at)
    BY <1>1
  <1>13. Position(at) + Wanted <= Len(all)
    <2>1. Position(at) + Len(g) <= Len(all)
      BY <1>11, <1>12 DEF Stands
    <2> QED BY <1>8, <2>1
  <1>14. Current <= Len(sent)
    <2>1. ASSUME NEW p \in Nat, NEW w \in Nat \ {0}, p + w <= p PROVE FALSE
      BY <2>1
    <2>2. Position(at) # Len(all)
      BY <1>1, <1>13, <2>1, Zenon
    <2>3. Len(sent) \in Nat /\ Current \in 1 .. Len(sent) + 1 /\ Current # Len(sent) + 1
      BY <1>1, <1>2, <2>2, Zenon
    <2> QED BY <2>3
  <1>15. g = Field(sent[Current])
    BY <1>1, <1>8, <1>11, <1>12, <1>14, StandsOne
  <1>16. Len(Unread) = Wanted + Len(r)
    BY <1>8, <1>9
  <1>17. Got = Field(sent[Current]) /\ Len(Got) = Wanted
    BY <1>8, <1>15 DEF g
  <1>18. r = RestOf(stream, Missing) \o flight
    BY DEF r, v, n
  <1>19. Missing \in 0 .. Len(stream) /\ Splits(Byte, buf, stream, flight, Missing)
    BY <1>3, <1>4 DEF n
  <1> QED BY <1>11, <1>14, <1>16, <1>17, <1>18, <1>19

-----------------------------------------------------------------------------
(* What a result adds, and what a step of the reader keeps.                *)

\* The answers when a frame has its result.
LEMMA PongsStep ==
    ASSUME TypeOK, PongsEcho, NEW r, returned' = Append(returned, r), sent' = sent,
           Len(returned) <= Len(sent) \/ r = End,
           \/ /\ Current <= Len(sent) /\ sent[Current].opcode = 9 /\ r = Ignored
              /\ replies' = Append(replies, Encoded(Pong(sent[Current])))
           \/ ~(Current <= Len(sent) /\ sent[Current].opcode = 9 /\ r = Ignored) /\ replies' = replies
    PROVE  PongsEcho'
  <1> PICK n \in Nat, m \in Nat : n = Len(returned) /\ m = Len(sent)
    BY DEF TypeOK
  <1>1. /\ DOMAIN returned = 1 .. n /\ DOMAIN returned' = 1 .. n + 1
        /\ \A k \in 1 .. n : returned'[k] = returned[k]
        /\ returned'[n + 1] = r
    BY DEF TypeOK
  <1>2. /\ Answered = {k \in 1 .. n : k <= m /\ sent[k].opcode = 9 /\ returned[k] = Ignored}
        /\ Answered' = {k \in 1 .. n + 1 : k <= m /\ sent[k].opcode = 9 /\ returned'[k] = Ignored}
    BY <1>1 DEF Answered
  <1> DEFINE A == Answered
             hit == n + 1 <= m /\ sent[n + 1].opcode = 9 /\ r = Ignored
             upto(S, k) == {l \in S : l <= k}
  <1>3. A \in SUBSET (1 .. n) /\ IsFiniteSet(A) /\ Cardinality(A) \in Nat
    <2>1. IsFiniteSet(1 .. n)
      BY FS_Interval
    <2>2. A \in SUBSET (1 .. n)
      BY <1>2
    <2> HIDE DEF A
    <2>3. IsFiniteSet(A)
      BY <2>1, <2>2, FS_Subset
    <2> QED BY <2>2, <2>3, FS_CardinalityType
  <1>4. Answered' = IF hit THEN A \union {n + 1} ELSE A
    <2>1. \A k \in 1 .. n + 1 : k \in 1 .. n \/ k = n + 1
      OBVIOUS
    <2>2. n + 1 \in 1 .. n + 1 /\ \A k \in 1 .. n : k \in 1 .. n + 1
      OBVIOUS
    <2>3. \A k : k \in Answered' <=> k \in (IF hit THEN A \union {n + 1} ELSE A)
      BY <1>1, <1>2, <2>1, <2>2
    <2> QED BY <2>3
  <1>5. Len(replies) = Cardinality(A) /\ \A k \in A : replies[Cardinality(upto(A, k))] = Encoded(Pong(sent[k]))
    BY DEF PongsEcho
  <1>6. /\ PongsEcho' <=> /\ Len(replies') = Cardinality(Answered')
                          /\ \A k \in Answered' :
                               replies'[Cardinality(upto(Answered', k))] = Encoded(Pong(sent[k]))
    BY DEF PongsEcho
  <1>7. hit <=> Current <= Len(sent) /\ sent[Current].opcode = 9 /\ r = Ignored
    BY DEF Current
  <1> HIDE DEF A
  <1>8. CASE ~hit
    <2>1. replies' = replies /\ Answered' = A
      BY <1>4, <1>7, <1>8
    <2> QED BY <1>5, <1>6, <2>1
  <1>9. CASE hit
    <2>1. replies' = Append(replies, Encoded(Pong(sent[n + 1]))) /\ Answered' = A \union {n + 1}
      BY <1>4, <1>7, <1>9 DEF Current
    <2> DEFINE B == A \union {n + 1}
               c == Cardinality(A)
    <2>2. n + 1 \notin A
      BY <1>3
    <2>3. Cardinality(B) = c + 1
      BY <1>3, <2>2, FS_AddElement
    <2>4. /\ Len(replies') = c + 1 /\ replies'[c + 1] = Encoded(Pong(sent[n + 1]))
          /\ \A j \in 1 .. c : replies'[j] = replies[j]
      <3>1. replies \in Seq(Seq(Byte)) /\ Len(replies) = c /\ c \in Nat
        BY <1>3, <1>5 DEF TypeOK
      <3> HIDE DEF c
      <3> DEFINE e == Encoded(Pong(sent[n + 1]))
      <3> HIDE DEF e
      <3>2. replies' = Append(replies, e)
        BY <2>1 DEF e
      <3> QED BY <3>1, <3>2 DEF e
    <2>5. ASSUME NEW k \in B PROVE replies'[Cardinality(upto(B, k))] = Encoded(Pong(sent[k]))
      <3>1. CASE k = n + 1
        <4>1. upto(B, k) = B
          <5>1. \A l \in A : l <= n + 1
            BY <1>3
          <5>2. \A l \in B : l <= k
            BY <3>1, <5>1
          <5> HIDE DEF B
          <5> QED BY <5>2
        <4> QED BY <2>3, <2>4, <3>1, <4>1
      <3>2. CASE k \in A
        <4>1. upto(B, k) = upto(A, k)
          BY <1>3, <3>2
        <4>2. Cardinality(upto(A, k)) \in 1 .. c
          <5>1. upto(A, k) \in SUBSET A /\ {k} \in SUBSET upto(A, k)
            BY <1>3, <3>2
          <5> DEFINE U == upto(A, k)
          <5> HIDE DEF U
          <5>2. IsFiniteSet(U) /\ Cardinality(U) \in Nat /\ Cardinality(U) <= c
            BY <1>3, <5>1, FS_Subset, FS_CardinalityType DEF U
          <5>3. Cardinality({k}) = 1 /\ Cardinality({k}) <= Cardinality(U)
            BY <5>1, <5>2, FS_Subset, FS_Singleton DEF U
          <5> QED BY <1>3, <5>2, <5>3 DEF U
        <4> QED BY <1>5, <2>4, <3>2, <4>1, <4>2
      <3> QED BY <3>1, <3>2
    <2> QED BY <1>6, <2>1, <2>3, <2>4, <2>5
  <1> QED BY <1>8, <1>9

\* A field is taken and the reader goes on behind it.
LEMMA FlowTaken ==
    ASSUME TypeOK, InHand, Told, Reading, NEW all, NEW at, Flow(all, at), Missing <= Len(stream),
           Taken, UNCHANGED <<flight, sent, whole>>, Reading' => Position(at)' = Position(at) + Wanted
    PROVE  Flow(all, at)' /\ stream' \in Seq(Byte)
  <1> DEFINE r == RestOf(stream, Missing)
  <1>1. /\ Splits(Byte, buf, stream, flight, Missing)
        /\ Stands(r \o flight, all, Position(at) + Wanted)
        /\ Len(Unread) = Wanted + Len(r \o flight)
    BY FieldRead
  <1>2. /\ Position(at) \in Nat /\ Wanted \in Nat
    BY ReaderPlace
  <1>3. buf' = <<>> /\ stream' = r
    BY DEF Taken, RestOf
  <1>4. r \in Seq(Byte) /\ flight \in Seq(Byte)
    BY <1>1 DEF Splits, TypeOK
  <1> HIDE DEF r
  <1>5. Unread' = r \o flight
    <2>1. <<>> \o r = r
      BY <1>4
    <2> QED BY <1>3, <2>1 DEF Unread
  <1> DEFINE u == r \o flight
  <1>6. Unread' = u /\ Stands(u, all, Position(at) + Wanted) /\ Len(Unread) = Wanted + Len(u)
    BY <1>1, <1>5
  <1>7. u \in Seq(Byte) /\ Len(u) \in Nat
    <2>1. u \in Seq(Byte)
      BY <1>4, StandsJoined, Zenon
    <2> QED BY <2>1, LenProperties, Zenon
  <1> HIDE DEF u
  <1>8. /\ all \in Seq(Byte) /\ Concatenates(all, at, Sending)
        /\ whole => Position(at) + Len(Unread) = Len(all)
        /\ ~whole => /\ flight = <<>> /\ sent # <<>> /\ Position(at) + Len(Unread) < Len(all)
                     /\ at[Len(sent)] <= Position(at) + Len(Unread)
    BY DEF Flow
  <1>9. Sending' = Sending
    BY DEF Sending, Bytes
  <1>10. Position(at) + Len(Unread) = (Position(at) + Wanted) + Len(u)
    BY <1>2, <1>6, <1>7
  <1>11. ASSUME Reading'
         PROVE  /\ Stands(Unread', all, Position(at)')
                /\ whole' => Position(at)' + Len(Unread') = Len(all)
                /\ ~whole' => /\ flight' = <<>> /\ sent' # <<>> /\ Position(at)' + Len(Unread') < Len(all)
                              /\ at[Len(sent')] <= Position(at)' + Len(Unread')
    <2>1. Position(at)' = Position(at) + Wanted
      BY <1>11
    <2>2. Position(at)' + Len(Unread') = Position(at) + Len(Unread)
      BY <1>6, <1>10, <2>1
    <2> QED BY <1>6, <1>8, <2>1, <2>2
  <1>12. Flow(all, at)'
    <2>1. Concatenates(all, at, Sending')
      BY <1>8, <1>9
    <2>2. Flow(all, at)' <=>
             /\ all \in Seq(Byte) /\ Concatenates(all, at, Sending')
             /\ Reading' =>
                  /\ Stands(Unread', all, Position(at)')
                  /\ whole' => Position(at)' + Len(Unread') = Len(all)
                  /\ ~whole' => /\ flight' = <<>> /\ sent' # <<>> /\ Position(at)' + Len(Unread') < Len(all)
                                /\ at[Len(sent')] <= Position(at)' + Len(Unread')
      BY DEF Flow, Stands, Concatenates, Layout, Byte
    <2> QED BY <1>8, <1>11, <2>1, <2>2
  <1> QED BY <1>3, <1>4, <1>12

\* The reader goes on with the frame in hand.
LEMMA GoesOn ==
    ASSUME IInv, Reading, Missing <= Len(stream), NEW f \in Frames, f = sent[Current], NEW h \in Header,
           NEW next \in {"length16", "length64", "mask", "payload"}, GoOn(next, h), replies' = replies,
           HeaderOf(f)', Behind(f)' = Behind(f) + Wanted
    PROVE  IInv'
  <1> PICK all, at : Flow(all, at)
    BY DEF IInv
  <1>1. TypeOK /\ InHand /\ Told /\ ResultsMatchFrames /\ PongsEcho
    BY DEF IInv
  <1>2. /\ Current <= Len(sent) /\ Position(at) = at[Current] + Behind(f)
        /\ at[Current] \in Nat /\ Behind(f) \in Nat /\ Wanted \in Nat
    <2>1. Current <= Len(sent)
      BY <1>1, FieldRead
    <2> QED BY <1>1, <2>1, ReaderPlace
  <1>3. /\ stage' = next /\ header' = h /\ Taken
        /\ UNCHANGED <<flight, ended, key, accept, replies, sent, whole, returned>>
    BY DEF GoOn
  <1>4. Current' = Current /\ sent'[Current'] = f
    BY <1>3 DEF Current
  <1>5. Position(at)' = Position(at) + Wanted
    <2>1. Position(at)' = at[Current] + Behind(f)'
      BY <1>3, <1>4 DEF Position
    <2> QED BY <1>2, <2>1
  <1>6. Flow(all, at)' /\ stream' \in Seq(Byte)
    BY <1>1, <1>3, <1>5, FlowTaken
  <1>7. buf' = <<>> /\ buf' \in Seq(Byte) /\ Len(buf') = 0
    BY <1>3 DEF Taken
  <1>8. TypeOK'
    BY <1>1, <1>3, <1>6, <1>7 DEF TypeOK
  <1>9. InHand'
    BY <1>2, <1>3, <1>4 DEF InHand
  <1>10. Reading' /\ Wanted' \in Nat
    <2>1. FieldLength(f) \in Nat /\ f.length \in Nat
      BY FrameType DEF FieldLength
    <2> QED BY <1>3, <2>1 DEF Reading, Wanted, Header
  <1>11. Told'
    BY <1>1, <1>3, <1>7, <1>10 DEF Told, Reading, Bytes
  <1>12. ResultsMatchFrames' /\ PongsEcho'
    BY <1>1, <1>3 DEF ResultsMatchFrames, PongsEcho, Answered
  <1> QED BY <1>6, <1>8, <1>9, <1>11, <1>12 DEF IInv

\* The results of frames.
LEMMA MeaningType ==
    ASSUME NEW f \in Frames
    PROVE  Meaning(f) \in Result /\ (Meaning(f).kind = "end" <=> Meaning(f) = End) /\ End # Ignored
  <1>1. Payload(f) \in Seq(Byte) /\ <<>> \in Seq(Byte)
    BY FrameType, PartTypes, FramesAssumption
  <1> QED BY <1>1 DEF Meaning, End, Ignored, Result

\* The results while one more is added.
LEMMA ResultsStep ==
    ASSUME TypeOK, NEW r \in Result, returned' = Append(returned, r)
    PROVE  /\ returned' \in Seq(Result) /\ Len(returned') = Len(returned) + 1 /\ Len(returned) \in Nat
           /\ DOMAIN returned = 1 .. Len(returned) /\ DOMAIN returned' = 1 .. Current
           /\ \A k \in 1 .. Len(returned) : returned'[k] = returned[k]
           /\ returned'[Current] = r
  <1> QED BY DEF TypeOK, Current

\* websocket_frame_recv returns what the frame in hand means.
LEMMA Returns ==
    ASSUME IInv, Reading, Missing <= Len(stream), NEW f \in Frames, f = sent[Current], Taken,
           NEW r, r = Meaning(f), Return(r), r # End => Behind(f) + Wanted = Len(Encoded(f)),
           \/ f.opcode = 9 /\ r = Ignored /\ replies' = Append(replies, Encoded(Pong(f)))
                /\ Encoded(Pong(f)) \in Seq(Byte)
           \/ ~(f.opcode = 9 /\ r = Ignored) /\ replies' = replies
    PROVE  IInv'
  <1> PICK all, at : Flow(all, at)
    BY DEF IInv
  <1>1. TypeOK /\ InHand /\ Told /\ ResultsMatchFrames /\ PongsEcho
    BY DEF IInv
  <1>2. /\ Current \in 1 .. Len(sent) /\ Position(at) = at[Current] + Behind(f)
        /\ at[Current] \in Nat /\ Behind(f) \in Nat /\ Wanted \in Nat /\ Position(at) \in Nat
    <2>1. Current <= Len(sent) /\ Current \in 1 .. Len(sent) + 1
      BY <1>1, FieldRead, ReaderPlace
    <2>2. Len(sent) \in Nat
      BY <1>1 DEF TypeOK
    <2> QED BY <1>1, <2>1, <2>2, ReaderPlace
  <1>3. /\ returned' = Append(returned, r) /\ header' = NoHeader
        /\ stage' = IF r.kind = "end" THEN "closed" ELSE "header"
        /\ UNCHANGED <<flight, ended, key, accept, sent, whole>>
    BY DEF Return
  <1>4. r \in Result /\ (r.kind = "end" <=> r = End) /\ End # Ignored
    BY MeaningType
  <1>5. /\ returned' \in Seq(Result) /\ Len(returned') = Len(returned) + 1 /\ Len(returned) \in Nat
        /\ DOMAIN returned = 1 .. Len(returned) /\ DOMAIN returned' = 1 .. Current
        /\ \A k \in 1 .. Len(returned) : returned'[k] = returned[k]
        /\ returned'[Current] = r
    BY <1>1, <1>3, <1>4, ResultsStep
  <1>6. r # End =>
          at[Current + 1] = Position(at) + Wanted /\ (Current = Len(sent) => whole)
    <2> SUFFICES ASSUME r # End
                 PROVE  at[Current + 1] = Position(at) + Wanted /\ (Current = Len(sent) => whole)
      OBVIOUS
    <2>1. at[Current + 1] = at[Current] + Len(Encoded(f)) /\ at[Len(sent) + 1] = Len(all)
      BY <1>1, <1>2, FramePlace DEF TypeOK
    <2>2. at[Current + 1] = Position(at) + Wanted
      BY <1>2, <2>1
    <2>3. Len(Unread) = Wanted + Len(RestOf(stream, Missing) \o flight)
      BY <1>1, FieldRead
    <2>4. Len(RestOf(stream, Missing) \o flight) \in Nat
      <3>1. RestOf(stream, Missing) \in Seq(Byte) /\ flight \in Seq(Byte)
        BY <1>1, FieldRead DEF Splits, TypeOK
      <3>2. RestOf(stream, Missing) \o flight \in Seq(Byte)
        BY <3>1, StandsJoined, Zenon
      <3> QED BY <3>2, LenProperties, Zenon
    <2>5. ~whole => Position(at) + Len(Unread) < Len(all)
      BY DEF Flow
    <2>6. Current = Len(sent) => Position(at) + Wanted = Len(all)
      BY <2>1, <2>2
    <2>7. Position(at) \in Nat /\ Wanted \in Nat
      BY <1>2
    <2>8. ASSUME NEW p \in Nat, NEW w \in Nat, NEW x \in Nat PROVE ~(p + (w + x) < p + w)
      OBVIOUS
    <2>9. Current = Len(sent) => whole
      BY <2>3, <2>4, <2>5, <2>6, <2>7, <2>8, Zenon
    <2> QED BY <2>2, <2>9
  <1>7. Flow(all, at)' /\ stream' \in Seq(Byte)
    <2>1. Reading' => Position(at)' = Position(at) + Wanted
      <3> SUFFICES ASSUME Reading' PROVE Position(at)' = Position(at) + Wanted
        OBVIOUS
      <3>1. stage' = "header" /\ r # End
        BY <1>3, <1>4 DEF Reading
      <3>2. Current' = Current + 1
        BY <1>5 DEF Current
      <3>3. Position(at)' = at[Current + 1] + 0
        BY <3>1, <3>2 DEF Position
      <3> QED BY <1>2, <1>6, <3>1, <3>3
    <2> QED BY <1>1, <1>3, <2>1, FlowTaken
  <1>8. buf' = <<>> /\ buf' \in Seq(Byte) /\ Len(buf') = 0
    BY DEF Taken
  <1>9. TypeOK'
    <2>1. NoHeader \in Header
      BY DEF NoHeader, Header
    <2>2. replies' \in Seq(Seq(Byte))
      <3>1. replies \in Seq(Seq(Byte))
        BY <1>1 DEF TypeOK
      <3>2. CASE replies' = Append(replies, Encoded(Pong(f))) /\ Encoded(Pong(f)) \in Seq(Byte)
        <4> DEFINE e == Encoded(Pong(f))
        <4>1. e \in Seq(Byte) /\ replies' = Append(replies, e)
          BY <3>2
        <4> HIDE DEF e
        <4> QED BY <3>1, <4>1, AppendProperties
      <3> QED BY <3>1, <3>2
    <2> QED BY <1>1, <1>3, <1>5, <1>7, <1>8, <2>1, <2>2 DEF TypeOK
  <1>10. InHand'
    BY <1>3 DEF InHand, Reading
  <1>11. Told'
    <2>1. Len(returned') <= Len(sent)
      BY <1>2, <1>5 DEF Current
    <2>2. stage' = "closed" => returned'[Len(returned')] = End
      BY <1>3, <1>4, <1>5 DEF Current
    <2>3. stage' \in {"closed", "header"} /\ (Reading' => Wanted' = 2)
      BY <1>3 DEF Reading, Wanted
    <2> QED BY <1>1, <1>3, <1>8, <2>1, <2>2, <2>3 DEF Told, Bytes
  <1>12. ResultsMatchFrames'
    <2> SUFFICES ASSUME NEW k \in 1 .. Current
                 PROVE  returned'[k] = IF k > Len(sent) \/ (k = Len(sent) /\ ~whole) THEN End
                                       ELSE Meaning(sent[k])
      BY <1>3, <1>5 DEF ResultsMatchFrames
    <2>1. CASE k \in 1 .. Len(returned)
      BY <1>1, <1>5, <2>1 DEF ResultsMatchFrames
    <2>2. CASE k = Current
      BY <1>2, <1>5, <1>6, <2>2
    <2> QED BY <1>5, <2>1, <2>2 DEF Current
  <1>13. PongsEcho'
    <2>1. Len(returned) <= Len(sent) /\ Current <= Len(sent)
      BY <1>2, <1>5 DEF Current
    <2> QED BY <1>1, <1>3, <2>1, PongsStep
  <1> QED BY <1>7, <1>9, <1>10, <1>11, <1>12, <1>13 DEF IInv

\* It returns at the end of the stream.
LEMMA EndReached ==
    ASSUME IInv, RecvEnd
    PROVE  IInv'
  <1> PICK all, at : Flow(all, at)
    BY DEF IInv
  <1>1. TypeOK /\ InHand /\ Told /\ ResultsMatchFrames /\ PongsEcho
    BY DEF IInv
  <1>2. /\ returned' = Append(returned, End) /\ header' = NoHeader /\ stage' = "closed"
        /\ stream' = <<>> /\ buf' = <<>> /\ ended /\ Missing > Len(stream) /\ Reading
        /\ UNCHANGED <<flight, ended, sent, whole, replies>>
    BY <1>1 DEF RecvEnd, Return, End, Reading, TypeOK
  <1>3. End \in Result /\ NoHeader \in Header /\ <<>> \in Seq(Byte) /\ Len(<<>>) = 0
    BY DEF End, Result, NoHeader, Header
  <1>4. /\ returned' \in Seq(Result) /\ Len(returned') = Len(returned) + 1 /\ Len(returned) \in Nat
        /\ DOMAIN returned = 1 .. Len(returned) /\ DOMAIN returned' = 1 .. Current
        /\ \A k \in 1 .. Len(returned) : returned'[k] = returned[k]
        /\ returned'[Current] = End
    BY <1>1, <1>2, <1>3, ResultsStep
  <1>5. Current \in 1 .. Len(sent) + 1 /\ Len(sent) \in Nat
    BY <1>1, <1>2, ReaderPlace DEF TypeOK
  <1>6. Current <= Len(sent) => Current = Len(sent) /\ ~whole
    <2> SUFFICES ASSUME Current <= Len(sent) PROVE Current = Len(sent) /\ ~whole
      OBVIOUS
    <2>1. /\ Position(at) + Wanted <= at[Current] + Len(Encoded(sent[Current]))
          /\ Position(at) \in Nat /\ Wanted \in Nat
      BY <1>1, <1>2, ReaderPlace
    <2>2. /\ at[Current + 1] = at[Current] + Len(Encoded(sent[Current]))
          /\ at[Current + 1] <= Len(all) /\ Len(all) \in Nat /\ at[Current + 1] \in Nat
          /\ at[Len(sent)] \in Nat
          /\ Current < Len(sent) => at[Current + 1] <= at[Len(sent)]
      BY <1>1, <1>5, FramePlace DEF TypeOK
    <2>3. Len(Unread) = Len(buf) + Len(stream) /\ Len(Unread) < Wanted
      <3>1. flight = <<>> /\ buf \in Seq(Byte) /\ stream \in Seq(Byte)
        BY <1>1, <1>2 DEF Told, TypeOK
      <3>2. buf \o stream \in Seq(Byte) /\ Len(buf \o stream) = Len(buf) + Len(stream)
        BY <3>1, StandsJoined, Zenon
      <3>3. (buf \o stream) \o flight = buf \o stream
        <4> DEFINE u == buf \o stream
        <4> HIDE DEF u
        <4>1. u \in Seq(Byte)
          BY <3>2 DEF u
        <4>2. u \o <<>> = u
          BY <4>1
        <4> QED BY <3>1, <4>2 DEF u
      <3>4. Len(Unread) = Len(buf) + Len(stream)
        BY <3>2, <3>3 DEF Unread
      <3>5. Len(buf) \in Nat /\ Len(stream) \in Nat
        BY <3>1
      <3> QED BY <1>2, <2>1, <3>4, <3>5 DEF Missing
    <2>4. Len(Unread) \in Nat
      <3>1. Len(buf) \in Nat /\ Len(stream) \in Nat
        BY <1>1 DEF TypeOK
      <3> QED BY <2>3, <3>1
    <2>5. /\ whole => Position(at) + Len(Unread) = Len(all)
          /\ ~whole => at[Len(sent)] <= Position(at) + Len(Unread)
      BY <1>2 DEF Flow
    <2> QED BY <1>5, <2>1, <2>2, <2>3, <2>4, <2>5
  <1>7. TypeOK' /\ InHand'
    BY <1>1, <1>2, <1>3, <1>4 DEF TypeOK, InHand, Reading
  <1>8. Told'
    <2>1. returned'[Len(returned')] = End
      BY <1>4 DEF Current
    <2>2. Len(returned') <= Len(sent) \/ Len(returned') = Len(sent) + 1
      BY <1>4, <1>5 DEF Current
    <2>3. ~Reading'
      BY <1>2 DEF Reading
    <2> QED BY <1>1, <1>2, <2>1, <2>2, <2>3 DEF Told, Bytes
  <1>9. ResultsMatchFrames'
    <2> SUFFICES ASSUME NEW k \in 1 .. Current
                 PROVE  returned'[k] = IF k > Len(sent) \/ (k = Len(sent) /\ ~whole) THEN End
                                       ELSE Meaning(sent[k])
      BY <1>2, <1>4 DEF ResultsMatchFrames
    <2>1. CASE k \in 1 .. Len(returned)
      BY <1>1, <1>4, <2>1 DEF ResultsMatchFrames
    <2>2. CASE k = Current
      BY <1>4, <1>5, <1>6, <2>2
    <2> QED BY <1>4, <2>1, <2>2 DEF Current
  <1>10. PongsEcho'
    <2>1. End # Ignored
      BY DEF End, Ignored
    <2> QED BY <1>1, <1>2, <2>1, PongsStep
  <1>11. Flow(all, at)'
    <2>1. ~Reading'
      BY <1>2 DEF Reading
    <2>2. Sending' = Sending
      BY <1>2 DEF Sending, Bytes
    <2> QED BY <2>1, <2>2 DEF Flow, Concatenates, Layout, Byte
  <1> QED BY <1>7, <1>8, <1>9, <1>10, <1>11 DEF IInv

-----------------------------------------------------------------------------
(* The actions of the reader.                                              *)

\* The answer to a ping is a frame of the same payload.
LEMMA PongIs ==
    ASSUME NEW f \in Frames, f.length < BufferSize
    PROVE  FrameSent(Payload(f), 10) = Encoded(Pong(f)) /\ Encoded(Pong(f)) \in Seq(Byte)
  <1> DEFINE g == Pong(f)
             p == Payload(f)
             b == BigEndian(f.length, 2)
  <1>1. f.length \in Nat /\ p \in Seq(Byte) /\ Len(p) = f.length
    BY FrameType, PartTypes, FramesAssumption
  <1> PICK n \in Nat : n = f.length
    BY <1>1
  <1>2. n < BufferSize /\ n < 65536 /\ BufferSize \in Nat
    <2>1. BufferSize \in Nat /\ BufferSize <= 65536
      BY BufferBound, TooLargeIs
    <2> QED BY <2>1
  <1>3. /\ g.opcode = 10 /\ g.masked = FALSE /\ g.length = n
        /\ g.form = IF n < 126 THEN 7 ELSE 16
    BY DEF Pong
  <1>4. Payload(g) = p
    BY <1>3 DEF Payload
  <1>5. b \in Seq(Byte) /\ Len(b) = 2 /\ b = BigEndian(n, 2)
    BY LengthRead
  <1> DEFINE t == IF n <= 125 THEN <<n>> ELSE <<126>> \o b
  <1>6. FrameSent(p, 10) = (<<138>> \o t) \o p
    BY <1>1, <1>5 DEF FrameSent
  <1> HIDE DEF g, p, b
  <1> DEFINE o == <<138, ShortLength(g)>>
             l == LongLength(g)
  <1>7. Encoded(g) = (o \o l) \o p
    <2>1. ~(g.length >= BufferSize) /\ ~g.masked
      BY <1>2, <1>3
    <2>2. 128 + g.opcode = 138 /\ ShortLength(g) + 0 = ShortLength(g)
      BY <1>3 DEF ShortLength
    <2>3. Encoded(g) = (<<128 + g.opcode, ShortLength(g) + 0>> \o l) \o Payload(g)
      BY <2>1 DEF Encoded
    <2> QED BY <1>4, <2>2, <2>3
  <1>8. 138 \in Byte /\ 126 \in Byte /\ (n <= 125 => n \in Byte)
    BY DEF Byte
  <1>9. o \o l = <<138>> \o t /\ o \o l \in Seq(Byte)
    <2>1. CASE n <= 125
      <3>1. t = <<n>> /\ o = <<138, n>> /\ l = <<>>
        BY <1>3, <2>1 DEF ShortLength, LongLength
      <3>2. <<138>> \o <<n>> = <<138, n>>
        BY <1>8, <2>1, PairJoined
      <3>3. <<138, n>> \in Seq(Byte)
        BY <1>8, <2>1
      <3> HIDE DEF o, l, t
      <3>4. o \in Seq(Byte)
        BY <3>1, <3>3
      <3>5. o \o <<>> = o
        BY <3>4
      <3> QED BY <3>1, <3>2, <3>4, <3>5
    <2>2. CASE n > 125
      <3>1. t = <<126>> \o b /\ o = <<138, 126>> /\ l = b
        <4>1. g.form = 16 /\ ~(n <= 125)
          BY <1>3, <2>2
        <4> QED BY <1>3, <1>5, <4>1 DEF ShortLength, LongLength
      <3>2. <<138>> \o <<126>> = <<138, 126>>
        BY <1>8, PairJoined
      <3> DEFINE x == <<138>>
                 y == <<126>>
      <3>3. x \in Seq(Byte) /\ y \in Seq(Byte) /\ <<138, 126>> \in Seq(Byte)
        BY <1>8
      <3> HIDE DEF o, l, t, x, y
      <3>4. (x \o y) \o b = x \o (y \o b)
        <4>1. x \in Seq(Byte) /\ y \in Seq(Byte) /\ b \in Seq(Byte)
          BY <1>5, <3>3
        <4> QED BY <4>1, ConcatAssociative
      <3>5. o \in Seq(Byte)
        BY <3>1, <3>3
      <3>6. o \o b \in Seq(Byte)
        BY <1>5, <3>5, StandsJoined, Zenon
      <3>7. x \o t = o \o l
        BY <3>1, <3>2, <3>4 DEF x, y
      <3> QED BY <3>1, <3>6, <3>7 DEF x
    <2> QED BY <2>1, <2>2
  <1> DEFINE h == o \o l
  <1>10. Encoded(g) = h \o p /\ FrameSent(p, 10) = h \o p /\ h \in Seq(Byte)
    BY <1>6, <1>7, <1>9
  <1> HIDE DEF h
  <1>11. h \o p \in Seq(Byte)
    BY <1>1, <1>10, StandsJoined, Zenon
  <1> QED BY <1>10, <1>11 DEF g, p

\* payload_len is known.
LEMMA PastLengthKeeps ==
    ASSUME IInv, stage \in {"header", "length16", "length64"}, Missing <= Len(stream),
           NEW f \in Frames, f = sent[Current], NEW h \in Header,
           f.opcode # 8, h.opcode = f.opcode, h.masked = f.masked,
           h.length = IF f.length < TooLarge THEN f.length ELSE TooLarge,
           Behind(f) + Wanted = 2 + FieldLength(f), PastLength(h)
    PROVE  IInv'
  <1>1. Reading
    BY DEF Reading
  <1>2. /\ f.length \in Nat /\ f.masked \in BOOLEAN
        /\ BufferSize \in Nat /\ BufferSize > 0 /\ BufferSize <= TooLarge /\ TooLarge \in Nat
    <2>1. f.length \in Nat /\ f.masked \in BOOLEAN
      BY FrameType
    <2>2. BufferSize \in Nat /\ BufferSize > 0 /\ BufferSize <= TooLarge /\ TooLarge \in Nat
      BY BufferBound, TooLargeIs
    <2> QED BY <2>1, <2>2
  <1>3. h.length > BufferSize - 1 \/ h.length = 0 => Meaning(f) = End
    BY <1>2 DEF Meaning
  <1>4. h.length <= BufferSize - 1 => h.length = f.length /\ f.length < BufferSize
    BY <1>2
  <1>5. ASSUME Taken, Return(End), UNCHANGED replies, h.length > BufferSize - 1 \/ h.length = 0
        PROVE  IInv'
    <2>1. End # Ignored
      BY DEF End, Ignored
    <2> QED BY <1>1, <1>3, <1>5, <2>1, Returns
  <1>6. CASE h.length <= BufferSize - 1 /\ h.masked /\ GoOn("mask", h)
    <2>1. stage' = "mask" /\ header' = h /\ replies' = replies
      BY <1>6 DEF GoOn
    <2>2. HeaderOf(f)'
      BY <1>4, <1>6, <2>1 DEF HeaderOf
    <2>3. Behind(f)' = Behind(f) + Wanted
      BY <2>1 DEF Behind, FieldLength
    <2> QED BY <1>1, <1>6, <2>1, <2>2, <2>3, GoesOn
  <1>7. CASE h.length <= BufferSize - 1 /\ ~h.masked /\ h.length > 0 /\ GoOn("payload", h)
    <2>1. stage' = "payload" /\ header' = h /\ replies' = replies
      BY <1>7 DEF GoOn
    <2>2. HeaderOf(f)'
      BY <1>4, <1>7, <2>1 DEF HeaderOf
    <2>3. Behind(f)' = Behind(f) + Wanted
      <3>1. Behind(f)' = 2 + FieldLength(f) + MaskLength(f) /\ MaskLength(f) = 0
        BY <1>7, <2>1 DEF Behind, FieldLength, MaskLength
      <3>2. FieldLength(f) \in Nat
        BY FrameType DEF FieldLength
      <3> QED BY <3>1, <3>2
    <2> QED BY <1>1, <1>7, <2>1, <2>2, <2>3, GoesOn
  <1> QED BY <1>5, <1>6, <1>7 DEF PastLength

\* What the reader has of the frame in hand.
LEMMA FrameInHand ==
    ASSUME IInv, Reading, Missing <= Len(stream)
    PROVE  /\ Current <= Len(sent) /\ sent[Current] \in Frames /\ Got = Field(sent[Current])
           /\ stage # "header" => HeaderOf(sent[Current])
  <1> PICK all, at : Flow(all, at)
    BY DEF IInv
  <1>1. TypeOK /\ InHand /\ Told
    BY DEF IInv
  <1>2. Current <= Len(sent) /\ Got = Field(sent[Current])
    BY <1>1, FieldRead
  <1> QED BY <1>1, <1>2, ReaderPlace

\* The first two bytes are there.
LEMMA HeaderKeeps ==
    ASSUME IInv, RecvHeader
    PROVE  IInv'
  <1>1. Reading /\ stage = "header" /\ Missing <= Len(stream)
    BY DEF RecvHeader, Has, Reading
  <1> PICK f \in Frames : f = sent[Current] /\ Got = Field(f)
    BY <1>1, FrameInHand
  <1>2. /\ f.opcode \in 0 .. 15 /\ f.masked \in BOOLEAN /\ f.form \in {7, 16, 64} /\ f.length \in Nat
        /\ f.form = 7 => f.length < 126
        /\ f.form = 16 => f.length < TooLarge
    BY FrameType
  <1>3. ShortLength(f) = CASE f.form = 7 -> f.length [] f.form = 16 -> 126 [] f.form = 64 -> 127
    BY DEF ShortLength
  <1> DEFINE h == [opcode |-> Got[1] % 16, masked |-> Got[2] >= 128, length |-> Got[2] % 128, mask |-> <<>>]
  <1>4. Got[1] = 128 + f.opcode /\ Got[2] = ShortLength(f) + IF f.masked THEN 128 ELSE 0
    BY <1>1 DEF Field, Opening
  <1>5. h.opcode = f.opcode /\ h.masked = f.masked /\ h.length = ShortLength(f) /\ h \in Header
    <2>1. ShortLength(f) \in 0 .. 127
      BY <1>2, <1>3
    <2>2. Got[1] % 16 = f.opcode /\ (Got[2] >= 128 <=> f.masked) /\ Got[2] % 128 = ShortLength(f)
      BY <1>2, <1>4, <2>1
    <2>3. <<>> \in Seq(Byte)
      OBVIOUS
    <2> QED BY <1>2, <2>1, <2>2, <2>3 DEF Header
  <1>6. PastHeader(h)
    BY DEF RecvHeader
  <1> HIDE DEF h
  <1>7. Behind(f) = 0 /\ Wanted = 2
    BY <1>1 DEF Behind, Wanted
  <1>8. CASE h.opcode = 8 /\ Taken /\ Return(End) /\ UNCHANGED replies
    <2>1. Meaning(f) = End /\ End # Ignored
      BY <1>5, <1>8 DEF Meaning, End, Ignored
    <2> QED BY <1>1, <1>8, <2>1, Returns
  <1>9. CASE h.opcode # 8 /\ h.length = 126 /\ GoOn("length16", h)
    <2>1. stage' = "length16" /\ header' = h /\ replies' = replies
      BY <1>9 DEF GoOn
    <2>2. f.form = 16
      BY <1>2, <1>3, <1>5, <1>9
    <2>3. Behind(f)' = Behind(f) + Wanted
      <3>1. Behind(f)' = 2
        BY <2>1 DEF Behind
      <3> QED BY <1>7, <3>1
    <2>4. f.opcode # 8 /\ h.opcode = f.opcode /\ h.masked = f.masked
      BY <1>5, <1>9
    <2>5. HeaderOf(f)'
      BY <2>1, <2>2, <2>4 DEF HeaderOf
    <2> QED BY <1>1, <1>5, <1>9, <2>1, <2>3, <2>5, GoesOn
  <1>10. CASE h.opcode # 8 /\ h.length = 127 /\ GoOn("length64", h)
    <2>1. stage' = "length64" /\ header' = h /\ replies' = replies
      BY <1>10 DEF GoOn
    <2>2. f.form = 64
      BY <1>2, <1>3, <1>5, <1>10
    <2>3. Behind(f)' = Behind(f) + Wanted
      <3>1. Behind(f)' = 2
        BY <2>1 DEF Behind
      <3> QED BY <1>7, <3>1
    <2>4. f.opcode # 8 /\ h.opcode = f.opcode /\ h.masked = f.masked
      BY <1>5, <1>10
    <2>5. HeaderOf(f)'
      BY <2>1, <2>2, <2>4 DEF HeaderOf
    <2> QED BY <1>1, <1>5, <1>10, <2>1, <2>3, <2>5, GoesOn
  <1>11. CASE h.opcode # 8 /\ h.length < 126 /\ PastLength(h)
    <2>1. f.form = 7 /\ h.length = f.length /\ f.length < TooLarge
      BY <1>2, <1>3, <1>5, <1>11 DEF TooLarge
    <2>2. FieldLength(f) = 0
      BY <2>1 DEF FieldLength
    <2> QED BY <1>1, <1>5, <1>7, <1>11, <2>1, <2>2, PastLengthKeeps
  <1> QED BY <1>6, <1>8, <1>9, <1>10, <1>11 DEF PastHeader

\* The longer length is there.
LEMMA LengthKeeps ==
    ASSUME IInv, RecvLength
    PROVE  IInv'
  <1>1. Reading /\ stage \in {"length16", "length64"} /\ Missing <= Len(stream)
    BY DEF RecvLength, Has, Reading
  <1> PICK f \in Frames : f = sent[Current] /\ Got = Field(f) /\ HeaderOf(f)
    BY <1>1, FrameInHand
  <1>2. f.length \in Nat /\ (f.form = 16 => f.length < TooLarge)
    BY FrameType
  <1>3. Value(Got) = IF f.length < TooLarge THEN f.length ELSE TooLarge
    <2>1. Got = LongLength(f)
      BY <1>1 DEF Field
    <2>2. CASE stage = "length16"
      <3>1. f.form = 16 /\ f.length < TooLarge
        BY <1>2, <2>2 DEF HeaderOf
      <3>2. Got = BigEndian(f.length, 2)
        BY <2>1, <3>1 DEF LongLength
      <3> QED BY <1>2, <3>1, <3>2, LengthRead
    <2>3. CASE stage = "length64"
      <3>1. f.form = 64
        BY <2>3 DEF HeaderOf
      <3>2. Got = BigEndian(f.length, 8)
        BY <2>1, <3>1 DEF LongLength
      <3> QED BY <1>2, <3>2, LengthRead
    <2> QED BY <1>1, <2>2, <2>3
  <1> DEFINE h == [header EXCEPT !.length = Value(Got)]
  <1>4. /\ h \in Header /\ h.length = Value(Got) /\ h.opcode = f.opcode /\ h.masked = f.masked
        /\ f.opcode # 8
    <2>1. header \in Header /\ Value(Got) \in Nat
      BY <1>2, <1>3 DEF IInv, TypeOK, TooLarge
    <2> QED BY <2>1 DEF Header, HeaderOf
  <1>5. PastLength(h)
    BY DEF RecvLength
  <1> HIDE DEF h
  <1>6. Behind(f) + Wanted = 2 + FieldLength(f)
    BY <1>1 DEF Behind, Wanted, FieldLength, HeaderOf
  <1> QED BY <1>1, <1>3, <1>4, <1>5, <1>6, PastLengthKeeps

\* The masking key is there.
LEMMA MaskKeeps ==
    ASSUME IInv, RecvMask
    PROVE  IInv'
  <1>1. Reading /\ stage = "mask" /\ Missing <= Len(stream)
    BY DEF RecvMask, Has, Reading
  <1> PICK f \in Frames : f = sent[Current] /\ Got = Field(f) /\ HeaderOf(f)
    BY <1>1, FrameInHand
  <1>2. /\ header.length = f.length /\ f.length < BufferSize /\ f.masked /\ f.opcode # 8
        /\ header.opcode = f.opcode /\ header.masked = f.masked /\ f.length \in Nat
    BY <1>1, FrameType DEF HeaderOf
  <1>3. CASE header.length = 0 /\ Taken /\ Return(End) /\ UNCHANGED replies
    <2>1. Meaning(f) = End /\ End # Ignored
      BY <1>2, <1>3 DEF Meaning, End, Ignored
    <2> QED BY <1>1, <1>3, <2>1, Returns
  <1>4. CASE header.length # 0 /\ GoOn("payload", [header EXCEPT !.mask = Got])
    <2> DEFINE h == [header EXCEPT !.mask = Got]
    <2>1. Got = MaskingKey
      BY <1>1 DEF Field
    <2>2. /\ h \in Header /\ h.mask = MaskingKey /\ h.length = header.length /\ h.opcode = header.opcode
          /\ h.masked = header.masked
      <3>1. header \in Header /\ MaskingKey \in Seq(Byte)
        BY PartTypes, FramesAssumption, FrameType DEF IInv, TypeOK
      <3> QED BY <2>1, <3>1 DEF Header
    <2>3. GoOn("payload", h)
      BY <1>4
    <2> HIDE DEF h
    <2>4. stage' = "payload" /\ header' = h /\ replies' = replies
      BY <2>3 DEF GoOn
    <2>5. HeaderOf(f)'
      <3>1. /\ header'.opcode = f.opcode /\ header'.masked = f.masked /\ header'.length = f.length
            /\ header'.mask = MaskingKey
        BY <1>2, <2>2, <2>4, Zenon
      <3>2. f.length > 0
        BY <1>2, <1>4
      <3> QED BY <1>2, <2>4, <3>1, <3>2 DEF HeaderOf
    <2>6. Behind(f)' = Behind(f) + Wanted
      <3>1. Behind(f)' = 2 + FieldLength(f) + 4 /\ Behind(f) = 2 + FieldLength(f) /\ Wanted = 4
        BY <1>1, <1>2, <2>4 DEF Behind, FieldLength, MaskLength, Wanted
      <3>2. FieldLength(f) \in Nat
        BY FrameType DEF FieldLength
      <3> QED BY <3>1, <3>2
    <2> QED BY <1>1, <2>2, <2>3, <2>4, <2>5, <2>6, GoesOn
  <1> QED BY <1>3, <1>4 DEF RecvMask

\* The payload is there.
LEMMA PayloadKeeps ==
    ASSUME IInv, RecvPayload
    PROVE  IInv'
  <1>1. Reading /\ stage = "payload" /\ Missing <= Len(stream) /\ Taken
    BY DEF RecvPayload, Has, Reading
  <1> PICK f \in Frames : f = sent[Current] /\ Got = Field(f) /\ HeaderOf(f)
    BY <1>1, FrameInHand
  <1>2. /\ header.length = f.length /\ f.length < BufferSize /\ f.length > 0 /\ f.opcode # 8
        /\ header.opcode = f.opcode /\ header.masked = f.masked /\ f.length \in Nat
        /\ f.masked => header.mask = MaskingKey
    BY <1>1, FrameType DEF HeaderOf
  <1>3. Unmasked(Got) = Payload(f)
    <2>1. Got = Body(f)
      BY <1>1 DEF Field
    <2>2. f.masked => Masked(Body(f), MaskingKey) = Payload(f)
      BY PartTypes, FrameType, FramesAssumption
    <2>3. ~f.masked => Body(f) = Payload(f)
      BY DEF Body
    <2> QED BY <1>2, <2>1, <2>2, <2>3 DEF Unmasked
  <1>4. Behind(f) + Wanted = Len(Encoded(f))
    <2>1. Len(Encoded(f)) = 2 + FieldLength(f) + MaskLength(f) + f.length
      BY <1>2, EncodedParts DEF Parts
    <2> QED BY <1>1, <1>2, <2>1 DEF Behind, Wanted
  <1>5. BufferSize \in Nat
    BY BufferBound
  <1>6. Meaning(f) = IF f.opcode = 1 THEN [kind |-> "text", text |-> Payload(f)] ELSE Ignored
    BY <1>2, <1>5 DEF Meaning
  <1>7. Encoded(Pong(f)) \in Seq(Byte) /\ FrameSent(Payload(f), 10) = Encoded(Pong(f))
    BY <1>2, PongIs
  <1>8. \/ f.opcode = 1 /\ Return(Meaning(f)) /\ UNCHANGED replies
        \/ f.opcode = 9 /\ Return(Meaning(f)) /\ replies' = Append(replies, Encoded(Pong(f))) /\ Meaning(f) = Ignored
        \/ f.opcode \notin {1, 9} /\ Return(Meaning(f)) /\ UNCHANGED replies
    BY <1>2, <1>3, <1>6, <1>7 DEF RecvPayload
  <1>9. /\ Return(Meaning(f))
        /\ \/ f.opcode = 9 /\ Meaning(f) = Ignored /\ replies' = Append(replies, Encoded(Pong(f)))
           \/ ~(f.opcode = 9 /\ Meaning(f) = Ignored) /\ replies' = replies
    BY <1>8
  <1> QED BY <1>1, <1>4, <1>7, <1>9, Returns

-----------------------------------------------------------------------------
(* The client, and bytes that arrive.                                      *)

\* The lengths of what is unread.
LEMMA UnreadParts ==
    ASSUME TypeOK
    PROVE  /\ Unread \in Seq(Byte) /\ buf \o stream \in Seq(Byte)
           /\ Len(Unread) = Len(buf \o stream) + Len(flight)
           /\ Len(buf \o stream) = Len(buf) + Len(stream) /\ Len(buf \o stream) \in Nat
           /\ Len(flight) \in Nat /\ Len(stream) \in Nat /\ Len(buf) \in Nat
           /\ Stands(buf \o stream, Unread, 0)
  <1>1. buf \in Seq(Byte) /\ stream \in Seq(Byte) /\ flight \in Seq(Byte)
    BY DEF TypeOK
  <1>2. buf \o stream \in Seq(Byte) /\ Len(buf \o stream) = Len(buf) + Len(stream)
    BY <1>1, StandsJoined, Zenon
  <1> DEFINE u == buf \o stream
  <1>3. u \in Seq(Byte) /\ Unread = u \o flight
    BY <1>2 DEF Unread
  <1> HIDE DEF u
  <1>4. u \o flight \in Seq(Byte) /\ Len(u \o flight) = Len(u) + Len(flight) /\ Stands(u, u \o flight, 0)
    BY <1>1, <1>3, StandsJoined, Zenon
  <1>5. Len(flight) \in Nat /\ Len(stream) \in Nat /\ Len(buf) \in Nat /\ Len(u) \in Nat
    BY <1>1, <1>3
  <1> QED BY <1>2, <1>3, <1>4, <1>5 DEF u

\* What is unread is only moved.
LEMMA MovesKeep ==
    ASSUME IInv, stream' \in Seq(Byte), buf' \in Seq(Byte), flight' \in Seq(Byte), Unread' = Unread,
           UNCHANGED <<stage, ended, header, replies, sent, whole, returned>>,
           stage \in {"request", "reply"} => UNCHANGED <<flight, stream, buf>>,
           Len(flight') <= Len(flight), Reading => Len(buf') <= Wanted
    PROVE  IInv'
  <1> PICK all, at : Flow(all, at)
    BY DEF IInv
  <1>1. TypeOK /\ InHand /\ Told /\ ResultsMatchFrames /\ PongsEcho
    BY DEF IInv
  <1>2. TypeOK'
    BY <1>1 DEF TypeOK
  <1>3. InHand'
    BY <1>1 DEF InHand, Reading, Current, HeaderOf
  <1>4. flight = <<>> => flight' = <<>>
    <2>1. flight = <<>> => Len(flight) = 0
      OBVIOUS
    <2>2. Len(flight') \in Nat /\ Len(flight) \in Nat /\ (Len(flight') = 0 => flight' = <<>>)
      BY <1>1 DEF TypeOK
    <2> QED BY <2>1, <2>2
  <1>5. flight' # <<>> => sent' # <<>> /\ Len(flight') <= Len(Bytes[sent'[Len(sent')]])
    <2> SUFFICES ASSUME flight' # <<>> PROVE sent # <<>> /\ Len(flight') <= Len(Bytes[sent[Len(sent)]])
      BY DEF Bytes
    <2>1. sent # <<>> /\ Len(flight) <= Len(Bytes[sent[Len(sent)]])
      BY <1>1, <1>4 DEF Told
    <2>2. Len(flight') \in Nat /\ Len(flight) \in Nat /\ Len(Bytes[sent[Len(sent)]]) \in Nat
      <3>1. Len(sent) \in 1 .. Len(sent)
        BY <1>1, <2>1 DEF TypeOK
      <3> PICK f \in Frames : f = sent[Len(sent)]
        BY <1>1, <3>1, SendingIs DEF TypeOK
      <3>2. Bytes[f] \in Seq(Byte)
        BY EncodedParts DEF Parts, Bytes
      <3>3. Len(Bytes[f]) \in Nat
        BY <3>2
      <3> QED BY <1>1, <3>3 DEF TypeOK
    <2> QED BY <2>1, <2>2
  <1>6. Reading' = Reading /\ Wanted' = Wanted
    BY DEF Reading, Wanted
  <1>7. Told'
    BY <1>1, <1>4, <1>5, <1>6 DEF Told
  <1>8. ResultsMatchFrames' /\ PongsEcho'
    BY <1>1 DEF ResultsMatchFrames, PongsEcho, Answered
  <1>9. Flow(all, at)'
    <2>1. Position(at)' = Position(at) /\ Sending' = Sending
      BY DEF Position, Current, Behind, Sending, Bytes
    <2> QED BY <1>4, <1>6, <2>1 DEF Flow
  <1> QED BY <1>2, <1>3, <1>7, <1>8, <1>9 DEF IInv

\* Bytes arrive.
LEMMA ArriveKeeps ==
    ASSUME IInv, Arrive
    PROVE  IInv'
  <1>1. TypeOK /\ Told
    BY DEF IInv
  <1> PICK n \in 1 .. Len(flight) : /\ stream' = stream \o SubSeq(flight, 1, n)
                                    /\ flight' = SubSeq(flight, n + 1, Len(flight))
    BY DEF Arrive
  <1>2. buf \in Seq(Byte) /\ stream \in Seq(Byte) /\ flight \in Seq(Byte) /\ <<>> \in Seq(Byte)
    BY <1>1 DEF TypeOK
  <1>3. n \in 0 .. Len(flight) /\ Len(flight) \in Nat
    BY <1>2
  <1>4. Splits(Byte, <<>>, flight, <<>>, n)
    BY <1>2, <1>3, StreamSplit, Zenon
  <1> DEFINE u == FirstOf(flight, n)
             v == RestOf(flight, n)
  <1>5. /\ u \in Seq(Byte) /\ v \in Seq(Byte) /\ u \o v = flight /\ Len(v) = Len(flight) - n
        /\ stream' = stream \o u /\ flight' = v
    BY <1>4 DEF Splits, FirstOf, RestOf
  <1> HIDE DEF u, v
  <1>6. stream' \in Seq(Byte) /\ flight' \in Seq(Byte)
    <2>1. stream \o u \in Seq(Byte)
      BY <1>2, <1>5, StandsJoined, Zenon
    <2> QED BY <1>5, <2>1
  <1>7. Unread' = Unread
    <2>1. Regroup(buf, stream, u, v)
      BY <1>2, <1>5, Regrouped, Zenon
    <2>2. (buf \o (stream \o u)) \o v = (buf \o stream) \o (u \o v)
      BY <2>1 DEF Regroup
    <2>3. buf' = buf
      BY DEF Arrive
    <2> QED BY <1>5, <2>2, <2>3, Zenon DEF Unread
  <1>8. Len(flight') <= Len(flight)
    BY <1>3, <1>5
  <1>9. stage \notin {"request", "reply"}
    <2>1. flight # <<>>
      BY <1>3
    <2> QED BY <1>1, <2>1 DEF Told
  <1> QED BY <1>1, <1>2, <1>6, <1>7, <1>8, <1>9, MovesKeep DEF Arrive, Told

\* recv() returns some of what is wanted.
LEMMA RecvSomeKeeps ==
    ASSUME IInv, RecvSome
    PROVE  IInv'
  <1>1. TypeOK /\ Told
    BY DEF IInv
  <1>2. buf \in Seq(Byte) /\ stream \in Seq(Byte) /\ flight \in Seq(Byte) /\ <<>> \in Seq(Byte)
    BY <1>1 DEF TypeOK
  <1>3. /\ buf' = buf \o stream /\ stream' = <<>> /\ Len(stream) < Missing
        /\ UNCHANGED <<stage, flight, ended, header, key, accept, replies, sent, whole, returned>>
    BY DEF RecvSome
  <1>4. buf \o stream \in Seq(Byte) /\ Len(buf \o stream) = Len(buf) + Len(stream)
        /\ Len(buf) \in Nat /\ Len(stream) \in Nat
    BY <1>1, UnreadParts
  <1> DEFINE u == buf \o stream
  <1>5. u \in Seq(Byte) /\ buf' = u
    BY <1>3, <1>4
  <1>6. Unread' = Unread
    <2>1. Unread = u \o flight /\ Unread' = (u \o <<>>) \o flight
      BY <1>3 DEF Unread
    <2> HIDE DEF u
    <2>2. u \o <<>> = u
      BY <1>5
    <2> QED BY <2>1, <2>2
  <1>7. Wanted \in Nat
    <2>1. header.length \in Nat
      BY <1>1 DEF TypeOK, Header
    <2> QED BY <2>1 DEF Wanted
  <1>8. Len(buf') <= Wanted
    BY <1>3, <1>4, <1>7 DEF Missing
  <1>9. stage \notin {"request", "reply"}
    BY <1>1, <1>3 DEF Told, RecvSome
  <1>10. Len(flight') <= Len(flight)
    <2>1. Len(flight) \in Nat
      BY <1>2
    <2> QED BY <1>3, <2>1
  <1> HIDE DEF u
  <1> QED BY <1>2, <1>3, <1>5, <1>6, <1>8, <1>9, <1>10, MovesKeep

\* The client hangs up: what was in flight is lost.
LEMMA HangUpKeeps ==
    ASSUME IInv, HangUp
    PROVE  IInv'
  <1> PICK all, at : Flow(all, at)
    BY DEF IInv
  <1>1. TypeOK /\ InHand /\ Told /\ ResultsMatchFrames /\ PongsEcho
    BY DEF IInv
  <1>2. /\ ~ended /\ ended' = TRUE /\ flight' = <<>> /\ whole' = (flight = <<>>) /\ whole
        /\ UNCHANGED <<stage, stream, buf, header, key, accept, replies, sent, returned>>
    BY <1>1 DEF HangUp, Told
  <1>3. /\ Unread \in Seq(Byte) /\ buf \o stream \in Seq(Byte)
        /\ Len(Unread) = Len(buf \o stream) + Len(flight)
        /\ Len(buf \o stream) \in Nat /\ Len(flight) \in Nat
        /\ Stands(buf \o stream, Unread, 0)
    BY <1>1, UnreadParts
  <1> DEFINE u == buf \o stream
  <1>4. Unread' = u
    <2>1. Unread' = u \o <<>>
      BY <1>2 DEF Unread
    <2>2. u \in Seq(Byte)
      BY <1>3
    <2> HIDE DEF u
    <2>3. u \o <<>> = u
      BY <2>2
    <2> QED BY <2>1, <2>3
  <1> HIDE DEF u
  <1>5. /\ u \in Seq(Byte) /\ Len(Unread) = Len(u) + Len(flight) /\ Len(u) \in Nat
        /\ Stands(u, Unread, 0)
    BY <1>3 DEF u
  <1>6. TypeOK' /\ InHand'
    <2>1. <<>> \in Seq(Byte)
      OBVIOUS
    <2> QED BY <1>1, <1>2, <2>1 DEF TypeOK, InHand, Reading, Current, HeaderOf
  <1>7. Told'
    <2>1. stage \in {"request", "reply"} => flight = <<>>
      BY <1>1 DEF Told
    <2>2. Reading' = Reading /\ Wanted' = Wanted
      BY <1>2 DEF Reading, Wanted
    <2> QED BY <1>1, <1>2, <2>1, <2>2 DEF Told
  <1>8. flight # <<>> => Len(flight) > 0 /\ sent # <<>> /\ Len(flight) <= Len(Bytes[sent[Len(sent)]])
    BY <1>1 DEF Told, TypeOK
  <1>9. ASSUME flight # <<>>
        PROVE  /\ Len(sent) \in 1 .. Len(sent) /\ at[Len(sent)] \in Nat /\ Len(all) \in Nat
               /\ Len(all) = at[Len(sent)] + Len(Bytes[sent[Len(sent)]])
               /\ Len(Bytes[sent[Len(sent)]]) \in Nat
    <2>1. Len(sent) \in 1 .. Len(sent)
      BY <1>1, <1>8, <1>9 DEF TypeOK
    <2>2. sent[Len(sent)] \in Frames /\ Encoded(sent[Len(sent)]) \in Seq(Byte)
      BY <1>1, <2>1, SendingIs DEF TypeOK
    <2>3. /\ at[Len(sent)] \in Nat /\ Len(all) \in Nat
          /\ at[Len(sent) + 1] = at[Len(sent)] + Len(Encoded(sent[Len(sent)]))
          /\ at[Len(sent) + 1] = Len(all)
      BY <1>1, <2>1, FramePlace DEF TypeOK
    <2>4. Bytes[sent[Len(sent)]] = Encoded(sent[Len(sent)])
      BY <2>2 DEF Bytes
    <2>5. Len(Encoded(sent[Len(sent)])) \in Nat
      BY <2>2, LenProperties, Zenon
    <2> QED BY <2>1, <2>3, <2>4, <2>5
  <1>10. Flow(all, at)'
    <2>1. Position(at)' = Position(at) /\ Sending' = Sending /\ Reading' = Reading
      BY <1>2 DEF Position, Current, Behind, Sending, Bytes, Reading
    <2>2. all \in Seq(Byte) /\ Concatenates(all, at, Sending)
      BY DEF Flow
    <2>3. ASSUME Reading
          PROVE  /\ Stands(u, all, Position(at))
                 /\ flight = <<>> => Position(at) + Len(u) = Len(all)
                 /\ flight # <<>> => /\ Position(at) + Len(u) < Len(all)
                                     /\ at[Len(sent)] <= Position(at) + Len(u)
      <3>1. Stands(Unread, all, Position(at)) /\ Position(at) + Len(Unread) = Len(all)
        BY <1>2, <2>3 DEF Flow
      <3>2. Position(at) \in Nat /\ Position(at) + 0 = Position(at)
        BY <1>1, <2>3, ReaderPlace
      <3>3. Stands(u, all, Position(at) + 0)
        BY <1>3, <1>5, <2>2, <3>1, <3>2, StandsWithin, 0 \in Nat, Zenon
      <3>4. flight = <<>> => Len(flight) = 0
        OBVIOUS
      <3>5. Stands(u, all, Position(at))
        BY <3>2, <3>3
      <3>p. PICK p \in Nat, m \in Nat, l \in Nat : p = Position(at) /\ m = Len(u) /\ l = Len(flight)
        BY <1>3, <1>5, <3>2
      <3>6. p + (m + l) = Len(all)
        BY <1>5, <3>1, <3>p
      <3>7. flight = <<>> => p + m = Len(all)
        BY <3>4, <3>6, <3>p
      <3>8. ASSUME flight # <<>>
            PROVE  p + m < Len(all) /\ at[Len(sent)] <= p + m
        <4>a. PICK b \in Nat, a \in Nat : b = Len(Bytes[sent[Len(sent)]]) /\ a = at[Len(sent)]
          BY <1>9, <3>8
        <4>1. Len(all) = a + b /\ l > 0 /\ l <= b
          BY <1>8, <1>9, <3>8, <3>p, <4>a
        <4>2. p + m < p + (m + l) /\ (p + (m + l) = a + b => a <= p + m)
          BY <4>1
        <4> QED BY <3>6, <4>1, <4>2, <4>a
      <3> QED BY <3>5, <3>7, <3>8, <3>p
    <2> QED BY <1>2, <1>4, <1>8, <2>1, <2>2, <2>3 DEF Flow
  <1>11. ResultsMatchFrames'
    <2>1. CASE flight = <<>>
      BY <1>1, <1>2, <2>1 DEF ResultsMatchFrames
    <2>2. CASE flight # <<>>
      <3>1. stage \notin {"request", "reply"} /\ Len(sent) \in Nat /\ Len(returned) \in Nat
        BY <1>1, <2>2 DEF Told, TypeOK
      <3>2. Len(returned) < Len(sent) \/ (stage = "closed" /\ Len(returned) = Len(sent))
        <4>1. CASE Reading
          <5>1. Position(at) + Len(Unread) = Len(all) /\ Position(at) \in Nat /\ Len(all) \in Nat
                /\ Current \in 1 .. Len(sent) + 1
                /\ (Current = Len(sent) + 1 => Position(at) = Len(all))
            BY <1>1, <1>2, <4>1, ReaderPlace DEF Flow
          <5> QED BY <1>5, <1>8, <2>2, <3>1, <5>1, <1>3 DEF Current
        <4>2. CASE ~Reading
          <5>1. stage = "closed"
            BY <1>1, <3>1, <4>2 DEF TypeOK, Reading
          <5>2. Len(returned) <= Len(sent)
            BY <1>1, <1>2 DEF Told
          <5> QED BY <3>1, <5>1, <5>2
        <4> QED BY <4>1, <4>2
      <3>3. ASSUME NEW k \in DOMAIN returned
            PROVE  returned[k] = IF k > Len(sent) \/ k = Len(sent) THEN End ELSE Meaning(sent[k])
        <4>1. DOMAIN returned = 1 .. Len(returned)
          BY <1>1 DEF TypeOK
        <4>2. returned[k] = IF k > Len(sent) THEN End ELSE Meaning(sent[k])
          BY <1>1, <1>2 DEF ResultsMatchFrames
        <4>3. k <= Len(sent) /\ (k = Len(sent) => stage = "closed" /\ k = Len(returned) /\ returned # <<>>)
          BY <3>1, <3>2, <3>3, <4>1
        <4>4. k = Len(sent) => returned[k] = End
          BY <1>1, <4>3 DEF Told
        <4> QED BY <3>1, <4>1, <4>2, <4>3, <4>4
      <3> QED BY <1>2, <2>2, <3>3 DEF ResultsMatchFrames
    <2> QED BY <2>1, <2>2
  <1>12. PongsEcho'
    BY <1>1, <1>2 DEF PongsEcho, Answered
  <1> QED BY <1>6, <1>7, <1>10, <1>11, <1>12 DEF IInv

\* The client sends a frame: one part more.
LEMMA SendKeeps ==
    ASSUME IInv, NEW f \in Frames, Send(f)
    PROVE  IInv'
  <1> PICK all, at : Flow(all, at)
    BY DEF IInv
  <1>1. TypeOK /\ InHand /\ Told /\ ResultsMatchFrames /\ PongsEcho
    BY DEF IInv
  <1>2. /\ stage \notin {"request", "reply"} /\ ~ended /\ whole /\ flight = <<>>
        /\ sent' = Append(sent, f) /\ flight' = Bytes[f]
        /\ UNCHANGED <<stage, stream, ended, buf, header, key, accept, replies, whole, returned>>
    BY <1>1 DEF Send, Told
  <1> PICK n \in Nat : n = Len(sent)
    BY <1>1 DEF TypeOK
  <1> PICK e \in Seq(Byte) : e = Encoded(f)
    BY EncodedParts DEF Parts
  <1>3. Len(e) \in Nat /\ Bytes[f] = e
    BY DEF Bytes
  <1>4. /\ n \in Nat /\ sent' \in Seq(Frames) /\ Len(sent') = n + 1 /\ sent'[n + 1] = f
        /\ \A k \in 1 .. n : sent'[k] = sent[k]
    BY <1>1, <1>2 DEF TypeOK
  <1>5. Len(returned) \in Nat /\ Len(returned) <= n
    BY <1>1, <1>2 DEF Told, TypeOK
  <1>6. /\ Sending \in Lists(Byte) /\ Len(Sending) = n
        /\ \A k \in 1 .. n : Sending[k] = Encoded(sent[k]) /\ Encoded(sent[k]) \in Seq(Byte)
    BY <1>1, SendingIs DEF TypeOK
  <1>7. /\ Sending' \in Lists(Byte) /\ Len(Sending') = n + 1
        /\ \A k \in 1 .. n : Sending'[k] = Sending[k]
        /\ Sending'[n + 1] = e
    <2> DEFINE s == sent'
               t == [k \in 1 .. n + 1 |-> Bytes[s[k]]]
    <2>1. Sending' = t
      BY <1>4 DEF Sending, Bytes
    <2>2. ASSUME NEW k \in 1 .. n PROVE t[k] = Sending[k] /\ t[k] \in Seq(Byte)
      <3>1. t[k] = Bytes[sent[k]] /\ Sending[k] = Bytes[sent[k]]
        BY <1>4 DEF Sending
      <3> QED BY <1>6, <3>1
    <2>3. t[n + 1] = e /\ t[n + 1] \in Seq(Byte)
      BY <1>3, <1>4
    <2>4. \A k \in 1 .. n + 1 : t[k] \in Seq(Byte)
      <3>1. \A k \in 1 .. n + 1 : k \in 1 .. n \/ k = n + 1
        BY <1>4
      <3> QED BY <2>2, <2>3, <3>1
    <2>5. t = [k \in 1 .. n + 1 |-> t[k]]
      OBVIOUS
    <2> HIDE DEF t
    <2>6. t \in Seq(Seq(Byte)) /\ Len(t) = n + 1
      BY <1>4, <2>4, <2>5
    <2> QED BY <2>1, <2>2, <2>3, <2>6 DEF Lists
  <1>8. all \in Seq(Byte) /\ Concatenates(all, at, Sending)
    BY DEF Flow
  <1>9. PICK place : /\ Concatenates(all \o e, place, Sending')
                     /\ \A k \in 1 .. n + 1 : place[k] = at[k]
    <2>1. Len(Sending') = Len(Sending) + 1 /\ Sending'[Len(Sending) + 1] = e
      BY <1>6, <1>7
    <2>2. \E place : /\ Concatenates(all \o e, place, Sending')
                     /\ \A k \in 1 .. Len(Sending) + 1 : place[k] = at[k]
      BY <1>6, <1>7, <1>8, <2>1, ConcatenatesMore
    <2> QED BY <1>6, <2>2
  <1>10. PICK more \in Seq(Byte) : more = all \o e
    <2>1. all \o e \in Seq(Byte)
      BY <1>8, StandsJoined, Zenon
    <2> QED BY <2>1
  <1>12. Reading' = Reading /\ Current' = Current /\ Wanted' = Wanted
    BY <1>2 DEF Reading, Current, Wanted
  <1>13. Reading => place[Current] = at[Current] /\ Position(place)' = Position(at) /\ Position(at) \in Nat
    <2> SUFFICES ASSUME Reading
                 PROVE  place[Current] = at[Current] /\ Position(place)' = Position(at) /\ Position(at) \in Nat
      OBVIOUS
    <2>1. Current \in 1 .. n + 1 /\ (Current = n + 1 => stage = "header") /\ Position(at) \in Nat
      BY <1>1, ReaderPlace
    <2>2. place[Current] = at[Current]
      BY <1>9, <2>1
    <2>3. stage # "header" => Current \in 1 .. n
      BY <1>4, <2>1
    <2>4. stage # "header" => Behind(sent[Current])' = Behind(sent[Current])
      BY <1>2, <1>4, <1>12, <2>3 DEF Behind, FieldLength, MaskLength, Current
    <2>5. Position(place)' = place[Current'] + (IF stage' = "header" THEN 0 ELSE Behind(sent[Current])')
      BY DEF Position, Current
    <2> QED BY <1>2, <1>12, <2>1, <2>2, <2>4, <2>5 DEF Position
  <1>14. Unread' = Unread \o e
    <2>1. Unread = buf \o stream /\ buf \o stream \in Seq(Byte)
      <3> DEFINE u == buf \o stream
      <3>1. u \in Seq(Byte) /\ Unread = u \o <<>>
        BY <1>1, <1>2, UnreadParts DEF Unread
      <3> HIDE DEF u
      <3>2. u \o <<>> = u
        BY <3>1
      <3> QED BY <3>1, <3>2 DEF u
    <2>2. Unread' = (buf \o stream) \o e
      BY <1>2, <1>3 DEF Unread
    <2> QED BY <2>1, <2>2
  <1>15. ASSUME Reading
         PROVE  Stands(Unread \o e, more, Position(at)) /\ Position(at) + Len(Unread \o e) = Len(more)
    <2>1. /\ Stands(Unread, all, Position(at)) /\ Position(at) + Len(Unread) = Len(all)
          /\ Position(at) \in Nat
      BY <1>2, <1>13, <1>15 DEF Flow
    <2>2. Unread \in Seq(Byte)
      BY <1>1, UnreadParts
    <2> PICK v \in Seq(Byte) : v = Unread
      BY <2>2
    <2> PICK p \in Nat : p = Position(at)
      BY <2>1
    <2> HIDE DEF Byte
    <2>3. Ends(v, all, p)
      BY <2>1 DEF Ends
    <2>4. Ends(v \o e, all \o e, p)
      BY <1>8, <2>3, StandsExtended, Zenon
    <2> QED BY <1>10, <2>4 DEF Ends
  <1>16. Flow(more, place)'
    <2>1. Reading' => Position(place)' = Position(at) /\ Reading
      BY <1>12, <1>13
    <2>2. Reading' => /\ Stands(Unread', more, Position(place)')
                      /\ Position(place)' + Len(Unread') = Len(more)
      BY <1>14, <1>15, <2>1
    <2> QED BY <1>2, <1>9, <1>10, <2>2 DEF Flow
  <1>17. TypeOK'
    BY <1>1, <1>2, <1>3, <1>4 DEF TypeOK
  <1>18. InHand'
    <2>1. Reading /\ stage # "header" => Current \in 1 .. n
      BY <1>4, <1>1, <1>5 DEF InHand, Current
    <2> QED BY <1>1, <1>2, <1>4, <1>12, <2>1 DEF InHand, HeaderOf
  <1>19. Told'
    <2>1. sent' # <<>> /\ Len(flight') <= Len(Bytes[sent'[Len(sent')]])
      <3>1. sent'[Len(sent')] = f /\ Len(sent') # 0
        BY <1>4
      <3>2. sent' # <<>>
        BY <3>1
      <3> QED BY <1>2, <1>3, <3>1, <3>2
    <2>2. Len(returned') <= Len(sent')
      BY <1>2, <1>4, <1>5
    <2> QED BY <1>1, <1>2, <1>12, <2>1, <2>2 DEF Told, Bytes
  <1>20. ResultsMatchFrames'
    <2> SUFFICES ASSUME NEW k \in DOMAIN returned
                 PROVE  returned[k] = IF k > n + 1 THEN End ELSE Meaning(sent'[k])
      BY <1>2, <1>4 DEF ResultsMatchFrames
    <2>1. k \in 1 .. n
      BY <1>1, <1>4, <1>5 DEF TypeOK
    <2>2. returned[k] = Meaning(sent[k])
      BY <1>1, <1>2, <1>4, <2>1 DEF ResultsMatchFrames
    <2> QED BY <1>4, <2>1, <2>2
  <1>21. PongsEcho'
    <2>1. DOMAIN returned \subseteq 1 .. n
      BY <1>1, <1>4, <1>5 DEF TypeOK
    <2>2. Answered' = Answered
      BY <1>2, <1>4, <2>1 DEF Answered
    <2>3. \A k \in Answered : sent'[k] = sent[k]
      BY <1>4, <2>1 DEF Answered
    <2> QED BY <1>1, <1>2, <2>2, <2>3 DEF PongsEcho
  <1> QED BY <1>16, <1>17, <1>18, <1>19, <1>20, <1>21 DEF IInv

-----------------------------------------------------------------------------
(* The handshake, and the steps together.                                  *)

\* At first nothing has been sent.
LEMMA InitFits == Init => IInv
  <1> SUFFICES ASSUME Init PROVE IInv
    OBVIOUS
  <1>1. /\ stage = "request" /\ flight = <<>> /\ stream = <<>> /\ ended = FALSE /\ buf = <<>>
        /\ header = NoHeader /\ replies = <<>> /\ sent = <<>> /\ whole = TRUE /\ returned = <<>>
    BY DEF Init
  <1>2. TypeOK
    <2>1. /\ <<>> \in Seq(Byte) /\ <<>> \in Seq(Seq(Byte)) /\ <<>> \in Seq(Frames)
          /\ <<>> \in Seq(Result) /\ NoHeader \in Header
      BY DEF NoHeader, Header
    <2> QED BY <1>1, <2>1 DEF TypeOK
  <1>3. ~Reading
    BY <1>1 DEF Reading
  <1>4. Len(<<>>) = 0 /\ DOMAIN returned = {}
    BY <1>1
  <1>5. InHand /\ Told
    BY <1>1, <1>3, <1>4 DEF InHand, Told
  <1>6. ResultsMatchFrames
    BY <1>4 DEF ResultsMatchFrames
  <1>7. PongsEcho
    <2>1. Answered = {}
      BY <1>4 DEF Answered
    <2>2. Cardinality(Answered) = 0
      BY <2>1, FS_EmptySet
    <2> QED BY <1>1, <1>4, <2>1, <2>2 DEF PongsEcho
  <1>8. PICK at : Concatenates(FlattenSeq(Sending), at, Sending)
    BY <1>2, SendingIs, FlattenHas DEF TypeOK
  <1>9. FlattenSeq(Sending) \in Seq(Byte)
    BY <1>2, SendingIs, FlattenHas DEF TypeOK
  <1>10. Flow(FlattenSeq(Sending), at)
    BY <1>3, <1>8, <1>9 DEF Flow
  <1> QED BY <1>2, <1>5, <1>6, <1>7, <1>10 DEF IInv

\* Nothing has been sent until the connection is switched.
LEMMA HandshakeKeeps ==
    ASSUME IInv, Handshake \/ Switch \/ HandshakeFailed
    PROVE  IInv'
  <1> PICK all, at : Flow(all, at)
    BY DEF IInv
  <1>1. TypeOK /\ InHand /\ Told /\ ResultsMatchFrames /\ PongsEcho
    BY DEF IInv
  <1>2. /\ stage \in {"request", "reply"} /\ stage' \in {"reply", "header", "closed"}
        /\ UNCHANGED <<flight, stream, ended, buf, header, replies, sent, whole, returned>>
    BY DEF Handshake, Switch, HandshakeFailed
  <1>3. flight = <<>> /\ stream = <<>> /\ buf = <<>> /\ sent = <<>> /\ returned = <<>> /\ whole
    BY <1>1, <1>2 DEF Told
  <1>4. Reading' => stage' = "header"
    BY <1>2 DEF Reading
  <1>5. TypeOK' /\ InHand'
    BY <1>1, <1>2, <1>4 DEF TypeOK, InHand
  <1>6. Len(<<>>) = 0
    OBVIOUS
  <1>7. Told'
    <2>1. Reading' => Wanted' = 2
      BY <1>4 DEF Wanted
    <2>2. Len(buf') = 0 /\ Len(returned') = 0 /\ Len(sent') = 0
      BY <1>2, <1>3, <1>6
    <2> QED BY <1>1, <1>2, <1>3, <2>1, <2>2 DEF Told
  <1>8. ResultsMatchFrames' /\ PongsEcho'
    BY <1>1, <1>2 DEF ResultsMatchFrames, PongsEcho, Answered
  <1>9. Flow(all, at)'
    <2>1. Sending' = Sending /\ all \in Seq(Byte) /\ Concatenates(all, at, Sending)
      BY <1>2 DEF Flow, Sending, Bytes
    <2>2. Len(Sending) = 0
      BY <1>1, <1>3, SendingIs DEF TypeOK
    <2>3. at[1] = 0 /\ Len(all) = 0
      BY <2>1, <2>2 DEF Concatenates, Layout
    <2>4. Unread' = <<>>
      <3>1. Unread' = (<<>> \o <<>>) \o <<>>
        BY <1>2, <1>3 DEF Unread
      <3> QED BY <3>1
    <2>5. Reading' => Position(at)' = 0
      <3>1. Current' = 1
        BY <1>2, <1>3, <1>6 DEF Current
      <3> QED BY <1>4, <2>3, <3>1 DEF Position
    <2>6. Stands(<<>>, all, 0)
      BY <2>3 DEF Stands
    <2> QED BY <1>2, <1>3, <1>6, <2>1, <2>3, <2>4, <2>5, <2>6 DEF Flow
  <1> QED BY <1>1, <1>5, <1>7, <1>8, <1>9 DEF IInv

\* Nothing happens.
LEMMA UnchangedKeeps ==
    ASSUME IInv, UNCHANGED vars
    PROVE  IInv'
  <1> PICK all, at : Flow(all, at)
    BY DEF IInv
  <1>1. Flow(all, at)'
    BY DEF vars, Flow, Reading, Unread, Position, Current, Behind, Sending, Bytes
  <1>2. TypeOK' /\ InHand' /\ Told'
    BY DEF vars, IInv, TypeOK, InHand, HeaderOf, Told, Reading, Current, Wanted, Bytes
  <1>3. ResultsMatchFrames' /\ PongsEcho'
    BY DEF vars, IInv, ResultsMatchFrames, PongsEcho, Answered
  <1> QED BY <1>1, <1>2, <1>3 DEF IInv

\* Every step keeps the invariant.
LEMMA StepKeeps == IInv /\ [Next]_vars => IInv'
  <1> SUFFICES ASSUME IInv, [Next]_vars PROVE IInv'
    OBVIOUS
  <1>1. CASE Handshake \/ Switch \/ HandshakeFailed
    BY <1>1, HandshakeKeeps
  <1>2. CASE RecvSome
    BY <1>2, RecvSomeKeeps
  <1>3. CASE RecvHeader
    BY <1>3, HeaderKeeps
  <1>4. CASE RecvLength
    BY <1>4, LengthKeeps
  <1>5. CASE RecvMask
    BY <1>5, MaskKeeps
  <1>6. CASE RecvPayload
    BY <1>6, PayloadKeeps
  <1>7. CASE RecvEnd
    BY <1>7, EndReached
  <1>8. CASE Arrive
    BY <1>8, ArriveKeeps
  <1>9. CASE HangUp
    BY <1>9, HangUpKeeps
  <1>10. CASE \E f \in Frames : Send(f)
    BY <1>10, SendKeeps
  <1>11. CASE UNCHANGED vars
    BY <1>11, UnchangedKeeps
  <1> QED BY <1>1, <1>2, <1>3, <1>4, <1>5, <1>6, <1>7, <1>8, <1>9, <1>10, <1>11 DEF Next, Reader

-----------------------------------------------------------------------------
(* What the compression function is given, for a message up to a block.    *)

\* What the first two rounds over data leave.
Rounds(ctx, data, len, first, second) ==
    /\ len \in Nat \ {0} /\ first = Round([at |-> 0, ctx |-> ctx], data, len)
    /\ second = Round(first, data, len) /\ second.at >= len
    /\ len = 1 => second = first

\* The loop stops after at most two rounds if there is nothing left then.
LEMMA TwoRounds ==
    ASSUME NEW ctx, NEW data, NEW len, NEW first, NEW second,
           Rounds(ctx, data, len, first, second)
    PROVE  sha1_update(ctx, data, len) = second.ctx
  <1> DEFINE start == [at |-> 0, ctx |-> ctx]
             g == [k \in 0 .. len |-> IF k = 0 THEN start ELSE IF k = 1 THEN first ELSE second]
             F == CHOOSE r : r = [k \in 0 .. len |-> IF k = 0 THEN start ELSE Round(r[k - 1], data, len)]
  <1>0. /\ len \in Nat \ {0} /\ first = Round(start, data, len)
        /\ second = Round(first, data, len) /\ second.at >= len /\ (len = 1 => second = first)
    BY Zenon DEF Rounds
  <1>1. Round(second, data, len) = second
    BY <1>0, Zenon DEF Round
  <1>2. g = [k \in 0 .. len |-> IF k = 0 THEN start ELSE Round(g[k - 1], data, len)]
    <2> SUFFICES ASSUME NEW k \in 0 .. len
                 PROVE  g[k] = IF k = 0 THEN start ELSE Round(g[k - 1], data, len)
      <3> HIDE DEF start
      <3> QED OBVIOUS
    <2> HIDE DEF start
    <2>1. CASE k = 0
      BY <2>1
    <2>2. CASE k = 1
      BY <1>0, <2>2
    <2>3. CASE k = 2
      BY <1>0, <2>3
    <2>4. CASE k > 2
      <3>1. g[k - 1] = second /\ g[k] = second
        BY <1>0, <2>4
      <3> QED BY <1>1, <2>4, <3>1
    <2> QED BY <1>0, <2>1, <2>2, <2>3, <2>4
  <1> HIDE DEF g
  <1>3. F = [k \in 0 .. len |-> IF k = 0 THEN start ELSE Round(F[k - 1], data, len)]
    BY <1>2
  <1>4. sha1_update(ctx, data, len) = F[len].ctx
    BY DEF sha1_update
  <1> HIDE DEF F
  <1>5. F[0] = start
    <2> HIDE DEF start
    <2> QED BY <1>0, <1>3
  <1>6. \A k \in 1 .. len : F[k] = Round(F[k - 1], data, len)
    <2> HIDE DEF start
    <2> QED BY <1>0, <1>3
  <1>7. F[1] = first
    BY <1>0, <1>5, <1>6
  <1> DEFINE S == {k \in Nat : k + 2 \in 0 .. len => F[k + 2] = second}
  <1>8. 0 \in S
    BY <1>0, <1>6, <1>7
  <1>9. ASSUME NEW k \in Nat, k \in S PROVE k + 1 \in S
    <2>1. CASE k + 1 + 2 \in 0 .. len
      <3>1. F[(k + 1) + 2] = Round(F[k + 2], data, len)
        BY <1>0, <1>6, <2>1
      <3>2. F[k + 2] = second
        BY <1>0, <1>9, <2>1
      <3> QED BY <1>1, <3>1, <3>2
    <2> QED BY <2>1
  <1>10. \A k \in Nat : k \in S
    <2> HIDE DEF S
    <2> QED BY <1>8, <1>9, Induction, Zenon
  <1>11. CASE len = 1
    BY <1>0, <1>4, <1>7, <1>11
  <1>12. CASE len # 1
    <2>1. len - 2 \in Nat /\ (len - 2) + 2 = len
      BY <1>0, <1>12
    <2> QED BY <1>4, <1>10, <2>1
  <1> QED BY <1>11, <1>12

\* The fields of SHA1_CTX.
Context(block, offset, done) == [block |-> block, offset |-> offset, done |-> done]

\* b is the block after n bytes of data, which has l, from position at, were
\* copied behind offset.
Copies(b, block, offset, data, at, n, l) ==
    /\ offset \in 0 .. 63 /\ DOMAIN data = 1 .. l /\ at \in Nat /\ n \in Nat /\ l \in Nat
    /\ b = [k \in 1 .. BLOCK |-> b[k]]
    /\ \A k \in 1 .. BLOCK :
         b[k] = IF ~(offset < k /\ k <= offset + n) THEN block[k]
                ELSE IF at + k - offset <= l THEN data[at + k - offset] ELSE Unknown

\* That is what memcpy leaves.
LEMMA CopiedIs ==
    ASSUME NEW b, NEW block, NEW offset, NEW data, NEW at, NEW n, NEW l, NEW done,
           Copies(b, block, offset, data, at, n, l)
    PROVE  b = Copied(Context(block, offset, done), data, at, n)
  <1>1. PICK c : c = Context(block, offset, done)
    OBVIOUS
  <1>2. c.block = block /\ c.offset = offset
    BY <1>1 DEF Context
  <1>3. DOMAIN data = 1 .. l /\ b = [k \in 1 .. BLOCK |-> b[k]]
    BY DEF Copies
  <1>4. Copied(c, data, at, n)
          = [k \in 1 .. BLOCK |-> IF k \notin offset + 1 .. offset + n THEN block[k]
                              ELSE IF at + k - offset \in 1 .. l THEN data[at + k - offset] ELSE Unknown]
    BY <1>2, <1>3, Zenon DEF Copied
  <1>5. ASSUME NEW k \in 1 .. BLOCK
        PROVE  /\ k \notin offset + 1 .. offset + n <=> ~(offset < k /\ k <= offset + n)
               /\ offset < k => (at + k - offset \in 1 .. l <=> at + k - offset <= l)
    <2>1. offset \in 0 .. 63 /\ at \in Nat /\ n \in Nat /\ l \in Nat
      BY Zenon DEF Copies
    <2> QED BY <2>1
  <1>6. ASSUME NEW k \in 1 .. BLOCK
        PROVE  b[k] = IF k \notin offset + 1 .. offset + n THEN block[k]
                      ELSE IF at + k - offset \in 1 .. l THEN data[at + k - offset] ELSE Unknown
    BY <1>5 DEF Copies
  <1> QED BY <1>1, <1>3, <1>4, <1>6

\* The numbers of a round: n bytes of len, from position at, go to the block
\* from offset to o, and up to position next.
Takes(n, len, at, next, offset, o) ==
    /\ at \in Nat /\ len \in Nat /\ at < len /\ offset \in 0 .. 63 /\ n = Lesser(BLOCK - offset, len)
    /\ o = offset + n /\ next = at + n

\* The block is done if it is full.
After(b, offset, done) ==
    IF offset = BLOCK THEN Context(b, 0, Append(done, b)) ELSE Context(b, offset, done)

\* Both for some n.
Moves(b, block, offset, o, data, at, next, l, len) ==
    \E n : Copies(b, block, offset, data, at, n, l) /\ Takes(n, len, at, next, offset, o)

\* One round, and all of them.
Goes(at, ctx, data, len, next, result) ==
    Round([at |-> at, ctx |-> ctx], data, len) = [at |-> next, ctx |-> result]

\* A round is a copy, after which the block may be done.
LEMMA RoundTaken ==
    ASSUME NEW b, NEW block, NEW offset, NEW o, NEW data, NEW at, NEW next, NEW l, NEW len, NEW done,
           Moves(b, block, offset, o, data, at, next, l, len)
    PROVE  Goes(at, Context(block, offset, done), data, len, next, After(b, o, done))
  <1> PICK n : Copies(b, block, offset, data, at, n, l) /\ Takes(n, len, at, next, offset, o)
    BY DEF Moves
  <1>1. b = Copied(Context(block, offset, done), data, at, n)
    BY CopiedIs
  <1>2. PICK c : c = Context(block, offset, done)
    OBVIOUS
  <1>3. c.block = block /\ c.offset = offset /\ c.done = done
    BY <1>2 DEF Context
  <1>4. PICK s : s = [at |-> at, ctx |-> c]
    OBVIOUS
  <1>5. s.at = at /\ s.ctx = c /\ ~(at >= len)
    BY <1>4 DEF Takes
  <1>6. n = Lesser(BLOCK - offset, len) /\ o = offset + n /\ next = at + n
    BY DEF Takes
  <1>7. Round(s, data, len)
          = [at |-> next, ctx |-> [block |-> b, offset |-> IF o = BLOCK THEN 0 ELSE o,
                                   done |-> IF o = BLOCK THEN Append(done, b) ELSE done]]
    BY <1>1, <1>2, <1>3, <1>5, <1>6, Zenon DEF Round
  <1> QED BY <1>2, <1>4, <1>7 DEF Context, After, Goes

Updates(ctx, data, len, result) == sha1_update(ctx, data, len) = result

\* One round is enough.
LEMMA OneRound ==
    ASSUME NEW b, NEW block, NEW offset, NEW o, NEW data, NEW l, NEW len, NEW done,
           Moves(b, block, offset, o, data, 0, len, l, len)
    PROVE  Updates(Context(block, offset, done), data, len, After(b, o, done))
  <1> PICK s : s = [at |-> len, ctx |-> After(b, o, done)]
    OBVIOUS
  <1>1. s.at = len /\ s.ctx = After(b, o, done)
    BY Zenon
  <1>2. Goes(0, Context(block, offset, done), data, len, len, After(b, o, done))
    BY RoundTaken, Zenon
  <1>3. s = Round([at |-> 0, ctx |-> Context(block, offset, done)], data, len)
    BY <1>2, Zenon DEF Goes
  <1>4. len \in Nat \ {0} /\ len >= len
    BY DEF Moves, Takes
  <1>5. s = Round(s, data, len)
    BY <1>1, <1>4, Zenon DEF Round
  <1>6. Rounds(Context(block, offset, done), data, len, s, s)
    BY <1>1, <1>3, <1>4, <1>5, Zenon DEF Rounds
  <1> QED BY <1>1, <1>6, TwoRounds, Zenon DEF Updates

\* Two rounds: the first fills the block.
LEMMA TwoMoves ==
    ASSUME NEW b, NEW block, NEW offset, NEW data, NEW l, NEW len, NEW done, NEW m, NEW c, NEW o, NEW next,
           Moves(b, block, offset, BLOCK, data, 0, m, l, len), Moves(c, b, 0, o, data, m, next, l, len),
           next >= len
    PROVE  Updates(Context(block, offset, done), data, len, After(c, o, Append(done, b)))
  <1>1. After(b, BLOCK, done) = Context(b, 0, Append(done, b))
    BY DEF After
  <1> PICK s : s = [at |-> m, ctx |-> Context(b, 0, Append(done, b))]
    OBVIOUS
  <1> PICK t : t = [at |-> next, ctx |-> After(c, o, Append(done, b))]
    OBVIOUS
  <1>2. t.at = next /\ t.ctx = After(c, o, Append(done, b))
    BY Zenon
  <1>3. Goes(0, Context(block, offset, done), data, len, m, Context(b, 0, Append(done, b)))
    BY <1>1, RoundTaken, Zenon
  <1>4. s = Round([at |-> 0, ctx |-> Context(block, offset, done)], data, len)
    BY <1>3, Zenon DEF Goes
  <1>5. Goes(m, Context(b, 0, Append(done, b)), data, len, next, After(c, o, Append(done, b)))
    BY RoundTaken, Zenon
  <1>6. t = Round(s, data, len)
    BY <1>5, Zenon DEF Goes
  <1>7. len \in Nat \ {0} /\ len # 1
    <2>1. PICK n1 : Takes(n1, len, 0, m, offset, BLOCK)
      BY DEF Moves
    <2>2. PICK n2 : Takes(n2, len, m, next, 0, o)
      BY DEF Moves
    <2>3. n1 = BLOCK - offset /\ m = n1 /\ offset < BLOCK /\ offset \in Nat /\ m < len /\ len \in Nat
      BY <2>1, <2>2 DEF Takes, Lesser, BLOCK
    <2> QED BY <2>3 DEF BLOCK
  <1>8. Rounds(Context(block, offset, done), data, len, s, t)
    BY <1>2, <1>4, <1>6, <1>7, Zenon DEF Rounds
  <1> QED BY <1>2, <1>8, TwoRounds, Zenon DEF Updates

\* Byte k of the blocks for n bytes of data when all of it has total bytes.
PaddedByte(n, total, k) ==
    IF k <= n THEN k ELSE IF k = n + 1 THEN EndMark
    ELSE IF k <= total - 8 THEN Zero ELSE Count(k - total + 7)

\* What the block has of n bytes of data.
Begun(n) == [k \in 1 .. BLOCK |-> IF k <= n THEN k ELSE Unknown]

\* A message whose bytes are their positions.
Numbered(n) == [k \in 1 .. n |-> k]

\* sha1_update with the message: one round.
LEMMA MessageTaken ==
    ASSUME NEW n \in 1 .. BLOCK
    PROVE  sha1_update(sha1_init, Numbered(n), n) = After(Begun(n), n, <<>>)
  <1> PICK zero \in Nat : zero = 0
    OBVIOUS
  <1> PICK unknown : unknown = [k \in 1 .. BLOCK |-> Unknown]
    OBVIOUS
  <1>1. sha1_init = Context(unknown, 0, <<>>)
    BY DEF sha1_init, Context
  <1>2. Takes(n, n, zero, n, zero, n)
    BY DEF Takes, Lesser, BLOCK
  <1>3. DOMAIN Numbered(n) = 1 .. n /\ \A k \in 1 .. n : Numbered(n)[k] = k
    BY DEF Numbered
  <1>4. Copies(Begun(n), unknown, zero, Numbered(n), zero, n, n)
    <2>1. \A k \in 1 .. BLOCK : unknown[k] = Unknown /\ Begun(n)[k] = IF k <= n THEN k ELSE Unknown
      BY Zenon DEF Begun
    <2>2. Begun(n) = [k \in 1 .. BLOCK |-> Begun(n)[k]]
      BY DEF Begun
    <2>3. ASSUME NEW k \in 1 .. BLOCK
          PROVE  Begun(n)[k] = IF ~(zero < k /\ k <= zero + n) THEN unknown[k]
                               ELSE IF zero + k - zero <= n THEN Numbered(n)[zero + k - zero]
                               ELSE Unknown
      <3>1. zero + k - zero = k /\ zero < k /\ zero + n = n
        OBVIOUS
      <3>2. CASE k <= n
        <4>1. k \in 1 .. n
          BY <3>2
        <4> QED BY <1>3, <2>1, <3>1, <3>2, <4>1, Zenon
      <3>3. CASE ~(k <= n)
        BY <2>1, <3>1, <3>3, Zenon
      <3> QED BY <3>2, <3>3
    <2>4. zero \in 0 .. 63 /\ n \in Nat
      OBVIOUS
    <2> QED BY <1>3, <2>2, <2>3, <2>4 DEF Copies
  <1>5. Moves(Begun(n), unknown, 0, n, Numbered(n), 0, n, n, n)
    BY <1>2, <1>4, Zenon DEF Moves
  <1>6. Updates(Context(unknown, 0, <<>>), Numbered(n), n, After(Begun(n), n, <<>>))
    BY <1>5, OneRound, Zenon
  <1> QED BY <1>1, <1>6, Zenon DEF Updates

\* The padding: 0x80 and zeros.
Padding(len) == [k \in 1 .. len |-> IF k = 1 THEN EndMark ELSE Zero]

\* The bytes of the first block and of the second.
First(n, total) == [k \in 1 .. BLOCK |-> PaddedByte(n, total, k)]
Second(n) == [k \in 1 .. BLOCK |-> PaddedByte(n, 2 * BLOCK, BLOCK + k)]

\* What is in the block when sha1_final writes the count, and which block is
\* done before.
Filled(ctx, done, last) == ctx.done = done /\ \A k \in 1 .. 56 : ctx.block[k] = last[k]

\* The padding fits the block.
LEMMA PaddedAtOnce ==
    ASSUME NEW n \in 1 .. 55
    PROVE  \E ctx : /\ Updates(After(Begun(n), n, <<>>), Padding(56 - n), 56 - n, ctx)
                    /\ Filled(ctx, <<>>, First(n, BLOCK))
  <1> PICK len \in Nat : len = 56 - n
    OBVIOUS
  <1> PICK zero \in Nat : zero = 0
    OBVIOUS
  <1> PICK b : b = [k \in 1 .. BLOCK |-> IF k <= n THEN k ELSE IF k = n + 1 THEN EndMark
                                       ELSE IF k <= 56 THEN Zero ELSE Unknown]
    OBVIOUS
  <1>1. \A k \in 1 .. BLOCK : Begun(n)[k] = IF k <= n THEN k ELSE Unknown
    BY Zenon DEF Begun
  <1>2. DOMAIN Padding(len) = 1 .. len
        /\ \A k \in 1 .. len : Padding(len)[k] = IF k = 1 THEN EndMark ELSE Zero
    BY DEF Padding
  <1>3. Takes(len, len, zero, len, n, 56)
    BY DEF Takes, Lesser, BLOCK
  <1>4. Copies(b, Begun(n), n, Padding(len), zero, len, len)
    <2>1. b = [k \in 1 .. BLOCK |-> b[k]]
      OBVIOUS
    <2>2. ASSUME NEW k \in 1 .. BLOCK
          PROVE  b[k] = IF ~(n < k /\ k <= n + len) THEN Begun(n)[k]
                        ELSE IF zero + k - n <= len THEN Padding(len)[zero + k - n] ELSE Unknown
      <3>1. n + len = 56 /\ zero + k - n = k - n
        OBVIOUS
      <3>2. CASE n < k /\ k <= 56
        <4>1. k - n \in 1 .. len /\ (k - n = 1 <=> k = n + 1)
          BY <3>1, <3>2
        <4>2. b[k] = IF k = n + 1 THEN EndMark ELSE Zero
          BY <3>2
        <4>3. Padding(len)[k - n] = IF k - n = 1 THEN EndMark ELSE Zero
          BY <1>2, <4>1, Zenon
        <4>4. k - n <= len
          BY <4>1
        <4> QED BY <3>1, <3>2, <4>1, <4>2, <4>3, <4>4, Zenon
      <3>3. CASE ~(n < k /\ k <= 56)
        <4>1. b[k] = IF k <= n THEN k ELSE Unknown
          BY <3>3
        <4> QED BY <1>1, <3>1, <3>3, <4>1, Zenon
      <3> QED BY <3>2, <3>3
    <2>3. n \in 0 .. 63
      OBVIOUS
    <2> QED BY <1>2, <2>1, <2>2, <2>3 DEF Copies
  <1>5. Moves(b, Begun(n), n, 56, Padding(len), 0, len, len, len)
    BY <1>3, <1>4, Zenon DEF Moves
  <1>6. Updates(Context(Begun(n), n, <<>>), Padding(len), len, After(b, 56, <<>>))
    BY <1>5, OneRound, Zenon
  <1>7. After(Begun(n), n, <<>>) = Context(Begun(n), n, <<>>) /\ After(b, 56, <<>>) = Context(b, 56, <<>>)
    BY DEF After, BLOCK
  <1>8. Context(b, 56, <<>>).done = <<>> /\ Context(b, 56, <<>>).block = b
    BY DEF Context
  <1>9. ASSUME NEW k \in 1 .. 56 PROVE b[k] = First(n, BLOCK)[k]
    BY DEF First, PaddedByte, BLOCK
  <1>10. Filled(Context(b, 56, <<>>), <<>>, First(n, BLOCK))
    BY <1>8, <1>9, Zenon DEF Filled
  <1>11. Updates(After(Begun(n), n, <<>>), Padding(len), len, Context(b, 56, <<>>))
    BY <1>6, <1>7, Zenon
  <1> QED BY <1>10, <1>11, Zenon

\* There is a whole block of the message: the padding fits the next.
LEMMA PaddedAfterBlock ==
    \E ctx : /\ Updates(After(Begun(BLOCK), BLOCK, <<>>), Padding(56), 56, ctx)
            /\ Filled(ctx, <<First(BLOCK, 2 * BLOCK)>>, Second(BLOCK))
  <1> PICK len \in Nat : len = 56
    OBVIOUS
  <1> PICK zero \in Nat : zero = 0
    OBVIOUS
  <1> PICK b : b = [k \in 1 .. BLOCK |-> IF k = 1 THEN EndMark ELSE IF k <= 56 THEN Zero ELSE k]
    OBVIOUS
  <1>1. \A k \in 1 .. BLOCK : Begun(BLOCK)[k] = k
    BY DEF Begun
  <1>2. DOMAIN Padding(len) = 1 .. len
        /\ \A k \in 1 .. len : Padding(len)[k] = IF k = 1 THEN EndMark ELSE Zero
    BY DEF Padding
  <1>3. Takes(len, len, zero, len, zero, 56)
    BY DEF Takes, Lesser, BLOCK
  <1>4. Copies(b, Begun(BLOCK), zero, Padding(len), zero, len, len)
    <2>1. b = [k \in 1 .. BLOCK |-> b[k]]
      OBVIOUS
    <2>2. ASSUME NEW k \in 1 .. BLOCK
          PROVE  b[k] = IF ~(zero < k /\ k <= zero + len) THEN Begun(BLOCK)[k]
                        ELSE IF zero + k - zero <= len THEN Padding(len)[zero + k - zero] ELSE Unknown
      <3>1. zero + len = len /\ zero + k - zero = k /\ zero < k
        OBVIOUS
      <3>2. CASE k <= len
        <4>1. k \in 1 .. len
          BY <3>2
        <4>2. b[k] = IF k = 1 THEN EndMark ELSE Zero
          BY <3>2
        <4> QED BY <1>2, <3>1, <3>2, <4>1, <4>2, Zenon
      <3>3. CASE ~(k <= len)
        <4>1. b[k] = k
          BY <3>3
        <4> QED BY <1>1, <3>1, <3>3, <4>1, Zenon
      <3> QED BY <3>2, <3>3
    <2>3. zero \in 0 .. 63
      OBVIOUS
    <2> QED BY <1>2, <2>1, <2>2, <2>3 DEF Copies
  <1>5. Moves(b, Begun(BLOCK), 0, 56, Padding(len), 0, len, len, len)
    BY <1>3, <1>4, Zenon DEF Moves
  <1>6. Updates(Context(Begun(BLOCK), 0, <<Begun(BLOCK)>>), Padding(len), len, After(b, 56, <<Begun(BLOCK)>>))
    BY <1>5, OneRound, Zenon
  <1>7. /\ After(Begun(BLOCK), BLOCK, <<>>) = Context(Begun(BLOCK), 0, <<Begun(BLOCK)>>)
        /\ After(b, 56, <<Begun(BLOCK)>>) = Context(b, 56, <<Begun(BLOCK)>>)
    BY DEF After, BLOCK
  <1>8. /\ Context(b, 56, <<Begun(BLOCK)>>).done = <<Begun(BLOCK)>>
        /\ Context(b, 56, <<Begun(BLOCK)>>).block = b
    BY DEF Context
  <1>9. Begun(BLOCK) = First(BLOCK, 2 * BLOCK)
    BY DEF Begun, First, PaddedByte
  <1>10. ASSUME NEW k \in 1 .. 56 PROVE b[k] = Second(BLOCK)[k]
    BY DEF Second, PaddedByte, BLOCK
  <1>11. Filled(Context(b, 56, <<Begun(BLOCK)>>), <<First(BLOCK, 2 * BLOCK)>>, Second(BLOCK))
    BY <1>8, <1>9, <1>10, Zenon DEF Filled
  <1>12. Updates(After(Begun(BLOCK), BLOCK, <<>>), Padding(len), len, Context(b, 56, <<Begun(BLOCK)>>))
    BY <1>6, <1>7, Zenon
  <1> QED BY <1>11, <1>12, Zenon

\* The padding fills the block and goes on in the next; the second round takes
\* more than is left, and what it takes too much is overwritten by the count.
LEMMA PaddedInTwo ==
    ASSUME NEW n \in 57 .. 63
    PROVE  \E ctx : /\ Updates(After(Begun(n), n, <<>>), Padding(120 - n), 120 - n, ctx)
                    /\ Filled(ctx, <<First(n, 2 * BLOCK)>>, Second(n))
  <1> PICK len \in Nat : len = 120 - n
    OBVIOUS
  <1> PICK m \in Nat : m = BLOCK - n
    BY DEF BLOCK
  <1> PICK zero \in Nat : zero = 0
    OBVIOUS
  <1> PICK b : b = First(n, 2 * BLOCK)
    OBVIOUS
  <1> PICK c : c = [k \in 1 .. BLOCK |-> IF k <= 56 THEN Zero ELSE IF k <= len THEN Unknown ELSE b[k]]
    OBVIOUS
  <1>1. /\ \A k \in 1 .. BLOCK : Begun(n)[k] = IF k <= n THEN k ELSE Unknown
        /\ \A k \in 1 .. BLOCK : b[k] = IF k <= n THEN k ELSE IF k = n + 1 THEN EndMark ELSE Zero
    <2>1. \A k \in 1 .. BLOCK : PaddedByte(n, 2 * BLOCK, k) = IF k <= n THEN k ELSE IF k = n + 1 THEN EndMark ELSE Zero
      BY DEF PaddedByte, BLOCK
    <2> QED BY <2>1, Zenon DEF Begun, First
  <1>2. DOMAIN Padding(len) = 1 .. len
        /\ \A k \in 1 .. len : Padding(len)[k] = IF k = 1 THEN EndMark ELSE Zero
    BY DEF Padding
  <1>3. Takes(m, len, zero, m, n, BLOCK) /\ Takes(len, len, m, m + len, zero, len)
    BY DEF Takes, Lesser, BLOCK
  <1>4. Copies(b, Begun(n), n, Padding(len), zero, m, len)
    <2>1. b = [k \in 1 .. BLOCK |-> b[k]]
      BY DEF First
    <2>2. ASSUME NEW k \in 1 .. BLOCK
          PROVE  b[k] = IF ~(n < k /\ k <= n + m) THEN Begun(n)[k]
                        ELSE IF zero + k - n <= len THEN Padding(len)[zero + k - n] ELSE Unknown
      <3>1. n + m = BLOCK /\ zero + k - n = k - n /\ k <= BLOCK
        BY DEF BLOCK
      <3>2. CASE n < k
        <4>1. k - n \in 1 .. len /\ (k - n = 1 <=> k = n + 1) /\ k - n <= len /\ ~(k <= n)
          BY <3>1, <3>2 DEF BLOCK
        <4>2. Padding(len)[k - n] = IF k - n = 1 THEN EndMark ELSE Zero
          BY <1>2, <4>1, Zenon
        <4> QED BY <1>1, <3>1, <3>2, <4>1, <4>2, Zenon
      <3>3. CASE ~(n < k)
        <4>1. k <= n
          BY <3>3
        <4> QED BY <1>1, <3>3, <4>1, Zenon
      <3> QED BY <3>2, <3>3
    <2>3. n \in 0 .. 63 /\ n \in Nat
      OBVIOUS
    <2> QED BY <1>2, <2>1, <2>2, <2>3 DEF Copies
  <1>5. Copies(c, b, zero, Padding(len), m, len, len)
    <2>1. c = [k \in 1 .. BLOCK |-> c[k]]
      OBVIOUS
    <2>2. ASSUME NEW k \in 1 .. BLOCK
          PROVE  c[k] = IF ~(zero < k /\ k <= zero + len) THEN b[k]
                        ELSE IF m + k - zero <= len THEN Padding(len)[m + k - zero] ELSE Unknown
      <3>1. zero + len = len /\ m + k - zero = m + k /\ zero < k /\ (m + k <= len <=> k <= 56)
            /\ len > 56
        BY DEF BLOCK
      <3>2. c[k] = IF k <= 56 THEN Zero ELSE IF k <= len THEN Unknown ELSE b[k]
        BY Zenon
      <3>3. CASE k <= 56
        <4>1. m + k \in 1 .. len /\ m + k # 1 /\ k <= len
          BY <3>1, <3>3 DEF BLOCK
        <4>2. Padding(len)[m + k] = Zero
          BY <1>2, <4>1, Zenon
        <4> QED BY <3>1, <3>2, <3>3, <4>1, <4>2, Zenon
      <3>4. CASE ~(k <= 56)
        BY <3>1, <3>2, <3>4, Zenon
      <3> QED BY <3>3, <3>4
    <2>3. zero \in 0 .. 63
      OBVIOUS
    <2> QED BY <1>2, <2>1, <2>2, <2>3 DEF Copies
  <1>6. Moves(b, Begun(n), n, BLOCK, Padding(len), 0, m, len, len)
    BY <1>3, <1>4, Zenon DEF Moves
  <1>7. Moves(c, b, 0, len, Padding(len), m, m + len, len, len)
    BY <1>3, <1>5, Zenon DEF Moves
  <1>8. m + len >= len
    OBVIOUS
  <1>9. Updates(Context(Begun(n), n, <<>>), Padding(len), len, After(c, len, Append(<<>>, b)))
    BY <1>6, <1>7, <1>8, TwoMoves, ZenonT(60)
  <1>10. /\ After(Begun(n), n, <<>>) = Context(Begun(n), n, <<>>)
         /\ After(c, len, Append(<<>>, b)) = Context(c, len, <<b>>)
    <2>1. len # BLOCK /\ n # BLOCK /\ Append(<<>>, b) = <<b>>
      BY DEF BLOCK
    <2> QED BY <2>1, Zenon DEF After
  <1>11. Context(c, len, <<b>>).done = <<b>> /\ Context(c, len, <<b>>).block = c
    BY DEF Context
  <1>12. ASSUME NEW k \in 1 .. 56 PROVE c[k] = Second(n)[k]
    BY DEF Second, PaddedByte, BLOCK
  <1>13. Filled(Context(c, len, <<b>>), <<First(n, 2 * BLOCK)>>, Second(n))
    BY <1>11, <1>12, ZenonT(60) DEF Filled
  <1>14. Updates(After(Begun(n), n, <<>>), Padding(len), len, Context(c, len, <<b>>))
    BY <1>9, <1>10, Zenon
  <1> QED BY <1>13, <1>14, Zenon

\* The blocks of a message that fits a block.
BlocksFor(n) == IF n < 56 THEN <<First(n, BLOCK)>> ELSE <<First(n, 2 * BLOCK), Second(n)>>

\* The padding depends on how much room the block has.
LEMMA BlocksAre ==
    ASSUME NEW n \in 1 .. BLOCK, n # 56
    PROVE  Blocks(Numbered(n)) = BlocksFor(n)
  <1> PICK first : first = After(Begun(n), n, <<>>)
    OBVIOUS
  <1> PICK len : len = PadLength(first.offset)
    OBVIOUS
  <1> PICK ctx : ctx = sha1_update(first, Padding(len), len)
    OBVIOUS
  <1> DEFINE done(c, k) == IF k > 56 THEN Count(k - 57) ELSE c.block[k]
  <1>1. Len(Numbered(n)) = n
    BY DEF Numbered
  <1>2. Blocks(Numbered(n)) = Append(ctx.done, [k \in 1 .. BLOCK |-> done(ctx, k)])
    <2>1. sha1_update(sha1_init, Numbered(n), Len(Numbered(n))) = first
      BY <1>1, MessageTaken
    <2> QED BY <2>1, Zenon DEF Blocks, Padding
  <1>3. first.offset = IF n = BLOCK THEN 0 ELSE n
    BY DEF After, Context
  <1>4. CASE n < 56
    <2>1. len = 56 - n
      BY <1>3, <1>4 DEF PadLength, BLOCK
    <2>2. n \in 1 .. 55
      BY <1>4
    <2>3. Filled(ctx, <<>>, First(n, BLOCK))
      BY <2>1, <2>2, PaddedAtOnce, Zenon DEF Updates
    <2>4. ASSUME NEW k \in 1 .. BLOCK PROVE done(ctx, k) = PaddedByte(n, BLOCK, k)
      <3>1. CASE k <= 56
        <4>1. k \in 1 .. 56 /\ ~(k > 56)
          BY <3>1
        <4> QED BY <2>3, <4>1, Zenon DEF Filled, First
      <3>2. CASE k > 56
        <4>1. ~(k <= n) /\ k # n + 1 /\ ~(k <= BLOCK - 8)
          BY <1>4, <3>2 DEF BLOCK
        <4>2. Count(k - 57) = Count(k - BLOCK + 7)
          BY DEF Count, BLOCK
        <4> QED BY <3>2, <4>1, <4>2 DEF PaddedByte
      <3> QED BY <3>1, <3>2
    <2>5. [k \in 1 .. BLOCK |-> done(ctx, k)] = First(n, BLOCK)
      BY <2>4, Zenon DEF First
    <2>6. ctx.done = <<>>
      BY <2>3, Zenon DEF Filled
    <2>7. Append(<<>>, First(n, BLOCK)) = <<First(n, BLOCK)>>
      OBVIOUS
    <2> QED BY <1>2, <1>4, <2>5, <2>6, <2>7, Zenon DEF BlocksFor
  <1>5. CASE n > 56
    <2>1. Filled(ctx, <<First(n, 2 * BLOCK)>>, Second(n))
      <3>1. CASE n = BLOCK
        <4>1. len = 56
          BY <1>3, <3>1 DEF PadLength
        <4> QED BY <3>1, <4>1, PaddedAfterBlock, Zenon DEF Updates
      <3>2. CASE n # BLOCK
        <4>1. len = 120 - n /\ n \in 57 .. 63
          BY <1>3, <1>5, <3>2 DEF PadLength, BLOCK
        <4> QED BY <4>1, PaddedInTwo, Zenon DEF Updates
      <3> QED BY <3>1, <3>2
    <2>2. ASSUME NEW k \in 1 .. BLOCK PROVE done(ctx, k) = PaddedByte(n, 2 * BLOCK, BLOCK + k)
      <3>1. CASE k <= 56
        <4>1. k \in 1 .. 56 /\ ~(k > 56)
          BY <3>1
        <4> QED BY <2>1, <4>1, Zenon DEF Filled, Second
      <3>2. CASE k > 56
        <4>1. PICK p, t : p = BLOCK + k /\ t = 2 * BLOCK
          OBVIOUS
        <4>2. ~(p <= n) /\ p # n + 1 /\ ~(p <= t - 8) /\ p - t + 7 = k - 57
          BY <3>2, <4>1 DEF BLOCK
        <4>3. PaddedByte(n, t, p) = Count(k - 57)
          BY <4>2, Zenon DEF PaddedByte
        <4> QED BY <3>2, <4>1, <4>3, Zenon
      <3> QED BY <3>1, <3>2
    <2>3. [k \in 1 .. BLOCK |-> done(ctx, k)] = Second(n)
      BY <2>2, Zenon DEF Second
    <2>4. ctx.done = <<First(n, 2 * BLOCK)>>
      BY <2>1, Zenon DEF Filled
    <2>5. Append(<<First(n, 2 * BLOCK)>>, Second(n)) = <<First(n, 2 * BLOCK), Second(n)>> /\ ~(n < 56)
      <3>1. Append(<<First(n, 2 * BLOCK)>>, Second(n)) = <<First(n, 2 * BLOCK), Second(n)>>
        BY AppendTwo, Zenon
      <3> QED BY <1>5, <3>1
    <2> QED BY <1>2, <2>3, <2>4, <2>5, Zenon DEF BlocksFor
  <1> QED BY <1>4, <1>5

\* What SHA-1 prescribes, by the positions in it.
Total(n) == IF n < 56 THEN BLOCK ELSE 2 * BLOCK
Row(n, total) == [k \in 1 .. total |-> PaddedByte(n, total, k)]

\* Message, mark, zeros and count, one after the other.
LEMMA PaddedIs ==
    ASSUME NEW n \in 1 .. BLOCK, n # 56
    PROVE  Padded(Numbered(n)) = Row(n, Total(n))
  <1> PICK total : total = Total(n)
    OBVIOUS
  <1> DEFINE z == CHOOSE j \in 0 .. BLOCK - 1 : (Len(Numbered(n)) + 1 + j + 8) % BLOCK = 0
             mark == <<EndMark>>
             zeros == [k \in 1 .. z |-> Zero]
             count == [k \in 1 .. 8 |-> Count(k - 1)]
  <1>0. total \in Nat /\ n \in Nat /\ total = IF n < 56 THEN BLOCK ELSE 2 * BLOCK
    BY DEF Total, BLOCK
  <1>1. z = total - n - 9
    <2>1. Len(Numbered(n)) = n
      BY DEF Numbered
    <2>2. total - n - 9 \in 0 .. 63 /\ (n + 1 + (total - n - 9) + 8) % BLOCK = 0
      BY <1>0 DEF BLOCK
    <2>3. \A j \in 0 .. 63 : (n + 1 + j + 8) % BLOCK = 0 => j = total - n - 9
      BY <1>0 DEF BLOCK
    <2> QED BY <2>1, <2>2, <2>3 DEF BLOCK
  <1> HIDE DEF z
  <1>2. z \in Nat /\ total = n + z + 9
    BY <1>0, <1>1 DEF BLOCK
  <1>3. /\ Numbered(n) \in Seq(Int) /\ Len(Numbered(n)) = n /\ \A k \in 1 .. n : Numbered(n)[k] = k
    BY DEF Numbered
  <1>4. mark \in Seq(Int) /\ Len(mark) = 1 /\ mark[1] = EndMark
    BY DEF EndMark
  <1>5. zeros \in Seq(Int) /\ Len(zeros) = z /\ \A k \in 1 .. z : zeros[k] = Zero
    BY <1>2 DEF Zero
  <1>6. count \in Seq(Int) /\ Len(count) = 8 /\ \A k \in 1 .. 8 : count[k] = Count(k - 1)
    BY DEF Count
  <1>7. Padded(Numbered(n)) = Numbered(n) \o mark \o zeros \o count
    BY Zenon DEF Padded, z
  <1> HIDE DEF mark, zeros, count
  <1>a. PICK a : a = Numbered(n) \o mark
    OBVIOUS
  <1>8. a \in Seq(Int) /\ Joins(a, Numbered(n), mark)
    BY <1>a, <1>3, <1>4, ConcatParts
  <1>b. PICK b : b = a \o zeros
    OBVIOUS
  <1>9. b \in Seq(Int) /\ Joins(b, a, zeros)
    BY <1>b, <1>5, <1>8, ConcatParts
  <1>c. PICK c : c = b \o count
    OBVIOUS
  <1>10. c \in Seq(Int) /\ Joins(c, b, count)
    BY <1>c, <1>6, <1>9, ConcatParts
  <1>11. Len(a) = n + 1 /\ Len(b) = n + 1 + z /\ Len(c) = total
    <2>1. /\ Len(a) = Len(Numbered(n)) + Len(mark) /\ Len(b) = Len(a) + Len(zeros)
          /\ Len(c) = Len(b) + Len(count)
      BY <1>8, <1>9, <1>10, Zenon DEF Joins
    <2> QED BY <1>2, <1>3, <1>4, <1>5, <1>6, <2>1
  <1>12. ASSUME NEW k \in 1 .. total PROVE c[k] = PaddedByte(n, total, k)
    <2>1. CASE k <= n + 1
      <3>1. k \in 1 .. Len(a) /\ k \in 1 .. Len(b)
        BY <1>2, <1>11, <2>1
      <3>2. c[k] = a[k]
        BY <1>9, <1>10, <3>1, Zenon DEF Joins
      <3>3. CASE k <= n
        <4>1. k \in 1 .. Len(Numbered(n)) /\ k \in 1 .. n
          BY <1>3, <3>3
        <4>2. a[k] = k
          BY <1>3, <1>8, <4>1, Zenon DEF Joins
        <4> QED BY <3>2, <3>3, <4>2, Zenon DEF PaddedByte
      <3>4. CASE k = n + 1
        <4>1. a[Len(Numbered(n)) + 1] = mark[1]
          <5>1. 1 \in 1 .. Len(mark)
            BY <1>4
          <5> QED BY <1>8, <5>1, Zenon DEF Joins
        <4>2. ~(k <= n)
          BY <3>4
        <4> QED BY <1>3, <1>4, <3>2, <3>4, <4>1, <4>2, Zenon DEF PaddedByte
      <3> QED BY <1>0, <2>1, <3>3, <3>4
    <2>2. CASE n + 1 < k /\ k <= n + 1 + z
      <3>1. PICK j \in 1 .. z : k = n + 1 + j
        <4>1. k - n - 1 \in 1 .. z /\ k = n + 1 + (k - n - 1)
          BY <1>2, <2>2
        <4> QED BY <4>1
      <3>2. k \in 1 .. Len(b) /\ ~(k <= n) /\ k # n + 1 /\ k <= total - 8
        BY <1>2, <1>11, <2>2
      <3>3. c[k] = b[k]
        BY <1>10, <3>2, Zenon DEF Joins
      <3>4. b[Len(a) + j] = zeros[j]
        BY <1>5, <1>9, Zenon DEF Joins
      <3> QED BY <1>5, <1>11, <3>1, <3>2, <3>3, <3>4, Zenon DEF PaddedByte
    <2>3. CASE n + 1 + z < k
      <3>1. PICK j \in 1 .. 8 : k = n + 1 + z + j
        <4>1. k - n - 1 - z \in 1 .. 8 /\ k = n + 1 + z + (k - n - 1 - z)
          BY <1>2, <2>3
        <4> QED BY <4>1
      <3>2. ~(k <= n) /\ k # n + 1 /\ ~(k <= total - 8) /\ k - total + 7 = j - 1
        BY <1>2, <2>3, <3>1
      <3>3. c[Len(b) + j] = count[j]
        BY <1>6, <1>10, Zenon DEF Joins
      <3> QED BY <1>6, <1>11, <3>1, <3>2, <3>3, Zenon DEF PaddedByte
    <2> QED BY <1>0, <1>2, <2>1, <2>2, <2>3
  <1>13. c = [k \in 1 .. total |-> c[k]]
    <2>1. \A s \in Seq(Int) : s = [k \in 1 .. Len(s) |-> s[k]]
      OBVIOUS
    <2>2. c = [k \in 1 .. Len(c) |-> c[k]]
      BY <1>10, <2>1, Zenon
    <2> QED BY <1>11, <2>2, Zenon
  <1>14. Padded(Numbered(n)) = c
    BY <1>7, <1>a, <1>b, <1>c, Zenon
  <1>15. c = Row(n, total)
    BY <1>12, <1>13, Zenon DEF Row
  <1> QED BY <1>14, <1>15, Zenon

\* Bytes, marks and counts are numbers.
LEMMA PaddedByteType ==
    ASSUME NEW n \in Nat, NEW total \in Nat, NEW k \in Nat
    PROVE  PaddedByte(n, total, k) \in Int
  BY DEF PaddedByte, EndMark, Zero, Count

\* A block is a sequence of these bytes.
LEMMA BlockIs ==
    ASSUME NEW n \in Nat
    PROVE  /\ First(n, BLOCK) \in Seq(Int) /\ First(n, 2 * BLOCK) \in Seq(Int) /\ Second(n) \in Seq(Int)
           /\ Len(First(n, BLOCK)) = BLOCK /\ Len(First(n, 2 * BLOCK)) = BLOCK /\ Len(Second(n)) = BLOCK
  <1>1. \A k \in 1 .. BLOCK : /\ PaddedByte(n, BLOCK, k) \in Int /\ PaddedByte(n, 2 * BLOCK, k) \in Int
                           /\ PaddedByte(n, 2 * BLOCK, BLOCK + k) \in Int
    BY PaddedByteType DEF BLOCK
  <1> QED BY <1>1 DEF First, Second, BLOCK

\* The compression function is given what SHA-1 prescribes.
LEMMA BlocksRight ==
    ASSUME NEW n \in 1 .. BLOCK, n # 56
    PROVE  FlattenSeq(Blocks(Numbered(n))) = Padded(Numbered(n))
  <1>1. Blocks(Numbered(n)) = BlocksFor(n) /\ Padded(Numbered(n)) = Row(n, Total(n))
    BY BlocksAre, PaddedIs, Zenon
  <1>2. n \in Nat
    OBVIOUS
  <1>3. CASE n < 56
    <2>1. Row(n, Total(n)) = First(n, BLOCK)
      BY <1>3, Zenon DEF Row, Total, First
    <2>2. FlattenSeq(<<First(n, BLOCK)>>) = First(n, BLOCK)
      BY <1>2, BlockIs, FlattenOne, Zenon
    <2> QED BY <1>1, <1>3, <2>1, <2>2, Zenon DEF BlocksFor
  <1>4. CASE ~(n < 56)
    <2>1. PICK w : w = Row(n, 2 * BLOCK)
      OBVIOUS
    <2>2. Padded(Numbered(n)) = w
      BY <1>1, <1>4, <2>1, Zenon DEF Total
    <2>3. w \in Seq(Int) /\ Len(w) = 2 * BLOCK
      <3>1. \A k \in 1 .. 2 * BLOCK : PaddedByte(n, 2 * BLOCK, k) \in Int
        BY PaddedByteType DEF BLOCK
      <3> QED BY <2>1, <3>1 DEF Row, BLOCK
    <2>4. PICK b, c : b = First(n, 2 * BLOCK) /\ c = Second(n)
      OBVIOUS
    <2>5. b \in Seq(Int) /\ c \in Seq(Int) /\ Len(b) = BLOCK /\ Len(c) = BLOCK
      BY <1>2, <2>4, BlockIs, Zenon
    <2>6. \A k \in 1 .. BLOCK : w[k] = b[k] /\ w[BLOCK + k] = c[k]
      <3>1. \A k \in 1 .. BLOCK : k \in 1 .. 2 * BLOCK /\ BLOCK + k \in 1 .. 2 * BLOCK
        BY DEF BLOCK
      <3> QED BY <2>1, <2>4, <3>1, Zenon DEF Row, First, Second
    <2>7. Len(w) = Len(b) + Len(c) /\ Len(b) \in Nat /\ Len(c) \in Nat
      BY <2>3, <2>5
    <2>8. Joins(w, b, c)
      BY <2>5, <2>6, <2>7 DEF Joins
    <2>9. FlattenSeq(<<b, c>>) = w
      BY <2>3, <2>5, <2>8, FlattenTwo
    <2> QED BY <1>1, <1>4, <2>2, <2>4, <2>9, Zenon DEF BlocksFor
  <1> QED BY <1>3, <1>4

-----------------------------------------------------------------------------
(* The text of a digest.                                                   *)

\* The values of a character, without Pad and with it.
Sextet == 0 .. 63
Character == 0 .. 64

\* Four characters have the bits of three bytes.
LEMMA QuadIs ==
    ASSUME NEW a \in Byte, NEW b \in Byte, NEW c \in Byte
    PROVE  \E t \in [1 .. 4 -> Sextet] :
             /\ t = Quad(a, b, c) /\ Three(a, b, c) = Four(t[1], t[2], t[3], t[4])
             /\ c = 0 => t[4] = 0
  <1>1. PICK x1, x2, x3, x4 :
          x1 = a \div 4 /\ x2 = (a % 4) * 16 + b \div 16 /\ x3 = (b % 16) * 4 + c \div 64 /\ x4 = c % 64
    OBVIOUS
  <1>2. x1 \in Sextet /\ x2 \in Sextet /\ x3 \in Sextet /\ x4 \in Sextet /\ (c = 0 => x4 = 0)
    BY <1>1 DEF Byte, Sextet
  <1>3. Three(a, b, c) = Four(x1, x2, x3, x4)
    BY <1>1 DEF Three, Four, Byte
  <1>4. Quad(a, b, c) = <<x1, x2, x3, x4>>
    BY <1>1, Zenon DEF Quad
  <1>5. PICK t : t = <<x1, x2, x3, x4>>
    OBVIOUS
  <1>6. t \in [1 .. 4 -> Sextet]
    BY <1>2, <1>5
  <1>7. t[1] = x1 /\ t[2] = x2 /\ t[3] = x3 /\ t[4] = x4
    BY <1>5
  <1> QED BY <1>2, <1>3, <1>4, <1>5, <1>6, <1>7, Zenon

\* Byte k of 20, or zero, and the q-th quad of them.
ByteAt(d, k) == IF k <= 20 THEN d[k] ELSE 0
QuadAt(d, q) == Quad(ByteAt(d, 3 * q + 1), ByteAt(d, 3 * q + 2), ByteAt(d, 3 * q + 3))

\* A text of 20 bytes, by its positions.
TextOf(w, d) ==
    /\ w \in [1 .. 28 -> Character]
    /\ \A q \in 0 .. 6 : \A j \in 1 .. 4 : q < 6 \/ j < 4 => w[4 * q + j] = QuadAt(d, q)[j]
    /\ w[28] = Pad

\* Such a text is an encoding.
LEMMA TextEncodes ==
    ASSUME NEW d \in [1 .. 20 -> Byte], NEW w, TextOf(w, d)
    PROVE  Encodes(w, d)
  <1> DEFINE sextet(p) == IF w[p] = Pad THEN 0 ELSE w[p]
  <1>1. Len(d) = 20 /\ Len(w) = 28 /\ DOMAIN w = 1 .. 28 /\ w \in [1 .. 28 -> Character] /\ w[28] = Pad
    BY DEF TextOf, Pad
  <1>2. ASSUME NEW q \in 0 .. 6
        PROVE  /\ q < 6 => \A j \in 1 .. 4 : w[4 * q + j] \in Sextet
               /\ \A j \in 1 .. 3 : w[4 * q + j] \in Sextet
               /\ Three(ByteAt(d, 3 * q + 1), ByteAt(d, 3 * q + 2), ByteAt(d, 3 * q + 3))
                 = Four(sextet(4 * q + 1), sextet(4 * q + 2), sextet(4 * q + 3), sextet(4 * q + 4))
    <2>1. PICK a \in Byte, b \in Byte, c \in Byte :
            /\ a = ByteAt(d, 3 * q + 1) /\ b = ByteAt(d, 3 * q + 2) /\ c = ByteAt(d, 3 * q + 3)
            /\ q = 6 => c = 0
      <3>1. \A k \in 1 .. 21 : ByteAt(d, k) \in Byte /\ (k = 21 => ByteAt(d, k) = 0)
        BY DEF ByteAt, Byte
      <3>2. /\ 3 * q + 1 \in 1 .. 21 /\ 3 * q + 2 \in 1 .. 21 /\ 3 * q + 3 \in 1 .. 21
            /\ q = 6 => 3 * q + 3 = 21
        OBVIOUS
      <3> QED BY <3>1, <3>2, Zenon
    <2>2. PICK t \in [1 .. 4 -> Sextet] :
            /\ t = Quad(a, b, c) /\ Three(a, b, c) = Four(t[1], t[2], t[3], t[4])
            /\ c = 0 => t[4] = 0
      BY QuadIs, Zenon
    <2>3. \A j \in 1 .. 4 : q < 6 \/ j < 4 => w[4 * q + j] = t[j]
      BY <2>1, <2>2, Zenon DEF TextOf, QuadAt
    <2>4. /\ t[1] \in Sextet /\ t[2] \in Sextet /\ t[3] \in Sextet /\ t[4] \in Sextet
      OBVIOUS
    <2>5. w[4 * q + 1] = t[1] /\ w[4 * q + 2] = t[2] /\ w[4 * q + 3] = t[3]
      BY <2>3
    <2>6. sextet(4 * q + 1) = t[1] /\ sextet(4 * q + 2) = t[2] /\ sextet(4 * q + 3) = t[3]
      BY <2>4, <2>5 DEF Pad, Sextet
    <2>7. sextet(4 * q + 4) = t[4]
      <3>1. CASE q < 6
        BY <2>3, <2>4, <3>1 DEF Pad, Sextet
      <3>2. CASE q = 6
        BY <1>1, <2>1, <2>2, <3>2 DEF Pad
      <3> QED BY <3>1, <3>2
    <2>8. \A j \in 1 .. 4 : q < 6 \/ j < 4 => w[4 * q + j] \in Sextet
      BY <2>3, <2>4
    <2> HIDE DEF sextet
    <2>9. Three(ByteAt(d, 3 * q + 1), ByteAt(d, 3 * q + 2), ByteAt(d, 3 * q + 3))
                 = Four(sextet(4 * q + 1), sextet(4 * q + 2), sextet(4 * q + 3), sextet(4 * q + 4))
      BY <2>1, <2>2, <2>4, <2>6, <2>7
    <2> QED BY <2>8, <2>9
  <1>3. ASSUME NEW p \in 1 .. 28 PROVE w[p] \in Character /\ (w[p] = Pad <=> p > 27)
    <2>1. CASE p = 28
      BY <1>1, <2>1 DEF Pad
    <2>2. CASE p < 28
      <3>1. PICK q \in 0 .. 6, j \in 1 .. 4 : p = 4 * q + j
        <4>1. (p - 1) \div 4 \in 0 .. 6 /\ ((p - 1) % 4) + 1 \in 1 .. 4
              /\ p = 4 * ((p - 1) \div 4) + (((p - 1) % 4) + 1)
          OBVIOUS
        <4> QED BY <4>1
      <3>2. w[4 * q + j] \in Sextet
        BY <1>2, <2>2, <3>1
      <3> QED BY <2>2, <3>1, <3>2 DEF Pad, Sextet, Character
    <2> QED BY <2>1, <2>2
  <1>4. (Len(d) + 2) \div 3 = 7 /\ (8 * Len(d) + 5) \div 6 = 27 /\ 7 - 1 = 6 /\ 4 * 7 = 28
    BY <1>1
  <1> HIDE DEF sextet
  <1>5. ASSUME NEW q \in 0 .. 6
        PROVE  Three(ByteAt(d, 3 * q + 1), ByteAt(d, 3 * q + 2), ByteAt(d, 3 * q + 3))
                 = Four(sextet(4 * q + 1), sextet(4 * q + 2), sextet(4 * q + 3), sextet(4 * q + 4))
    BY <1>2
  <1> QED
    <2> DEFINE byte(k) == IF k <= Len(d) THEN d[k] ELSE 0
    <2>1. \A k \in 1 .. 21 : byte(k) = ByteAt(d, k)
      BY <1>1 DEF ByteAt
    <2> HIDE DEF byte
    <2>2. \A q \in 0 .. 6 : 3 * q + 1 \in 1 .. 21 /\ 3 * q + 2 \in 1 .. 21 /\ 3 * q + 3 \in 1 .. 21
      OBVIOUS
    <2>3. \A q \in 0 .. 6 :
            Three(byte(3 * q + 1), byte(3 * q + 2), byte(3 * q + 3))
              = Four(sextet(4 * q + 1), sextet(4 * q + 2), sextet(4 * q + 3), sextet(4 * q + 4))
      BY <1>5, <2>1, <2>2, Zenon
    <2>4. \A p \in DOMAIN w : w[p] \in 0 .. Pad /\ (w[p] = Pad <=> p > 27)
      BY <1>1, <1>3 DEF Character, Pad
    <2> QED BY <1>1, <1>4, <2>3, <2>4 DEF Encodes, byte, sextet

\* A quad is four characters.
LEMMA QuadType ==
    ASSUME NEW a \in Byte, NEW b \in Byte, NEW c \in Byte
    PROVE  Quad(a, b, c) \in Seq(Character) /\ Len(Quad(a, b, c)) = 4
  <1>1. PICK t \in [1 .. 4 -> Sextet] : t = Quad(a, b, c)
    BY QuadIs, Zenon
  <1>2. t \in Seq(Character) /\ Len(t) = 4
    <2> DEFINE X == Character
    <2>1. \A k \in 1 .. 4 : t[k] \in X
      BY DEF Sextet, Character
    <2>2. t = [k \in 1 .. 4 |-> t[k]]
      OBVIOUS
    <2> HIDE DEF X
    <2>3. [k \in 1 .. 4 |-> t[k]] \in Seq(X) /\ Len([k \in 1 .. 4 |-> t[k]]) = 4
      BY <2>1
    <2> QED BY <2>2, <2>3, Zenon DEF X
  <1> QED BY <1>1, <1>2, Zenon

\* base64_encode makes such a text of 20 bytes: six quads and a tail of two.
LEMMA TextIs ==
    ASSUME NEW d \in [1 .. 20 -> Byte]
    PROVE  TextOf(base64_encode(d), d)
  <1>1. Len(d) = 20 /\ 20 \div 3 = 6
    OBVIOUS
  <1>2. PICK parts : parts = [q \in 1 .. 6 |-> Quad(d[3 * q - 2], d[3 * q - 1], d[3 * q])]
    OBVIOUS
  <1>3. \A q \in 1 .. 6 : parts[q] \in Seq(Character) /\ Len(parts[q]) = 4 /\ parts[q] = QuadAt(d, q - 1)
    <2>1. ASSUME NEW q \in 1 .. 6 PROVE parts[q] \in Seq(Character) /\ Len(parts[q]) = 4 /\ parts[q] = QuadAt(d, q - 1)
      <3>1. /\ 3 * (q - 1) + 1 = 3 * q - 2 /\ 3 * (q - 1) + 2 = 3 * q - 1 /\ 3 * (q - 1) + 3 = 3 * q
            /\ 3 * q - 2 \in 1 .. 20 /\ 3 * q - 1 \in 1 .. 20 /\ 3 * q \in 1 .. 20
        OBVIOUS
      <3>2. \A k \in 1 .. 20 : d[k] \in Byte /\ ByteAt(d, k) = d[k]
        BY DEF ByteAt
      <3>3. QuadAt(d, q - 1) = Quad(d[3 * q - 2], d[3 * q - 1], d[3 * q])
        BY <3>1, <3>2, Zenon DEF QuadAt
      <3>4. parts[q] = Quad(d[3 * q - 2], d[3 * q - 1], d[3 * q])
        BY <1>2, Zenon
      <3>5. Quad(d[3 * q - 2], d[3 * q - 1], d[3 * q]) \in Seq(Character)
            /\ Len(Quad(d[3 * q - 2], d[3 * q - 1], d[3 * q])) = 4
        BY <3>1, <3>2, QuadType, Zenon
      <3> QED BY <3>3, <3>4, <3>5, Zenon
    <2> QED BY <2>1
  <1>4. parts \in Lists(Character) /\ Len(parts) = 6
    BY <1>2, <1>3 DEF Lists
  <1>5. PICK tail : tail = QuadAt(d, 6)
    OBVIOUS
  <1>6. PICK rest : rest = SubSeq(d, 3 * 6 + 1, 20)
    OBVIOUS
  <1>7. PICK end : end = Tail64(rest)
    OBVIOUS
  <1>8. /\ end \in Seq(Character) /\ Len(end) = 4 /\ end[4] = Pad
        /\ end[1] = tail[1] /\ end[2] = tail[2] /\ end[3] = tail[3]
    <2>1. Len(rest) = 2 /\ rest # <<>> /\ rest[1] = d[19] /\ rest[2] = d[20]
      <3>1. \A k \in 19 .. 20 : d[k] \in Byte
        OBVIOUS
      <3>2. 3 * 6 + 1 = 19
        OBVIOUS
      <3>3. rest = SubSeq(d, 19, 20)
        BY <1>6, <3>2
      <3>4. /\ Len(SubSeq(d, 19, 20)) = 2
            /\ \A k \in 1 .. 2 : SubSeq(d, 19, 20)[k] = d[19 + k - 1]
        BY <3>1, SubSeqProperties
      <3>5. /\ Len(SubSeq(d, 19, 20)) = 2
            /\ SubSeq(d, 19, 20)[1] = d[19] /\ SubSeq(d, 19, 20)[2] = d[20]
        BY <3>4
      <3>6. rest # <<>>
        <4>1. Len(<<>>) = 0 /\ 0 # 2
          OBVIOUS
        <4> QED BY <3>3, <3>5, <4>1, Zenon
      <3> QED BY <3>3, <3>5, <3>6, Zenon
    <2>2. tail = Quad(d[19], d[20], 0)
      <3>1. ByteAt(d, 3 * 6 + 1) = d[19] /\ ByteAt(d, 3 * 6 + 2) = d[20] /\ ByteAt(d, 3 * 6 + 3) = 0
        BY DEF ByteAt
      <3> QED BY <1>5, <3>1, Zenon DEF QuadAt
    <2>3. d[19] \in Byte /\ d[20] \in Byte /\ 0 \in Byte
      BY DEF Byte
    <2>4. tail \in Seq(Character) /\ Len(tail) = 4
      BY <2>2, <2>3, QuadType, Zenon
    <2>5. end = SubSeq(tail, 1, 3) \o <<Pad>>
      <3>1. Tail64(rest) = SubSeq(Quad(rest[1], rest[2], 0), 1, 3) \o <<Pad>>
        BY <2>1 DEF Tail64
      <3> QED BY <1>7, <2>1, <2>2, <3>1, Zenon
    <2>6. PICK u : u = SubSeq(tail, 1, 3)
      OBVIOUS
    <2>7. u \in Seq(Character) /\ Len(u) = 3 /\ u[1] = tail[1] /\ u[2] = tail[2] /\ u[3] = tail[3]
      <3>1. \A k \in 1 .. 3 : tail[k] \in Character
        <4>1. \A X : \A s \in Seq(X) : \A k \in 1 .. Len(s) : s[k] \in X
          OBVIOUS
        <4>2. \A k \in 1 .. 3 : k \in 1 .. 4
          OBVIOUS
        <4> QED BY <2>4, <4>1, <4>2, Zenon
      <3>2. /\ SubSeq(tail, 1, 3) \in Seq(Character) /\ Len(SubSeq(tail, 1, 3)) = 3
            /\ \A k \in 1 .. 3 : SubSeq(tail, 1, 3)[k] = tail[1 + k - 1]
        BY <3>1, SubSeqProperties
      <3>3. /\ SubSeq(tail, 1, 3) \in Seq(Character) /\ Len(SubSeq(tail, 1, 3)) = 3
            /\ SubSeq(tail, 1, 3)[1] = tail[1] /\ SubSeq(tail, 1, 3)[2] = tail[2]
            /\ SubSeq(tail, 1, 3)[3] = tail[3]
        BY <3>2
      <3> QED BY <2>6, <3>3, Zenon
    <2>8. <<Pad>> \in Seq(Character) /\ Len(<<Pad>>) = 1 /\ <<Pad>>[1] = Pad
      BY DEF Pad, Character
    <2>9. end \in Seq(Character) /\ Joins(end, u, <<Pad>>)
      BY <2>5, <2>6, <2>7, <2>8, ConcatParts
    <2>10. 1 \in 1 .. 3 /\ 2 \in 1 .. 3 /\ 3 \in 1 .. 3 /\ 1 \in 1 .. 1 /\ 3 + 1 = 4
      OBVIOUS
    <2>11. Len(end) = 4 /\ end[3 + 1] = Pad
      <3>1. Len(end) = Len(u) + Len(<<Pad>>) /\ \A k \in 1 .. Len(<<Pad>>) : end[Len(u) + k] = <<Pad>>[k]
        BY <2>9, Zenon DEF Joins
      <3> QED BY <2>7, <2>8, <3>1
    <2>12. \A k \in 1 .. 3 : end[k] = u[k]
      BY <2>7, <2>9, Zenon DEF Joins
    <2> QED BY <2>7, <2>9, <2>10, <2>11, <2>12
  <1>9. PICK w : w = [p \in 1 .. 24 |-> parts[(p - 1) \div 4 + 1][((p - 1) % 4) + 1]]
    OBVIOUS
  <1>10. w \in Seq(Character) /\ Len(w) = 24
    <2>1. ASSUME NEW p \in 1 .. 24 PROVE parts[(p - 1) \div 4 + 1][((p - 1) % 4) + 1] \in Character
      <3>1. PICK q \in 1 .. 6, j \in 1 .. 4 : q = (p - 1) \div 4 + 1 /\ j = ((p - 1) % 4) + 1
        <4>1. (p - 1) \div 4 + 1 \in 1 .. 6 /\ ((p - 1) % 4) + 1 \in 1 .. 4
          OBVIOUS
        <4> QED BY <4>1, Zenon
      <3>2. parts[q] \in Seq(Character) /\ Len(parts[q]) = 4
        BY <1>3
      <3>3. parts[q][j] \in Character
        <4>1. \A X : \A s \in Seq(X) : \A k \in 1 .. Len(s) : s[k] \in X
          OBVIOUS
        <4> QED BY <3>2, <4>1, Zenon
      <3> QED BY <3>1, <3>3, Zenon
    <2> QED BY <1>9, <2>1
  <1>11. \A q \in 1 .. 6 : \A j \in 1 .. 4 : w[4 * (q - 1) + j] = parts[q][j]
    <2>1. ASSUME NEW q \in 1 .. 6, NEW j \in 1 .. 4 PROVE w[4 * (q - 1) + j] = parts[q][j]
      <3>1. PICK p \in 1 .. 24 : p = 4 * (q - 1) + j /\ (p - 1) \div 4 + 1 = q /\ ((p - 1) % 4) + 1 = j
        <4>1. PICK p \in Int : p = 4 * (q - 1) + j
          OBVIOUS
        <4>2. p \in 1 .. 24 /\ (p - 1) \div 4 + 1 = q /\ ((p - 1) % 4) + 1 = j
          BY <4>1
        <4> QED BY <4>1, <4>2, Zenon
      <3> QED BY <1>9, <3>1, Zenon
    <2> QED BY <2>1
  <1>12. FlattenSeq(parts) = w
    <2>1. PICK at : at = [k \in 1 .. 7 |-> 4 * (k - 1)]
      OBVIOUS
    <2>2. at \in [1 .. 7 -> Nat] /\ at[1] = 0 /\ at[7] = 24 /\ 6 + 1 = 7
      BY <2>1
    <2>3. \A k \in 1 .. 6 : at[k] = 4 * (k - 1) /\ at[k + 1] = at[k] + 4
      BY <2>1
    <2>4. Layout(at, parts)
      BY <1>3, <1>4, <2>2, <2>3 DEF Layout
    <2>5. Concatenates(w, at, parts)
      <3>1. Len(w) = at[Len(parts) + 1]
        BY <1>4, <1>10, <2>2
      <3>2. ASSUME NEW q \in 1 .. Len(parts), NEW j \in 1 .. Len(parts[q])
            PROVE  w[at[q] + j] = parts[q][j]
        <4>1. q \in 1 .. 6
          BY <1>4, Zenon
        <4>2. j \in 1 .. 4
          BY <1>3, <4>1, Zenon
        <4>3. at[q] = 4 * (q - 1)
          BY <2>3, <4>1, Zenon
        <4> QED BY <1>11, <4>1, <4>2, <4>3, Zenon
      <3> QED BY <2>4, <3>1, <3>2 DEF Concatenates
    <2> QED BY <1>4, <1>10, <2>5, FlattenIs
  <1>13. base64_encode(d) = w \o end
    BY <1>1, <1>2, <1>6, <1>7, <1>12, Zenon DEF base64_encode
  <1>14. PICK text : text = w \o end
    OBVIOUS
  <1>15. text \in Seq(Character) /\ Joins(text, w, end)
    BY <1>8, <1>10, <1>14, ConcatParts
  <1>16. Len(text) = 28 /\ \A p \in 1 .. 24 : text[p] = w[p]
    BY <1>8, <1>10, <1>15 DEF Joins
  <1>17. \A j \in 1 .. 4 : text[24 + j] = end[j]
    BY <1>8, <1>10, <1>15 DEF Joins
  <1>18. ASSUME NEW q \in 0 .. 6, NEW j \in 1 .. 4, q < 6 \/ j < 4
         PROVE  text[4 * q + j] = QuadAt(d, q)[j]
    <2>1. CASE q < 6
      <3>1. PICK r \in 1 .. 6 : r - 1 = q
        <4>1. q + 1 \in 1 .. 6 /\ q + 1 - 1 = q
          BY <2>1
        <4> QED BY <4>1
      <3>2. 4 * q + j \in 1 .. 24
        BY <2>1
      <3>3. text[4 * q + j] = w[4 * q + j]
        BY <1>16, <3>2
      <3>4. w[4 * q + j] = parts[r][j] /\ parts[r] = QuadAt(d, q)
        BY <1>3, <1>11, <3>1
      <3> QED BY <3>3, <3>4, Zenon
    <2>2. CASE q = 6
      <3>1. 4 * q + j = 24 + j /\ (j = 1 \/ j = 2 \/ j = 3)
        BY <1>18, <2>2
      <3>2. text[24 + j] = end[j]
        BY <1>17
      <3>3. end[j] = tail[j]
        BY <1>8, <3>1, Zenon
      <3> QED BY <1>5, <2>2, <3>1, <3>2, <3>3, Zenon
    <2> QED BY <2>1, <2>2
  <1>19. text \in [1 .. 28 -> Character] /\ text[28] = Pad
    <2>1. text[24 + 4] = Pad
      BY <1>8, <1>17
    <2>2. \A X : \A s \in Seq(X) : s \in [1 .. Len(s) -> X]
      OBVIOUS
    <2>3. text \in [1 .. Len(text) -> Character]
      BY <1>15, <2>2, Zenon
    <2> QED BY <1>16, <2>1, <2>3 DEF Pad
  <1>20. TextOf(text, d)
    BY <1>18, <1>19 DEF TextOf
  <1> QED BY <1>13, <1>14, <1>20, Zenon

-----------------------------------------------------------------------------
(* The answer to the key.                                                  *)

\* websocket_handshake keeps the key until it has answered it.
Accepted ==
    /\ key \in Nat
    /\ stage = "reply" => /\ accept.digest \in Digests
                          /\ accept.text = base64_encode(accept.digest)
                          /\ accept.blocks = Blocks(Message(key))

\* A request has its key.
LEMMA InitAccepted == Init => Accepted
  BY KeysAssumption DEF Init, Accepted

\* Only the handshake answers, and it answers that key.
LEMMA StepAccepted == Accepted /\ [Next]_vars => Accepted'
  <1> SUFFICES ASSUME Accepted, [Next]_vars PROVE Accepted'
    OBVIOUS
  <1> USE DEF Accepted
  <1>1. CASE Handshake
    <2>1. PICK d \in Digests :
            accept' = [text |-> base64_encode(d), digest |-> d, blocks |-> Blocks(Message(key))]
      BY <1>1, Zenon DEF Handshake
    <2>2. /\ accept'.text = base64_encode(d) /\ accept'.digest = d
          /\ accept'.blocks = Blocks(Message(key))
      BY <2>1, Zenon
    <2>3. key' = key
      BY <1>1 DEF Handshake
    <2> QED BY <2>2, <2>3, Zenon
  <1>2. CASE Switch \/ HandshakeFailed
    BY <1>2 DEF Switch, HandshakeFailed
  <1>3. CASE UNCHANGED <<key, accept>> /\ (stage' = "reply" => stage = "reply")
    BY <1>3, Zenon
  <1>4. CASE RecvSome \/ RecvEnd \/ Arrive \/ HangUp
    BY <1>3, <1>4 DEF RecvSome, RecvEnd, Return, End, Arrive, HangUp
  <1>5. CASE RecvHeader \/ RecvLength \/ RecvMask \/ RecvPayload
    BY <1>3, <1>5 DEF RecvHeader, PastHeader, RecvLength, PastLength, RecvMask, RecvPayload, GoOn, Return
  <1>6. CASE \E f \in Frames : Send(f)
    BY <1>3, <1>6 DEF Send
  <1>7. CASE UNCHANGED vars
    BY <1>3, <1>7 DEF vars
  <1> QED BY <1>1, <1>2, <1>4, <1>5, <1>6, <1>7 DEF Next, Reader

\* A message that fits a block is not cut by concatenated_key.
LEMMA AcceptedIsRight == Accepted => AcceptKeyRight
  <1> SUFFICES ASSUME Accepted, stage = "reply", key + GUIDLength <= BLOCK, key + GUIDLength # 56
               PROVE  /\ FlattenSeq(accept.blocks) = Padded(Message(key))
                      /\ Encodes(accept.text, accept.digest)
    BY Zenon DEF AcceptKeyRight
  <1>1. PICK n : n = key + GUIDLength
    OBVIOUS
  <1>2. n \in 1 .. BLOCK /\ n # 56
    BY <1>1 DEF Accepted, GUIDLength, BLOCK
  <1>3. Message(key) = Numbered(n)
    <2>1. Lesser(n, 255) = n
      BY <1>2 DEF Lesser, BLOCK
    <2> QED BY <1>1, <2>1, Zenon DEF Message, Numbered
  <1>4. FlattenSeq(accept.blocks) = Padded(Message(key))
    <2>1. accept.blocks = Blocks(Message(key))
      BY DEF Accepted
    <2>2. FlattenSeq(Blocks(Numbered(n))) = Padded(Numbered(n))
      BY <1>2, BlocksRight, Zenon
    <2> QED BY <1>3, <2>1, <2>2, Zenon
  <1>5. PICK d \in [1 .. 20 -> Byte] : accept.digest = d /\ accept.text = base64_encode(d)
    BY DigestsAssumption, Zenon DEF Accepted
  <1>6. Encodes(accept.text, accept.digest)
    BY <1>5, TextIs, TextEncodes, Zenon
  <1> QED BY <1>4, <1>6

-----------------------------------------------------------------------------
(* The theorems.                                                           *)

\* At the start of a frame the reader has no part of one behind it.
LEMMA BoundaryHolds == IInv => FrameBoundary
  <1> SUFFICES ASSUME IInv, stage = "header", buf = <<>>, whole
               PROVE  stream \o flight =
                        FlattenSeq([k \in 1 .. Len(sent) - Len(returned) |-> Bytes[sent[Len(returned) + k]]])
    BY DEF FrameBoundary
  <1> PICK all, at : Flow(all, at)
    BY DEF IInv
  <1>1. TypeOK /\ InHand /\ Told /\ Reading
    BY DEF IInv, Reading
  <1>2. stream \in Seq(Byte) /\ flight \in Seq(Byte) /\ Len(sent) \in Nat /\ Len(returned) \in Nat
    BY <1>1 DEF TypeOK
  <1> PICK n \in Nat, r \in Nat : n = Len(sent) /\ r = Len(returned)
    BY <1>2
  <1>3. r \in 0 .. n /\ Position(at) \in Nat
    BY <1>1, ReaderPlace DEF Current
  <1>4. Position(at) = at[r + 1]
    <2>1. Position(at) = at[r + 1] + 0 /\ r + 1 \in 1 .. n + 1
      BY <1>3 DEF Position, Current
    <2>2. at \in [1 .. n + 1 -> Nat]
      BY <1>1, SendingIs DEF Flow, Concatenates, Layout, TypeOK
    <2> QED BY <2>1, <2>2
  <1>5. /\ Sending \in Lists(Byte) /\ Len(Sending) = n
        /\ Sending = [k \in 1 .. n |-> Bytes[sent[k]]]
    BY <1>1, SendingIs DEF TypeOK, Sending
  <1>6. PICK u \in Seq(Byte) : u = stream \o flight /\ Unread = u
    <2>1. stream \o flight \in Seq(Byte)
      BY <1>2, StandsJoined, Zenon
    <2>2. <<>> \o stream = stream
      BY <1>2
    <2>3. Unread = (<<>> \o stream) \o flight
      BY DEF Unread
    <2>4. Unread = stream \o flight
      BY <2>2, <2>3
    <2> QED BY <2>1, <2>4
  <1>7. all \in Seq(Byte) /\ Concatenates(all, at, Sending) /\ Stands(u, all, at[r + 1])
        /\ at[r + 1] + Len(u) = Len(all)
    BY <1>1, <1>4, <1>6 DEF Flow
  <1>8. FlattenSeq(Rest(Sending, n, r)) = u
    <2>1. Ends(u, all, at[r + 1]) /\ HasParts(Sending, n)
      BY <1>5, <1>7 DEF Ends, HasParts
    <2> QED BY <1>3, <1>5, <1>7, <2>1, RestFlattened, Zenon
  <1>9. Rest(Sending, n, r) = [k \in 1 .. n - r |-> Bytes[sent[r + k]]]
    <2>1. ASSUME NEW k \in 1 .. n - r PROVE Sending[r + k] = Bytes[sent[r + k]]
      <3>1. r + k \in 1 .. n
        BY <1>3
      <3> QED BY <1>5, <3>1
    <2> QED BY <2>1 DEF Rest
  <1> QED BY <1>6, <1>8, <1>9

\* The reader of websocket_frame_recv knows where it is in what the client
\* sent, however TCP cuts it and wherever the client hangs up.
THEOREM Invariance == Spec => []IInv
  BY InitFits, StepKeeps, PTL DEF Spec

\* The variables have their types.
THEOREM TypeCorrect == Spec => []TypeOK
  <1>1. IInv => TypeOK
    BY DEF IInv
  <1> QED BY <1>1, Invariance, PTL

\* Every call of websocket_frame_recv returns what the frame it stands for
\* means, for any frames, any cuts and any buffer (websocket.c:162-229).
THEOREM ReaderResultsMatch == Spec => []ResultsMatchFrames
  <1>1. IInv => ResultsMatchFrames
    BY DEF IInv
  <1> QED BY <1>1, Invariance, PTL

\* The pings that were read are answered in their order, byte for byte, in
\* frames that a client can read, and nothing else is sent (websocket.c:214-218, 239-262).
THEOREM PongsMatch == Spec => []PongsEcho
  <1>1. IInv => PongsEcho
    BY DEF IInv
  <1> QED BY <1>1, Invariance, PTL

\* Between two frames the reader is at the first byte of the next: what is
\* still to be read are exactly the frames that have no result.
THEOREM ReaderAtBoundary == Spec => []FrameBoundary
  BY BoundaryHolds, Invariance, PTL

\* The accept key of a browser, whose key has 24 bytes, rests on the blocks
\* that SHA-1 prescribes and is the Base64 text of its digest; so do those of
\* all keys up to 28 bytes, but for 20 (websocket.c:119-131, sha1.c, base64.c).
THEOREM AcceptKeysAreRight == Spec => []AcceptKeyRight
  BY InitAccepted, StepAccepted, AcceptedIsRight, PTL DEF Spec
=============================================================================
