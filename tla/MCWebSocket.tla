----------------------------- MODULE MCWebSocket -----------------------------
(* A small instance of WebSocket for TLC. *)
EXTENDS WebSocket

\* Digests that tell their bits apart.
TwoDigests == {[k \in 1 .. 20 |-> 37 * k % 256], [k \in 1 .. 20 |-> 255 - 11 * k]}

Text(form, length) == [opcode |-> 1, masked |-> TRUE, form |-> form, length |-> length]

\* The lengths at which the three forms, and the buffer of 131 bytes, begin
\* and end, and one of 2^16; a close, a ping and an opcode that is ignored;
\* unmasked frames; empty ones, a usual ping among them; pings whose answers need the second form.
SomeFrames ==
    {Text(7, 5), Text(7, 125), Text(16, 126), Text(64, 130), Text(16, 131), Text(64, 65536),
     Text(7, 0), [Text(7, 3) EXCEPT !.masked = FALSE], [Text(7, 0) EXCEPT !.masked = FALSE]}
    \union {[Text(7, 3) EXCEPT !.opcode = k] : k \in {0, 8, 9}}
    \union {[t EXCEPT !.opcode = 9] : t \in {Text(7, 0), Text(7, 125), Text(16, 126)}}

\* TCP may pause inside every field of a frame and between its fields.
SomeCuts == {1, 2, 3, 4, 8, 10, 12, 129}
==============================================================================
