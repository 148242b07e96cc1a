----------------------------- MODULE JsonEscape -----------------------------
(***************************************************************************)
(* The loop of json_escape_minimal (src/protocol.c) over one text: user    *)
(* names, and the service's refusals, on their way into a JSON string.     *)
(***************************************************************************)
EXTENDS Integers, Sequences, FiniteSets, SequencesExt

CONSTANTS
    MaxLength,  \* bound: of the text
    Sizes       \* sizes of the buffer; the code has 128 and 384

ASSUME LengthAssumption == MaxLength \in Nat
ASSUME SizesAssumption == Sizes \subseteq Nat

\* Characters as the loop tells them apart; a control is any below 0x20.
Char == {"quote", "backslash", "control", "letter"}
Special == {"quote", "backslash"}

VARIABLES
    in,        \* the text
    out_size,  \* the size of out
    i,         \* characters of in that are behind the loop
    out        \* what has been written, without the final NUL

vars == <<in, out_size, i, out>>

Init ==
    /\ in \in SeqOf(Char, MaxLength) /\ out_size \in Sizes
    /\ i = 0 /\ out = <<>>
-----------------------------------------------------------------------------
\* The condition of the loop; a buffer of no bytes is returned from at once.
Going == out_size > 0 /\ i < Len(in) /\ Len(out) + 1 < out_size

\* Mutant of Fits: one byte too few is asked for.
FitsTight == Len(out) + 1 < out_size

\* Two characters and the NUL fit.
Fits == Len(out) + 2 < out_size

c == in[i + 1]

\* One iteration of the loop.
Escape ==
    /\ Going /\ c \in Special /\ Fits
    /\ out' = out \o <<"backslash", c>> /\ i' = i + 1
    /\ UNCHANGED <<in, out_size>>

\* Mutant of Copy: it is no else, and takes a special that fits as well.
CopyAny ==
    /\ Going /\ c # "control"
    /\ out' = Append(out, c) /\ i' = i + 1
    /\ UNCHANGED <<in, out_size>>

\* A character that stays as it is: also a special one that does not fit.
Copy ==
    /\ Going /\ (c = "letter" \/ (c \in Special /\ ~Fits))
    /\ out' = Append(out, c) /\ i' = i + 1
    /\ UNCHANGED <<in, out_size>>

\* Mutant of Skip: a control ends the text.
SkipRest ==
    /\ Going /\ c = "control"
    /\ i' = Len(in)
    /\ UNCHANGED <<in, out_size, out>>

Skip ==
    /\ Going /\ c = "control"
    /\ i' = i + 1
    /\ UNCHANGED <<in, out_size, out>>

Next == Escape \/ Copy \/ Skip

Spec == Init /\ [][Next]_vars
-----------------------------------------------------------------------------
(* Properties.                                                             *)

\* The first n characters take this many bytes between the quotes of a JSON
\* string: none for a control, two for a quote or a backslash.
FormLength(n) ==
    Cardinality({k \in 1 .. n : in[k] # "control"}) + Cardinality({k \in 1 .. n : in[k] \in Special})

\* text is what should stand there for the first n characters.
JsonForm(n, text) ==
    /\ Len(text) = FormLength(n)
    /\ \A k \in 1 .. n :
         /\ in[k] # "control" => text[FormLength(k)] = in[k]
         /\ in[k] \in Special => text[FormLength(k) - 1] = "backslash"

\* The text and its NUL stay within the buffer.
WithinBuffer == out_size > 0 => Len(out) + 1 <= out_size

\* Wherever the text is cut off, what stands in out is the JSON form of a part
\* of it, but for the last byte of a full buffer: a quote or a backslash that
\* had no room for two is left bare there.
BareOnlyAtEnd ==
    ~Going =>
      \E n \in 0 .. Len(in) :
        \/ JsonForm(n, out)
        \/ /\ n > 0 /\ Len(out) + 1 = out_size
           /\ JsonForm(n - 1, Front(out)) /\ Last(out) = in[n]
=============================================================================
