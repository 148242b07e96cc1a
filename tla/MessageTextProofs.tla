------------------------- MODULE MessageTextProofs -------------------------
(***************************************************************************)
(* json_escape_minimal, and a user name's way through the system, for      *)
(* texts of any length and buffers of any size.                            *)
(***************************************************************************)
EXTENDS MessageText, SequenceLemmas, FiniteSetTheorems

TypeOK ==
    /\ in \in Seq(Char) /\ out_size \in Nat
    /\ i \in 0 .. Len(in) /\ out \in Seq(Char)

\* out is the form of the characters behind the loop, or of all of them but
\* the last, a special one that stands bare in the last byte.
FormSoFar ==
    \/ JsonForm(i, out)
    \/ /\ i > 0 /\ in[i] \in Special /\ Len(out) + 1 = out_size /\ out # <<>>
       /\ JsonForm(i - 1, Front(out)) /\ Last(out) = in[i]

IInv == TypeOK /\ WithinBuffer /\ FormSoFar
-----------------------------------------------------------------------------
(* The length of the form.                                                 *)

\* One element more at most.
LEMMA CountsOne ==
    ASSUME NEW n \in Nat, NEW S \in SUBSET (1 .. n + 1)
    PROVE  /\ Cardinality(S \cap (1 .. n)) \in Nat
           /\ Cardinality(S) = Cardinality(S \cap (1 .. n)) + (IF n + 1 \in S THEN 1 ELSE 0)
  <1> DEFINE T == S \cap (1 .. n)
  <1>1. IsFiniteSet(1 .. n)
    BY FS_Interval
  <1>6. \A k \in S : (k \in 1 .. n \/ k = n + 1) /\ n + 1 \notin 1 .. n
    OBVIOUS
  <1>2. IsFiniteSet(T)
    BY <1>1, FS_Subset
  <1>3. Cardinality(T) \in Nat
    BY <1>2, FS_CardinalityType
  <1>4. CASE n + 1 \in S
    <2>1. S = T \union {n + 1} /\ n + 1 \notin T
      <3>1. n + 1 \notin T
        OBVIOUS
      <3>2. \A k : k \in S <=> k \in T \union {n + 1}
        BY <1>4, <1>6
      <3> QED BY <3>1, <3>2
    <2>2. Cardinality(T \union {n + 1}) = Cardinality(T) + 1
      BY <1>2, <2>1, FS_AddElement
    <2> QED BY <1>3, <1>4, <2>1, <2>2
  <1>5. CASE n + 1 \notin S
    <2>1. \A k : k \in S <=> k \in T
      BY <1>5, <1>6
    <2>2. S = T
      BY <2>1
    <2> QED BY <1>3, <1>5, <2>2
  <1> QED BY <1>4, <1>5

LEMMA FormLengthEmpty == FormLength(0) = 0
  <1>1. {k \in 1 .. 0 : in[k] # "control"} = {} /\ {k \in 1 .. 0 : in[k] \in Special} = {}
    OBVIOUS
  <1> QED BY <1>1, FS_EmptySet DEF FormLength

LEMMA FormLengthNext ==
    ASSUME TypeOK, NEW n \in Nat, n < Len(in)
    PROVE  /\ FormLength(n) \in Nat
           /\ FormLength(n + 1) = FormLength(n) + (CASE in[n + 1] \in Special -> 2
                                                     [] in[n + 1] = "control" -> 0
                                                     [] OTHER -> 1)
  <1> DEFINE S == {k \in 1 .. n + 1 : in[k] # "control"}
             T == {k \in 1 .. n + 1 : in[k] \in Special}
  <1>1. /\ S \cap (1 .. n) = {k \in 1 .. n : in[k] # "control"}
        /\ T \cap (1 .. n) = {k \in 1 .. n : in[k] \in Special}
        /\ n + 1 \in S <=> in[n + 1] # "control"
        /\ n + 1 \in T <=> in[n + 1] \in Special
    OBVIOUS
  <1>2. S \in SUBSET (1 .. n + 1) /\ T \in SUBSET (1 .. n + 1)
    OBVIOUS
  <1>3. /\ FormLength(n) = Cardinality(S \cap (1 .. n)) + Cardinality(T \cap (1 .. n))
        /\ FormLength(n + 1) = Cardinality(S) + Cardinality(T)
    BY <1>1 DEF FormLength
  <1> HIDE DEF S, T
  <1>4. /\ Cardinality(S \cap (1 .. n)) \in Nat /\ Cardinality(T \cap (1 .. n)) \in Nat
        /\ Cardinality(S) = Cardinality(S \cap (1 .. n)) + (IF n + 1 \in S THEN 1 ELSE 0)
        /\ Cardinality(T) = Cardinality(T \cap (1 .. n)) + (IF n + 1 \in T THEN 1 ELSE 0)
    BY <1>2, CountsOne
  <1>5. in[n + 1] \in Special => in[n + 1] # "control"
    BY DEF Special
  <1> QED BY <1>1, <1>3, <1>4, <1>5

LEMMA FormLengthType ==
    ASSUME NEW n \in Nat
    PROVE  FormLength(n) \in Nat
  <1> DEFINE S == {k \in 1 .. n : in[k] # "control"}
             T == {k \in 1 .. n : in[k] \in Special}
  <1>1. IsFiniteSet(1 .. n)
    BY FS_Interval
  <1>2. IsFiniteSet(S) /\ IsFiniteSet(T)
    BY <1>1, FS_Subset
  <1>3. Cardinality(S) \in Nat /\ Cardinality(T) \in Nat
    BY <1>2, FS_CardinalityType
  <1> QED BY <1>3 DEF FormLength

\* The forms of fewer characters are no longer, and each character that is
\* not dropped has its place.
LEMMA LengthsGrow ==
    ASSUME NEW n \in Nat, NEW k \in 1 .. n
    PROVE  /\ FormLength(k) \in 0 .. FormLength(n)
           /\ in[k] # "control" => FormLength(k) \in 1 .. FormLength(n)
           /\ in[k] \in Special => FormLength(k) - 1 \in 1 .. FormLength(n)
  <1> DEFINE S(m) == {l \in 1 .. m : in[l] # "control"}
             T(m) == {l \in 1 .. m : in[l] \in Special}
  <1>1. /\ S(k) \subseteq S(n) /\ T(k) \subseteq T(n)
        /\ in[k] # "control" => {k} \subseteq S(k)
        /\ in[k] \in Special => {k} \subseteq T(k)
        /\ S(n) \subseteq 1 .. n /\ T(n) \subseteq 1 .. n
    OBVIOUS
  <1>2. FormLength(k) = Cardinality(S(k)) + Cardinality(T(k))
        /\ FormLength(n) = Cardinality(S(n)) + Cardinality(T(n))
    BY DEF FormLength
  <1> HIDE DEF S, T
  <1>3. IsFiniteSet(S(n)) /\ IsFiniteSet(T(n))
    <2>1. IsFiniteSet(1 .. n)
      BY 1 \in Int, n \in Int, FS_Interval, Zenon
    <2>2. S(n) \in SUBSET (1 .. n) /\ T(n) \in SUBSET (1 .. n)
      BY <1>1
    <2> QED BY <2>1, <2>2, FS_Subset, Zenon
  <1>4. /\ IsFiniteSet(S(k)) /\ Cardinality(S(k)) <= Cardinality(S(n))
        /\ IsFiniteSet(T(k)) /\ Cardinality(T(k)) <= Cardinality(T(n))
    BY <1>1, <1>3, FS_Subset
  <1>5. /\ Cardinality(S(k)) \in Nat /\ Cardinality(S(n)) \in Nat
        /\ Cardinality(T(k)) \in Nat /\ Cardinality(T(n)) \in Nat
    BY <1>3, <1>4, FS_CardinalityType
  <1>6. Cardinality({k}) = 1
    BY FS_Singleton
  <1>7. /\ in[k] # "control" => 1 <= Cardinality(S(k))
        /\ in[k] \in Special => 1 <= Cardinality(T(k))
    BY <1>1, <1>4, <1>6, FS_Subset
  <1>8. in[k] \in Special => in[k] # "control"
    BY DEF Special
  <1> QED BY <1>2, <1>4, <1>5, <1>7, <1>8
-----------------------------------------------------------------------------
(* The invariant.                                                          *)

\* The form of n characters is extended by that of the next one.
LEMMA FormExtended ==
    ASSUME TypeOK, NEW n \in Nat, n < Len(in), NEW text \in Seq(Char), JsonForm(n, text),
           NEW more \in Seq(Char), NEW ch \in Char, ch = in[n + 1],
           more = IF ch \in Special THEN <<"backslash", ch>>
                  ELSE IF ch = "control" THEN <<>> ELSE <<ch>>
    PROVE  JsonForm(n + 1, text \o more)
  <1> DEFINE L == FormLength(n)
             new == text \o more
  <1>1. /\ L \in Nat /\ Len(text) = L
        /\ FormLength(n + 1) = L + Len(more)
    BY FormLengthNext DEF JsonForm, Special
  <1>2. /\ new \in Seq(Char) /\ Len(new) = L + Len(more)
        /\ \A k \in 1 .. L : new[k] = text[k]
        /\ \A k \in 1 .. Len(more) : new[L + k] = more[k]
    BY <1>1
  <1> HIDE DEF L, new
  <1>3. ASSUME NEW k \in 1 .. n
        PROVE  /\ FormLength(k) \in 0 .. L
               /\ in[k] # "control" => FormLength(k) \in 1 .. L
               /\ in[k] \in Special => FormLength(k) - 1 \in 1 .. L
    BY <1>3, LengthsGrow DEF L
  <1>4. ASSUME NEW k \in 1 .. n
        PROVE  /\ in[k] # "control" => new[FormLength(k)] = in[k]
               /\ in[k] \in Special => new[FormLength(k) - 1] = "backslash"
    BY <1>2, <1>3 DEF JsonForm
  <1>5. /\ in[n + 1] # "control" => new[FormLength(n + 1)] = in[n + 1]
        /\ in[n + 1] \in Special => new[FormLength(n + 1) - 1] = "backslash"
    <2>1. CASE ch \in Special
      <3>1. Len(more) = 2 /\ more[1] = "backslash" /\ more[2] = ch
        BY <2>1
      <3> QED BY <1>1, <1>2, <3>1
    <2>2. CASE ch = "letter"
      <3>1. Len(more) = 1 /\ more[1] = ch /\ ch \notin Special
        BY <2>2 DEF Special
      <3> QED BY <1>1, <1>2, <3>1
    <2>3. CASE ch = "control"
      BY <2>3 DEF Special
    <2> QED BY <2>1, <2>2, <2>3 DEF Char, Special
  <1>6. \A k \in 1 .. n + 1 : k \in 1 .. n \/ k = n + 1
    OBVIOUS
  <1>7. JsonForm(n + 1, new)
    BY <1>1, <1>2, <1>4, <1>5, <1>6 DEF JsonForm
  <1> QED BY <1>7 DEF new

LEMMA Initially == Init => IInv
  <1> SUFFICES ASSUME Init PROVE IInv
    OBVIOUS
  <1>1. PICK m \in 0 .. MaxLength : in \in [1 .. m -> Char]
    BY DEF Init, SeqOf
  <1>2. in \in Seq(Char) /\ Len(in) \in Nat
    BY <1>1, LengthAssumption
  <1>3. TypeOK
    BY <1>2, SizesAssumption DEF Init, TypeOK
  <1>4. JsonForm(0, <<>>)
    BY FormLengthEmpty DEF JsonForm
  <1>5. i = 0 /\ out = <<>> /\ out_size \in Nat
    BY <1>3 DEF Init, TypeOK
  <1>6. FormSoFar
    BY <1>4, <1>5 DEF FormSoFar
  <1>7. WithinBuffer
    BY <1>5 DEF WithinBuffer
  <1> QED BY <1>3, <1>6, <1>7 DEF IInv

LEMMA Preserved == IInv /\ [Next]_vars => IInv'
  <1> SUFFICES ASSUME IInv, [Next]_vars PROVE IInv'
    OBVIOUS
  <1>1. TypeOK /\ WithinBuffer /\ FormSoFar
    BY DEF IInv
  <1>2. CASE UNCHANGED vars
    <2>1. FormSoFar'
      BY <1>1, <1>2 DEF vars, FormSoFar, JsonForm, FormLength
    <2> QED BY <1>1, <1>2, <2>1 DEF vars, IInv, TypeOK, WithinBuffer
  <1>3. ASSUME Next PROVE IInv'
    <2>1. Going /\ UNCHANGED <<in, out_size>> /\ i' = i + 1
      BY <1>3 DEF Next, Escape, Copy, Skip
    <2>2. /\ i \in Nat /\ i < Len(in) /\ Len(in) \in Nat /\ c \in Char /\ out \in Seq(Char)
          /\ Len(out) \in Nat /\ out_size \in Nat /\ Len(out) + 1 < out_size
      BY <1>1, <2>1 DEF TypeOK, Going, c
    <2>3. JsonForm(i, out)
      BY <1>1, <2>2 DEF FormSoFar
    <2>5. ASSUME NEW more \in Seq(Char), out' = out \o more,
                 more = IF c \in Special THEN <<"backslash", c>>
                        ELSE IF c = "control" THEN <<>> ELSE <<c>>,
                 Len(out) + Len(more) + 1 <= out_size
          PROVE  IInv'
      <3>1. JsonForm(i + 1, out')
        BY <1>1, <2>2, <2>3, <2>5, FormExtended DEF c
      <3>2. JsonForm(i, out)'
        BY <2>1, <3>1 DEF JsonForm, FormLength
      <3>3. out' \in Seq(Char) /\ Len(out') = Len(out) + Len(more)
        BY <2>2, <2>5
      <3>4. TypeOK' /\ WithinBuffer'
        BY <1>1, <2>1, <2>2, <2>5, <3>3 DEF TypeOK, WithinBuffer
      <3> QED BY <3>2, <3>4 DEF IInv, FormSoFar
    <2>6. CASE Escape
      <3>1. <<"backslash", c>> \in Seq(Char) /\ Len(<<"backslash", c>>) = 2
        BY <2>2 DEF Char
      <3> PICK more \in Seq(Char) : more = <<"backslash", c>>
        BY <3>1
      <3>2. out' = out \o more /\ c \in Special /\ Len(more) = 2 /\ Len(out) + 2 < out_size
        BY <2>6, <3>1 DEF Escape, Fits
      <3>3. Len(out) + Len(more) + 1 <= out_size
        BY <2>2, <3>2
      <3> QED BY <2>5, <3>2, <3>3
    <2>7. CASE Copy
      <3>1. <<c>> \in Seq(Char) /\ Len(<<c>>) = 1 /\ out' = out \o <<c>>
        BY <2>2, <2>7 DEF Copy
      <3>2. CASE c = "letter"
        <4> PICK more \in Seq(Char) : more = <<c>>
          BY <3>1
        <4>1. out' = out \o more /\ c \notin Special /\ c # "control" /\ Len(more) = 1
          BY <3>1, <3>2 DEF Special
        <4>2. Len(out) + Len(more) + 1 <= out_size
          BY <2>2, <4>1
        <4> QED BY <2>5, <4>1, <4>2
      <3>3. CASE c \in Special /\ ~Fits
        <4>1. /\ out' \in Seq(Char) /\ out' # <<>> /\ Len(out') = Len(out) + 1
              /\ Len(out') + 1 = out_size
          BY <2>2, <3>1, <3>3 DEF Fits
        <4>2. out' = Append(out, c)
          BY <2>7 DEF Copy
        <4>3. Front(out') = out /\ Last(out') = c
          BY <2>2, <4>2 DEF Front, Last
        <4>4. JsonForm(i' - 1, Front(out'))
          BY <2>1, <2>2, <2>3, <4>3
        <4>5. FormSoFar'
          <5>1. \A m : FormLength(m)' = FormLength(m)
            BY <2>1 DEF FormLength
          <5>2. JsonForm(i - 1, Front(out))'
            BY <2>1, <4>4, <5>1 DEF JsonForm
          <5>3. (i > 0)' /\ (in[i] \in Special)' /\ (Len(out) + 1 = out_size)' /\ (out # <<>>)' /\ (Last(out) = in[i])'
            BY <2>1, <2>2, <3>3, <4>1, <4>3 DEF c
          <5> QED BY <5>2, <5>3 DEF FormSoFar
        <4>6. TypeOK' /\ WithinBuffer'
          BY <1>1, <2>1, <2>2, <4>1 DEF TypeOK, WithinBuffer
        <4> QED BY <4>5, <4>6 DEF IInv
      <3> QED BY <2>7, <3>2, <3>3 DEF Copy
    <2>8. CASE Skip
      <3>1. /\ <<>> \in Seq(Char) /\ Len(<<>>) = 0 /\ out' = out \o <<>> /\ c = "control"
            /\ c \notin Special
        BY <2>2, <2>8 DEF Skip, Special
      <3> PICK more \in Seq(Char) : more = <<>>
        BY <3>1
      <3>2. out' = out \o more /\ Len(more) = 0 /\ Len(out) + Len(more) + 1 <= out_size
        BY <2>2, <3>1
      <3> QED BY <2>5, <3>1, <3>2
    <2> QED BY <1>3, <2>6, <2>7, <2>8 DEF Next
  <1> QED BY <1>2, <1>3

\* The loop's invariant: the buffer holds the JSON form of what is behind it.
THEOREM Invariance == Spec => []IInv
  BY Initially, Preserved, PTL DEF Spec

\* json_escape_minimal (protocol.c:22-36) never writes beyond its buffer.
THEOREM EscapeStaysWithin == Spec => []WithinBuffer
  BY Invariance, PTL DEF IInv

\* What it returns is the JSON form of as much of the text as there is room
\* for, but for the last byte of a full buffer.
THEOREM EscapeIsJson == Spec => []BareOnlyAtEnd
  <1>1. IInv => BareOnlyAtEnd
    BY DEF IInv, TypeOK, FormSoFar, BareOnlyAtEnd
  <1> QED BY <1>1, Invariance, PTL
-----------------------------------------------------------------------------
(* Concatenations.                                                         *)

\* A concatenation grows by one part at a time.
LEMMA FlattenGrows ==
    ASSUME NEW X, NEW parts \in Lists(X)
    PROVE  \E f \in [0 .. Len(parts) -> Seq(X)] :
             /\ f[0] = <<>> /\ FlattenSeq(parts) = f[Len(parts)]
             /\ \A k \in 1 .. Len(parts) : f[k] = f[k - 1] \o parts[k]
  <1>1. Len(parts) \in Nat /\ \A k \in 1 .. Len(parts) : parts[k] \in Seq(X)
    BY ListParts
  <1>2. CASE parts = <<>>
    <2>1. FlattenSeq(parts) = <<>> /\ Len(parts) = 0
      BY <1>2 DEF FlattenSeq
    <2> DEFINE f == [k \in 0 .. 0 |-> <<>>]
    <2>2. f \in [0 .. 0 -> Seq(X)] /\ f[0] = <<>> /\ 1 .. 0 = {}
      OBVIOUS
    <2> HIDE DEF f
    <2> QED BY <2>1, <2>2
  <1>3. CASE parts # <<>>
    <2>1. PICK g \in [1 .. Len(parts) -> Seq(X)] :
            /\ g[1] = parts[1]
            /\ \A k \in 2 .. Len(parts) : g[k] = g[k - 1] \o parts[k]
            /\ FlattenSeq(parts) = g[Len(parts)]
      BY <1>3, FlattenDef
    <2> PICK n \in Nat : n = Len(parts)
      BY <1>1
    <2>2. n # 0
      BY <1>3, ListParts
    <2> DEFINE f == [k \in 0 .. n |-> IF k = 0 THEN <<>> ELSE g[k]]
    <2>3. f \in [0 .. n -> Seq(X)] /\ f[0] = <<>> /\ FlattenSeq(parts) = f[n]
      <3>1. \A k \in 0 .. n : k # 0 => k \in 1 .. n
        OBVIOUS
      <3>2. <<>> \in Seq(X) /\ n \in 0 .. n /\ 0 \in 0 .. n
        OBVIOUS
      <3> QED BY <2>1, <2>2, <3>1, <3>2
    <2>4. ASSUME NEW k \in 1 .. n PROVE f[k] = f[k - 1] \o parts[k]
      <3>1. CASE k = 1
        <4>1. f[k] = parts[1] /\ f[k - 1] = <<>> /\ parts[1] \in Seq(X)
          BY <1>1, <2>1, <2>2, <3>1
        <4> QED BY <3>1, <4>1
      <3>2. CASE k # 1
        <4>1. k \in 2 .. n /\ k \in 0 .. n /\ k - 1 \in 0 .. n /\ k # 0 /\ k - 1 # 0
          BY <3>2
        <4>2. f[k] = g[k] /\ f[k - 1] = g[k - 1]
          BY <4>1
        <4> HIDE DEF f
        <4> QED BY <2>1, <4>1, <4>2
      <3> QED BY <3>1, <3>2
    <2> HIDE DEF f
    <2> QED BY <2>3, <2>4
  <1> QED BY <1>2, <1>3

\* Dropping a character goes one character at a time.
Drops(X, text, ch, n) ==
    \E f \in [0 .. n -> Seq(X)] :
      /\ f[0] = <<>> /\ Without(text, ch) = f[n]
      /\ \A k \in 1 .. n : f[k] = IF text[k] = ch THEN f[k - 1] ELSE Append(f[k - 1], text[k])

LEMMA WithoutGrows ==
    ASSUME NEW X, NEW text \in Seq(X), NEW ch
    PROVE  Drops(X, text, ch, Len(text))
  <1> DEFINE n == Len(text)
             parts == [k \in 1 .. n |-> IF text[k] = ch THEN <<>> ELSE <<text[k]>>]
  <1>1. n \in Nat /\ DOMAIN text = 1 .. n /\ \A k \in 1 .. n : text[k] \in X
    OBVIOUS
  <1>2. parts \in Lists(X) /\ Len(parts) = n
    BY <1>1 DEF Lists
  <1>3. Without(text, ch) = FlattenSeq(parts)
    BY <1>1, Zenon DEF Without
  <1>4. \A k \in 1 .. n : parts[k] = IF text[k] = ch THEN <<>> ELSE <<text[k]>>
    OBVIOUS
  <1> HIDE DEF parts, n
  <1>5. PICK f \in [0 .. n -> Seq(X)] :
          /\ f[0] = <<>> /\ Without(text, ch) = f[n]
          /\ \A k \in 1 .. n : f[k] = f[k - 1] \o parts[k]
    <2>1. \E f \in [0 .. Len(parts) -> Seq(X)] :
            /\ f[0] = <<>> /\ FlattenSeq(parts) = f[Len(parts)]
            /\ \A k \in 1 .. Len(parts) : f[k] = f[k - 1] \o parts[k]
      BY <1>2, FlattenGrows, Zenon
    <2> QED BY <1>2, <1>3, <2>1, Zenon
  <1>6. ASSUME NEW k \in 1 .. n
        PROVE  f[k] = IF text[k] = ch THEN f[k - 1] ELSE Append(f[k - 1], text[k])
    <2>1. f[k - 1] \in Seq(X) /\ text[k] \in X
      <3>1. k - 1 \in 0 .. n
        BY <1>1
      <3> QED BY <1>1, <1>5, <3>1
    <2>2. f[k] = f[k - 1] \o (IF text[k] = ch THEN <<>> ELSE <<text[k]>>)
      BY <1>4, <1>5
    <2>3. f[k - 1] \o <<text[k]>> = Append(f[k - 1], text[k])
      BY <2>1, AppendIsConcat
    <2>4. f[k - 1] \o <<>> = f[k - 1]
      BY <2>1
    <2> QED BY <2>2, <2>3, <2>4
  <1> QED BY <1>5, <1>6 DEF n, Drops
-----------------------------------------------------------------------------
(* parse_string.                                                           *)

\* What may be typed, and what stringify makes of it.
Typed == Char \union {"null"}

Parsed == [at : {"text", "escaped", "end"}, out : Seq(Typed)]
ParseStart == [at |-> "text", out |-> <<>>]

\* r[k] is where the reader is after k characters.
Parses(r, str) ==
    /\ r \in [0 .. Len(str) -> Parsed] /\ r[0] = ParseStart
    /\ \A k \in 1 .. Len(str) : r[k] = ParseStep(r[k - 1], str[k])

LEMMA ParseStepType ==
    ASSUME NEW r \in Parsed, NEW ch \in Typed
    PROVE  ParseStep(r, ch) \in Parsed
  <1>1. Append(r.out, ch) \in Seq(Typed)
    BY DEF Parsed
  <1> QED BY <1>1 DEF Parsed, ParseStep

\* The reader's steps.
At(place, text) == [at |-> place, out |-> text]

LEMMA ParseSteps ==
    ASSUME NEW s
    PROVE  /\ ParseStep(At("text", s), "letter") = At("text", Append(s, "letter"))
           /\ ParseStep(At("text", s), "backslash") = At("escaped", s)
           /\ ParseStep(At("text", s), "quote") = At("end", s)
           /\ ParseStep(At("escaped", s), "null") = At("text", s)
           /\ \A ch : ch # "null" => ParseStep(At("escaped", s), ch) = At("text", Append(s, ch))
  <1>1. ParseStep(At("text", s), "letter") = At("text", Append(s, "letter"))
    BY DEF At, ParseStep
  <1>2. ParseStep(At("text", s), "backslash") = At("escaped", s)
    BY DEF At, ParseStep
  <1>3. ParseStep(At("text", s), "quote") = At("end", s)
    BY DEF At, ParseStep
  <1>4. ParseStep(At("escaped", s), "null") = At("text", s)
    BY DEF At, ParseStep
  <1>5. \A ch : ch # "null" => ParseStep(At("escaped", s), ch) = At("text", Append(s, ch))
    BY DEF At, ParseStep
  <1> QED BY <1>1, <1>2, <1>3, <1>4, <1>5

LEMMA ParseRun ==
    ASSUME NEW str \in Seq(Typed)
    PROVE  \E r : Parses(r, str) /\ parse_string(str) = r[Len(str)].out
  <1> DEFINE n == Len(str)
             step == [p \in (1 .. n) \X Parsed |-> ParseStep(p[2], str[p[1]])]
  <1>1. n \in Nat /\ \A k \in 1 .. n : str[k] \in Typed
    OBVIOUS
  <1>2. ParseStart \in Parsed
    BY DEF ParseStart, Parsed
  <1>3. step \in [(1 .. n) \X Parsed -> Parsed]
    <2>1. ASSUME NEW p \in (1 .. n) \X Parsed PROVE ParseStep(p[2], str[p[1]]) \in Parsed
      BY <1>1, ParseStepType
    <2> QED BY <2>1
  <1>4. \A k \in 1 .. n : \A r \in Parsed : step[<<k, r>>] = ParseStep(r, str[k])
    OBVIOUS
  <1> HIDE DEF step
  <1>5. PICK g \in [0 .. n -> Parsed] : Recursive(g, n, ParseStart, step)
    <2> HIDE DEF n
    <2> QED BY <1>1, <1>2, <1>3, Recursion, Zenon
  <1>6. g = [k \in 0 .. n |-> IF k = 0 THEN ParseStart ELSE ParseStep(g[k - 1], str[k])]
    <2> HIDE DEF n
    <2>1. ASSUME NEW k \in 0 .. n, k # 0 PROVE step[<<k, g[k - 1]>>] = ParseStep(g[k - 1], str[k])
      <3>1. k \in 1 .. n /\ k - 1 \in 0 .. n
        BY <1>1, <2>1
      <3> QED BY <1>4, <3>1
    <2> QED BY <1>5, <2>1 DEF Recursive
  <1> DEFINE F == CHOOSE r : r = [k \in 0 .. n |-> IF k = 0 THEN ParseStart
                                                  ELSE ParseStep(r[k - 1], str[k])]
  <1>7. F = [k \in 0 .. n |-> IF k = 0 THEN ParseStart ELSE ParseStep(F[k - 1], str[k])]
    BY <1>6
  <1>8. parse_string(str) = F[n].out
    BY DEF parse_string, ParseStart
  <1> HIDE DEF F
  <1>9. F[0] = ParseStart /\ \A k \in 1 .. n : F[k] = ParseStep(F[k - 1], str[k])
    <2>1. F[0] = ParseStart
      BY <1>1, <1>7
    <2>2. \A k \in 1 .. n : F[k] = ParseStep(F[k - 1], str[k])
      BY <1>1, <1>7
    <2> QED BY <2>1, <2>2
  <1> DEFINE S == {k \in Nat : F[k] \in Parsed}
  <1>10. 0 \in S
    BY <1>2, <1>9
  <1>11. ASSUME NEW k \in 0 .. n - 1, k \in S PROVE k + 1 \in S
    <2>1. k + 1 \in 1 .. n /\ (k + 1) - 1 = k /\ k + 1 \in Nat
      BY <1>1
    <2>2. F[k + 1] = ParseStep(F[k], str[k + 1])
      <3> HIDE DEF n
      <3> QED BY <1>9, <2>1
    <2>3. str[k + 1] \in Typed /\ F[k] \in Parsed
      BY <1>1, <1>11, <2>1
    <2> QED BY <2>1, <2>2, <2>3, ParseStepType
  <1>12. F \in [0 .. n -> Parsed]
    <2> HIDE DEF n
    <2>1. 0 .. n \subseteq S
      <3> HIDE DEF S
      <3> QED BY <1>1, <1>10, <1>11, InductionUpTo
    <2>2. \A k \in 0 .. n : F[k] \in Parsed
      BY <2>1
    <2>3. F = [k \in 0 .. n |-> F[k]]
      BY <1>7
    <2> QED BY <2>2, <2>3
  <1>13. Parses(F, str)
    BY <1>9, <1>12 DEF Parses
  <1> QED BY <1>8, <1>13

\* The first loop, in the same way.
Counted == [at : {"text", "escaped", "end"}, len : Nat]
CountStart == [at |-> "text", len |-> 0]

Counts(q, str) ==
    /\ q[0] = CountStart
    /\ \A k \in 1 .. Len(str) : q[k] = LengthStep(q[k - 1], str[k])

LEMMA LengthStepType ==
    ASSUME NEW r \in Counted, NEW ch
    PROVE  LengthStep(r, ch) \in Counted
  BY DEF Counted, LengthStep

LEMMA LengthRun ==
    ASSUME NEW str \in Seq(Typed)
    PROVE  \E q : Counts(q, str) /\ string_length(str) = q[Len(str)].len
  <1> DEFINE n == Len(str)
             step == [p \in (1 .. n) \X Counted |-> LengthStep(p[2], str[p[1]])]
  <1>1. n \in Nat /\ CountStart \in Counted
    BY DEF CountStart, Counted
  <1>2. step \in [(1 .. n) \X Counted -> Counted]
    <2>1. ASSUME NEW p \in (1 .. n) \X Counted PROVE LengthStep(p[2], str[p[1]]) \in Counted
      BY LengthStepType
    <2> QED BY <2>1
  <1>3. \A k \in 1 .. n : \A r \in Counted : step[<<k, r>>] = LengthStep(r, str[k])
    OBVIOUS
  <1> HIDE DEF step
  <1>4. PICK g \in [0 .. n -> Counted] : Recursive(g, n, CountStart, step)
    <2> HIDE DEF n
    <2> QED BY <1>1, <1>2, Recursion, Zenon
  <1>5. g = [k \in 0 .. n |-> IF k = 0 THEN CountStart ELSE LengthStep(g[k - 1], str[k])]
    <2> HIDE DEF n
    <2>1. ASSUME NEW k \in 0 .. n, k # 0 PROVE step[<<k, g[k - 1]>>] = LengthStep(g[k - 1], str[k])
      <3>1. k \in 1 .. n /\ k - 1 \in 0 .. n
        BY <1>1, <2>1
      <3> QED BY <1>3, <3>1
    <2> QED BY <1>4, <2>1 DEF Recursive
  <1> DEFINE F == CHOOSE r : r = [k \in 0 .. n |-> IF k = 0 THEN CountStart
                                                  ELSE LengthStep(r[k - 1], str[k])]
  <1>6. F = [k \in 0 .. n |-> IF k = 0 THEN CountStart ELSE LengthStep(F[k - 1], str[k])]
    BY <1>5
  <1>7. string_length(str) = F[n].len
    BY DEF string_length, CountStart
  <1> HIDE DEF F
  <1>8. Counts(F, str)
    <2>1. F[0] = CountStart
      BY <1>1, <1>6
    <2>2. \A k \in 1 .. n : F[k] = LengthStep(F[k - 1], str[k])
      BY <1>1, <1>6
    <2> QED BY <2>1, <2>2 DEF Counts
  <1> QED BY <1>7, <1>8

\* The loops are at the same place in the string, and the second has written no
\* more than the first has counted, a backslash that is under way included.
Together(r, q) ==
    /\ r \in Parsed /\ q \in Counted /\ r.at = q.at
    /\ Len(r.out) <= q.len /\ (r.at = "escaped" => Len(r.out) + 1 <= q.len)

LEMMA TogetherStep ==
    ASSUME NEW r, NEW q, NEW ch \in Typed, Together(r, q)
    PROVE  Together(ParseStep(r, ch), LengthStep(q, ch))
  <1>1. ParseStep(r, ch) \in Parsed /\ LengthStep(q, ch) \in Counted
    BY ParseStepType, LengthStepType DEF Together
  <1>2. PICK l \in Nat : /\ l = Len(r.out) /\ Len(Append(r.out, ch)) = l + 1
                         /\ q.len \in Nat /\ r.at \in {"text", "escaped", "end"}
    BY DEF Together, Parsed, Counted
  <1>3. CASE r.at = "end"
    BY <1>1, <1>2, <1>3 DEF Together, ParseStep, LengthStep, Parsed, Counted
  <1>4. CASE r.at = "text"
    <2>1. l <= q.len /\ q.at = "text" /\ r.at = "text"
      BY <1>2, <1>4 DEF Together
    <2>2. CASE ch = "quote"
      <3>1. ParseStep(r, ch) = [r EXCEPT !.at = "end"] /\ LengthStep(q, ch) = [q EXCEPT !.at = "end"]
        BY <2>1, <2>2 DEF ParseStep, LengthStep
      <3> QED BY <1>1, <1>2, <2>1, <3>1 DEF Together, Parsed, Counted
    <2>3. CASE ch = "backslash"
      <3>1. /\ ParseStep(r, ch) = [r EXCEPT !.at = "escaped"]
            /\ LengthStep(q, ch) = [at |-> "escaped", len |-> q.len + 1]
        BY <2>1, <2>3 DEF ParseStep, LengthStep
      <3> QED BY <1>1, <1>2, <2>1, <3>1 DEF Together, Parsed, Counted
    <2>4. CASE ch # "quote" /\ ch # "backslash"
      <3>1. /\ ParseStep(r, ch) = [at |-> "text", out |-> Append(r.out, ch)]
            /\ LengthStep(q, ch) = [at |-> "text", len |-> q.len + 1]
        BY <2>1, <2>4 DEF ParseStep, LengthStep
      <3> QED BY <1>1, <1>2, <2>1, <3>1 DEF Together
    <2> QED BY <2>2, <2>3, <2>4
  <1>5. CASE r.at = "escaped"
    <2>1. l + 1 <= q.len /\ q.at = "escaped" /\ r.at = "escaped"
      BY <1>2, <1>5 DEF Together
    <2>2. LengthStep(q, ch) = [q EXCEPT !.at = "text"]
      BY <2>1 DEF LengthStep
    <2>3. CASE ch = "null"
      <3>1. ParseStep(r, ch) = [r EXCEPT !.at = "text"]
        BY <2>1, <2>3 DEF ParseStep
      <3> QED BY <1>1, <1>2, <2>1, <2>2, <3>1 DEF Together, Parsed, Counted
    <2>4. CASE ch # "null"
      <3>1. ParseStep(r, ch) = [at |-> "text", out |-> Append(r.out, ch)]
        BY <2>1, <2>4 DEF ParseStep
      <3> QED BY <1>1, <1>2, <2>1, <2>2, <3>1 DEF Together, Counted
    <2> QED BY <2>3, <2>4
  <1> QED BY <1>2, <1>3, <1>4, <1>5

\* parse_string never writes beyond what it has allocated, whatever the string.
LEMMA LengthEnough ==
    ASSUME NEW str \in Seq(Typed)
    PROVE  Len(parse_string(str)) <= string_length(str)
  <1> PICK n \in Nat : n = Len(str)
    OBVIOUS
  <1>1. PICK r : Parses(r, str) /\ parse_string(str) = r[n].out
    BY ParseRun
  <1>2. PICK q : Counts(q, str) /\ string_length(str) = q[n].len
    BY LengthRun
  <1>3. /\ \A k \in 1 .. n : r[k] = ParseStep(r[k - 1], str[k]) /\ q[k] = LengthStep(q[k - 1], str[k])
        /\ \A k \in 1 .. n : str[k] \in Typed
    BY <1>1, <1>2 DEF Parses, Counts
  <1> DEFINE S == {k \in Nat : Together(r[k], q[k])}
  <1>4. 0 \in S
    <2>1. r[0] = ParseStart /\ q[0] = CountStart
      BY <1>1, <1>2 DEF Parses, Counts
    <2>2. Together(ParseStart, CountStart)
      BY DEF Together, ParseStart, CountStart, Parsed, Counted
    <2> QED BY <2>1, <2>2
  <1>5. ASSUME NEW k \in 0 .. n - 1, k \in S PROVE k + 1 \in S
    <2>1. k + 1 \in 1 .. n /\ (k + 1) - 1 = k /\ k + 1 \in Nat
      OBVIOUS
    <2>2. /\ r[k + 1] = ParseStep(r[k], str[k + 1]) /\ q[k + 1] = LengthStep(q[k], str[k + 1])
          /\ str[k + 1] \in Typed /\ Together(r[k], q[k])
      BY <1>3, <1>5, <2>1
    <2>3. Together(r[k + 1], q[k + 1])
      BY <2>2, TogetherStep
    <2> QED BY <2>1, <2>3
  <1>6. Together(r[n], q[n])
    <2>1. 0 .. n \subseteq S
      <3> HIDE DEF S
      <3> QED BY <1>4, <1>5, InductionUpTo
    <2> QED BY <2>1
  <1>7. Len(r[n].out) <= q[n].len
    BY <1>6, Zenon DEF Together
  <1> QED BY <1>1, <1>2, <1>7

\* A character in a JSON string.
Part(ch) == IF ch = "letter" THEN <<ch>> ELSE <<"backslash", ch>>

LEMMA PartRead ==
    ASSUME NEW ch \in Typed
    PROVE  /\ Part(ch) \in Seq(Typed)
           /\ ch = "letter" => Len(Part(ch)) = 1 /\ Part(ch)[1] = ch
           /\ ch # "letter" => Len(Part(ch)) = 2 /\ Part(ch)[1] = "backslash" /\ Part(ch)[2] = ch
  <1>1. <<ch>> \in Seq(Typed) /\ <<"backslash", ch>> \in Seq(Typed)
    BY DEF Typed, Char
  <1> QED BY <1>1 DEF Part

\* parse_string undoes stringify, but for what it drops.
LEMMA NameRead ==
    ASSUME NEW text \in Seq(Typed)
    PROVE  stringify(text) \in Seq(Typed) /\ parse_string(stringify(text)) = Without(text, "null")
  <1> DEFINE n == Len(text)
             parts == [k \in 1 .. n |-> Part(text[k])]
             form == FlattenSeq(parts)
             str == stringify(text)
  <1>1. n \in Nat /\ \A k \in 1 .. n : text[k] \in Typed
    OBVIOUS
  <1>2. parts \in Lists(Typed) /\ Len(parts) = n
    BY <1>1, PartRead DEF Lists
  <1>3. str = form \o <<"quote">>
    <2>1. DOMAIN text = 1 .. n
      OBVIOUS
    <2> QED BY <2>1, Zenon DEF stringify, Part
  <1>4. \A k \in 1 .. n : parts[k] = Part(text[k])
    OBVIOUS
  <1> HIDE DEF parts
  <1>5. PICK at : form \in Seq(Typed) /\ Concatenates(form, at, parts)
    BY <1>2, FlattenHas
  <1>6. /\ at \in [1 .. n + 1 -> Nat] /\ at[1] = 0 /\ Len(form) = at[n + 1]
        /\ \A k \in 1 .. n : at[k + 1] = at[k] + Len(parts[k])
        /\ \A k \in 1 .. n : \A b \in 1 .. Len(parts[k]) : form[at[k] + b] = parts[k][b]
    BY <1>2, <1>5 DEF Concatenates, Layout
  <1> HIDE DEF form, str, n
  <1>7. /\ str \in Seq(Typed) /\ Len(str) = Len(form) + 1 /\ str[Len(form) + 1] = "quote"
        /\ \A b \in 1 .. Len(form) : str[b] = form[b]
    <2>1. <<"quote">> \in Seq(Typed) /\ Len(<<"quote">>) = 1 /\ <<"quote">>[1] = "quote"
      BY DEF Typed, Char
    <2>2. str \in Seq(Typed) /\ Joins(str, form, <<"quote">>)
      BY <1>3, <1>5, <2>1, ConcatParts
    <2> QED BY <2>1, <2>2 DEF Joins
  <1>8. PICK r : Parses(r, str) /\ parse_string(str) = r[Len(str)].out
    BY <1>7, ParseRun
  <1>9. \A k \in 1 .. Len(form) + 1 : r[k] = ParseStep(r[k - 1], str[k])
    BY <1>7, <1>8 DEF Parses
  <1>10. PICK f \in [0 .. n -> Seq(Typed)] :
           /\ f[0] = <<>> /\ Without(text, "null") = f[n]
           /\ \A k \in 1 .. n : f[k] = IF text[k] = "null" THEN f[k - 1] ELSE Append(f[k - 1], text[k])
    <2>1. Drops(Typed, text, "null", n)
      BY WithoutGrows DEF n
    <2> QED BY <2>1 DEF Drops
  <1>11. \A k \in 1 .. n + 1 : at[k] \in Nat /\ at[k] <= Len(form)
    <2>1. n + 1 \in 1 .. n + 1
      BY <1>1
    <2>2. ASSUME NEW k \in 1 .. n + 1 PROVE at[k] \in Nat /\ at[k] <= at[n + 1]
      <3>1. n + 1 \in k .. n + 1 /\ Layout(at, parts)
        BY <1>1, <1>5 DEF Concatenates
      <3> QED BY <1>2, <3>1, LayoutGrows
    <2> QED BY <1>6, <2>2
  <1> DEFINE Read(k) == r[at[k + 1]] = At("text", f[k])
             S == {k \in Nat : Read(k)}
  <1>12. 0 \in S
    BY <1>6, <1>8, <1>10 DEF Parses, ParseStart, At
  <1>13. ASSUME NEW k \in 0 .. n - 1, k \in S PROVE k + 1 \in S
    <2> DEFINE ch == text[k + 1]
    <2>1. /\ k \in Nat /\ k + 1 \in 1 .. n /\ k + 1 \in 1 .. n + 1 /\ k + 2 \in 1 .. n + 1 /\ ch \in Typed
          /\ (k + 1) - 1 = k /\ (k + 1) + 1 = k + 2
      BY <1>1
    <2>2. f[k + 1] = IF ch = "null" THEN f[k] ELSE Append(f[k], ch)
      BY <1>10, <2>1
    <2>3. r[at[k + 1]] = At("text", f[k])
      BY <1>13
    <2>a. PICK p \in Nat : p = at[k + 1]
      BY <1>11, <2>1
    <2>b. PICK l \in Nat : l = Len(form)
      BY <1>5
    <2>4. /\ at[k + 2] = p + Len(Part(ch)) /\ p + Len(Part(ch)) <= l
          /\ \A b \in 1 .. Len(Part(ch)) : form[p + b] = Part(ch)[b]
      <3>1. /\ at[k + 2] = at[k + 1] + Len(parts[k + 1])
            /\ \A b \in 1 .. Len(parts[k + 1]) : form[at[k + 1] + b] = parts[k + 1][b]
        BY <1>6, <2>1
      <3>2. at[k + 2] <= Len(form)
        BY <1>11, <2>1
      <3> QED BY <1>4, <2>1, <2>a, <2>b, <3>1, <3>2
    <2>5. \A b \in 1 .. l : r[b] = ParseStep(r[b - 1], form[b])
      BY <1>7, <1>9, <2>b
    <2>6. r[at[k + 2]] = At("text", f[k + 1])
      <3>1. CASE ch = "letter"
        <4>1. Len(Part(ch)) = 1 /\ Part(ch)[1] = ch
          BY <2>1, <3>1, PartRead
        <4>2. at[k + 2] = p + 1 /\ p + 1 \in 1 .. l /\ form[p + 1] = ch /\ (p + 1) - 1 = p
          BY <2>4, <4>1
        <4>3. r[p + 1] = ParseStep(r[p], ch)
          BY <2>5, <4>2
        <4>4. f[k + 1] = Append(f[k], "letter")
          BY <2>2, <3>1
        <4> QED BY <2>2, <2>3, <2>a, <3>1, <4>2, <4>3, <4>4, ParseSteps, Zenon
      <3>2. CASE ch # "letter"
        <4>1. Len(Part(ch)) = 2 /\ Part(ch)[1] = "backslash" /\ Part(ch)[2] = ch
          BY <2>1, <3>2, PartRead
        <4>2. /\ at[k + 2] = p + 2 /\ p + 1 \in 1 .. l /\ form[p + 1] = "backslash" /\ (p + 1) - 1 = p
              /\ p + 2 \in 1 .. l /\ form[p + 2] = ch /\ (p + 2) - 1 = p + 1
          BY <2>4, <4>1
        <4>3. r[p + 1] = ParseStep(r[p], "backslash") /\ r[p + 2] = ParseStep(r[p + 1], ch)
          BY <2>5, <4>2
        <4>4. r[p + 1] = At("escaped", f[k])
          BY <2>3, <2>a, <4>3, ParseSteps, Zenon
        <4>5. CASE ch = "null"
          BY <2>2, <4>2, <4>3, <4>4, <4>5, ParseSteps, Zenon
        <4>6. CASE ch # "null"
          <5>1. ParseStep(At("escaped", f[k]), ch) = At("text", Append(f[k], ch))
            <6> HIDE DEF ch
            <6> QED BY <4>6, ParseSteps
          <5>2. f[k + 1] = Append(f[k], ch)
            BY <2>2, <4>6
          <5> QED BY <4>2, <4>3, <4>4, <5>1, <5>2, Zenon
        <4> QED BY <4>5, <4>6
      <3> QED BY <3>1, <3>2
    <2>7. r[at[(k + 1) + 1]] = At("text", f[k + 1])
      BY <2>1, <2>6, Zenon
    <2>8. k + 1 \in Nat
      BY <2>1
    <2> QED BY <2>7, <2>8
  <1>14. Read(n)
    <2>1. n \in Nat
      BY <1>1
    <2>2. 0 .. n \subseteq S
      <3> HIDE DEF S
      <3> QED BY <1>12, <1>13, <2>1, InductionUpTo
    <2> QED BY <2>1, <2>2
  <1>15. r[Len(str)] = At("end", f[n])
    <2>1. r[Len(form) + 1] = ParseStep(r[Len(form)], "quote")
      <3>1. Len(form) + 1 \in 1 .. Len(form) + 1 /\ (Len(form) + 1) - 1 = Len(form)
        BY <1>5
      <3> QED BY <1>7, <1>9, <3>1
    <2>2. r[Len(form)] = At("text", f[n])
      BY <1>6, <1>10, <1>14
    <2> QED BY <1>7, <2>1, <2>2, ParseSteps, Zenon
  <1> QED BY <1>7, <1>8, <1>10, <1>15 DEF str, At

\* The server has the text that was typed, but for its NULs: stringify and
\* parse_string (cJSON.c:157-214) are inverses, and parse_string writes within
\* what it has allocated.
THEOREM NamesAreRead == Spec => []ReadAsTyped
  <1>1. ASSUME IInv PROVE ReadAsTyped
    <2> SUFFICES ASSUME NEW nulls \in SUBSET DOMAIN in
                 PROVE  LET text == [k \in DOMAIN in |-> IF k \in nulls THEN "null" ELSE in[k]]
                            str  == stringify(text)
                        IN  /\ parse_string(str) = Without(text, "null")
                            /\ Len(parse_string(str)) <= string_length(str)
      BY Zenon DEF ReadAsTyped
    <2> PICK n \in Nat : n = Len(in)
      BY <1>1 DEF IInv, TypeOK
    <2>1. DOMAIN in = 1 .. n /\ \A k \in 1 .. n : in[k] \in Typed
      BY <1>1 DEF IInv, TypeOK, Typed
    <2>2. PICK text : text = [k \in DOMAIN in |-> IF k \in nulls THEN "null" ELSE in[k]]
      OBVIOUS
    <2>3. text \in Seq(Typed)
      <3>1. "null" \in Typed
        BY DEF Typed
      <3>2. text = [k \in 1 .. n |-> IF k \in nulls THEN "null" ELSE in[k]]
        BY <2>1, <2>2
      <3>3. \A k \in 1 .. n : text[k] \in Typed
        BY <2>1, <3>1, <3>2
      <3> QED BY <3>2, <3>3
    <2>4. stringify(text) \in Seq(Typed) /\ parse_string(stringify(text)) = Without(text, "null")
      BY <2>3, NameRead
    <2>5. Len(parse_string(stringify(text))) <= string_length(stringify(text))
      BY <2>4, LengthEnough
    <2> QED BY <2>2, <2>4, <2>5, Zenon
  <1> QED BY <1>1, Invariance, PTL
-----------------------------------------------------------------------------
(* Strict readers.                                                         *)

StrictRead == [at : {"start", "want", "text", "escaped", "closed", "end", "error", "lost"},
               texts : Seq(Seq(Symbol)), text : Seq(Symbol)]
On(place, texts, text) == [at |-> place, texts |-> texts, text |-> text]
Start == On("start", <<>>, <<>>)

\* Symbols that stand for themselves in a string.
Plain == Symbol \ {"quote", "backslash", "control"}

\* The reader's steps.
LEMMA Opened == \A ts, t : StrictStep(On("start", ts, t), "{") = On("want", ts, t)
  BY DEF On, StrictStep, Place
LEMMA TextOpened == \A ts, t : StrictStep(On("want", ts, t), "quote") = On("text", ts, t)
  BY DEF On, StrictStep, Place
LEMMA TextClosed == \A ts, t : StrictStep(On("text", ts, t), "quote") = On("closed", Append(ts, t), <<>>)
  BY DEF On, StrictStep, Place
LEMMA BackslashRead == \A ts, t : StrictStep(On("text", ts, t), "backslash") = On("escaped", ts, t)
  BY DEF On, StrictStep, Place
LEMMA ErrorStays == \A ts, t, ch : StrictStep(On("error", ts, t), ch) = On("error", ts, t)
  BY DEF On, StrictStep, Place

LEMMA PlainRead ==
    ASSUME NEW ts, NEW t, NEW ch \in Plain
    PROVE  StrictStep(On("text", ts, t), ch) = On("text", ts, Append(t, ch))
  <1>1. Place("text", Len(ts) % 2 = 1, ch) = "text"
    BY DEF Plain, Place
  <1> QED BY <1>1 DEF On, StrictStep

LEMMA SpecialRead ==
    ASSUME NEW ts, NEW t, NEW ch \in Special
    PROVE  StrictStep(On("escaped", ts, t), ch) = On("text", ts, Append(t, ch))
  <1>1. Place("escaped", Len(ts) % 2 = 1, ch) = "text"
    BY DEF Place
  <1> QED BY <1>1 DEF On, StrictStep

LEMMA KeyEnded ==
    ASSUME NEW ts, NEW t, Len(ts) % 2 = 1
    PROVE  StrictStep(On("closed", ts, t), ":") = On("want", ts, t)
  <1>1. Place("closed", Len(ts) % 2 = 1, ":") = "want"
    BY DEF Place
  <1> QED BY <1>1 DEF On, StrictStep

LEMMA ValueEnded ==
    ASSUME NEW ts, NEW t, Len(ts) % 2 = 0
    PROVE  /\ StrictStep(On("closed", ts, t), ",") = On("want", ts, t)
           /\ StrictStep(On("closed", ts, t), "}") = On("end", ts, t)
  <1>1. /\ Place("closed", Len(ts) % 2 = 1, ",") = "want"
        /\ Place("closed", Len(ts) % 2 = 1, "}") = "end"
    BY DEF Place
  <1> QED BY <1>1 DEF On, StrictStep

LEMMA GoneStays ==
    ASSUME NEW r, NEW ch, r.at \in {"end", "lost"}
    PROVE  StrictStep(r, ch).at = "lost"
  BY DEF StrictStep, Place

LEMMA StrictStepType ==
    ASSUME NEW r \in StrictRead, NEW ch \in Symbol
    PROVE  StrictStep(r, ch) \in StrictRead
  <1>1. /\ <<>> \in Seq(Symbol) /\ r.text \in Seq(Symbol) /\ r.texts \in Seq(Seq(Symbol))
        /\ Append(r.texts, r.text) \in Seq(Seq(Symbol)) /\ Append(r.text, ch) \in Seq(Symbol)
    BY DEF StrictRead
  <1>2. Place(r.at, Len(r.texts) % 2 = 1, ch) \in
          {"start", "want", "text", "escaped", "closed", "end", "error", "lost"}
    BY DEF Place
  <1> HIDE DEF Symbol
  <1> QED BY <1>1, <1>2 DEF StrictRead, StrictStep

\* r is the way of the reader from s over the symbols of d, to t.
Runs(r, s, d) == r[0] = s /\ \A k \in 1 .. Len(d) : r[k] = StrictStep(r[k - 1], d[k])
Leads(s, d, t) == \E r : Runs(r, s, d) /\ r[Len(d)] = t

LEMMA RunFrom ==
    ASSUME NEW d \in Seq(Symbol), NEW s \in StrictRead
    PROVE  \E r \in [0 .. Len(d) -> StrictRead] : Runs(r, s, d)
  <1> DEFINE n == Len(d)
             step == [p \in (1 .. n) \X StrictRead |-> StrictStep(p[2], d[p[1]])]
  <1>1. n \in Nat /\ \A k \in 1 .. n : d[k] \in Symbol
    OBVIOUS
  <1>2. step \in [(1 .. n) \X StrictRead -> StrictRead]
    <2>1. ASSUME NEW p \in (1 .. n) \X StrictRead PROVE StrictStep(p[2], d[p[1]]) \in StrictRead
      BY <1>1, StrictStepType
    <2> QED BY <2>1
  <1>3. \A k \in 1 .. n : \A r \in StrictRead : step[<<k, r>>] = StrictStep(r, d[k])
    OBVIOUS
  <1> HIDE DEF step
  <1>4. PICK g \in [0 .. n -> StrictRead] : Recursive(g, n, s, step)
    <2> HIDE DEF n
    <2> QED BY <1>1, <1>2, Recursion, Zenon
  <1>5. ASSUME NEW k \in 1 .. n PROVE g[k] = StrictStep(g[k - 1], d[k])
    <2> HIDE DEF n
    <2>1. k \in 0 .. n /\ k - 1 \in 0 .. n /\ k # 0
      BY <1>1
    <2> QED BY <1>3, <1>4, <2>1 DEF Recursive
  <1>6. g[0] = s
    BY <1>1, <1>4 DEF Recursive
  <1> QED BY <1>4, <1>5, <1>6 DEF Runs

\* A strict reader is where its steps lead.
LEMMA StrictIs ==
    ASSUME NEW d \in Seq(Symbol), NEW t, Leads(Start, d, t)
    PROVE  Strict(d) = t
  <1> DEFINE n == Len(d)
  <1>1. n \in Nat
    OBVIOUS
  <1>2. PICK q : Runs(q, Start, d) /\ q[n] = t
    BY DEF Leads
  <1> DEFINE g == [k \in 0 .. n |-> q[k]]
             F == CHOOSE r : r = [k \in 0 .. n |-> IF k = 0 THEN Start ELSE StrictStep(r[k - 1], d[k])]
  <1>3. g = [k \in 0 .. n |-> IF k = 0 THEN Start ELSE StrictStep(g[k - 1], d[k])]
    <2> HIDE DEF n
    <2>1. ASSUME NEW k \in 0 .. n, k # 0 PROVE k \in 1 .. n /\ k - 1 \in 0 .. n
      BY <1>1, <2>1
    <2>2. \A k \in 1 .. n : q[k] = StrictStep(q[k - 1], d[k])
      BY <1>2 DEF Runs, n
    <2>3. q[0] = Start
      BY <1>2 DEF Runs
    <2>4. ASSUME NEW k \in 0 .. n
          PROVE  g[k] = IF k = 0 THEN Start ELSE StrictStep(g[k - 1], d[k])
      BY <2>1, <2>2, <2>3
    <2> QED BY <2>4
  <1>4. F = [k \in 0 .. n |-> IF k = 0 THEN Start ELSE StrictStep(F[k - 1], d[k])]
    <2> HIDE DEF n, g
    <2> QED BY <1>3
  <1>5. Strict(d) = F[n]
    BY DEF Strict, Start, On
  <1> HIDE DEF F
  <1> DEFINE S == {k \in Nat : F[k] = q[k]}
  <1>6. 0 \in S
    <2>1. F[0] = Start /\ q[0] = Start
      BY <1>1, <1>2, <1>4 DEF Runs
    <2> QED BY <2>1
  <1>7. ASSUME NEW k \in 0 .. n - 1, k \in S PROVE k + 1 \in S
    <2>1. k + 1 \in 1 .. n /\ (k + 1) - 1 = k /\ k + 1 \in Nat /\ k + 1 # 0 /\ k + 1 \in 0 .. n
      BY <1>1
    <2>2. F[k + 1] = StrictStep(F[k], d[k + 1])
      <3> HIDE DEF n
      <3> QED BY <1>4, <2>1
    <2>3. q[k + 1] = StrictStep(q[k], d[k + 1])
      BY <1>2, <2>1 DEF Runs
    <2> QED BY <1>7, <2>1, <2>2, <2>3
  <1>8. F[n] = q[n]
    <2>1. 0 .. n \subseteq S
      <3> HIDE DEF S, n
      <3> QED BY <1>1, <1>6, <1>7, InductionUpTo
    <2> QED BY <1>1, <2>1
  <1> QED BY <1>2, <1>5, <1>8

\* What has come to its end, or is not followed any further, stays so: the
\* reader of a part of the document has not.
LEMMA PartRefused ==
    ASSUME NEW d \in Seq(Symbol), NEW t, Leads(Start, d, t), t.at # "lost",
           NEW m \in 0 .. Len(d) - 1
    PROVE  Strict(SubSeq(d, 1, m)).at \notin {"end", "lost"}
  <1> PICK n \in Nat : n = Len(d)
    OBVIOUS
  <1>1. PICK r : Runs(r, Start, d) /\ r[n] = t
    BY DEF Leads
  <1>2. r[0] = Start /\ \A k \in 1 .. n : r[k] = StrictStep(r[k - 1], d[k])
    BY <1>1 DEF Runs
  <1>3. PICK p : p = SubSeq(d, 1, m)
    OBVIOUS
  <1>4. p \in Seq(Symbol) /\ Len(p) = m /\ \A k \in 1 .. m : p[k] = d[k]
    <2>1. \A k \in 1 .. m : d[k] \in Symbol
      OBVIOUS
    <2> QED BY <1>3, <2>1
  <1>5. Runs(r, Start, p)
    <2>1. \A k \in 1 .. m : k \in 1 .. n
      OBVIOUS
    <2> QED BY <1>2, <1>4, <2>1 DEF Runs
  <1>6. Strict(p) = r[m]
    <2>1. Leads(Start, p, r[m])
      BY <1>4, <1>5 DEF Leads
    <2> QED BY <1>4, <2>1, StrictIs
  <1>7. ASSUME NEW k \in 0 .. n - 1, r[k].at \in {"end", "lost"} PROVE r[k + 1].at = "lost"
    <2>1. k + 1 \in 1 .. n /\ (k + 1) - 1 = k
      OBVIOUS
    <2>2. r[k + 1] = StrictStep(r[k], d[k + 1])
      BY <1>2, <2>1
    <2>3. StrictStep(r[k], d[k + 1]).at = "lost"
      BY <1>7, GoneStays
    <2> QED BY <2>2, <2>3
  <1>8. SUFFICES ASSUME r[m].at \in {"end", "lost"} PROVE FALSE
    BY <1>3, <1>6
  <1> DEFINE S == {k \in Nat : m < k => r[k].at = "lost"}
  <1>9. 0 \in S
    OBVIOUS
  <1>10. ASSUME NEW k \in 0 .. n - 1, k \in S PROVE k + 1 \in S
    <2>1. ASSUME m < k + 1 PROVE r[k].at \in {"end", "lost"}
      <3>1. m = k \/ m < k
        BY <2>1
      <3> QED BY <1>8, <1>10, <3>1
    <2> QED BY <1>7, <2>1
  <1>11. n \in S
    <2>1. 0 .. n \subseteq S
      <3> HIDE DEF S
      <3> QED BY <1>9, <1>10, InductionUpTo
    <2> QED BY <2>1
  <1>12. m < n
    OBVIOUS
  <1> QED BY <1>1, <1>11, <1>12

LEMMA LeadsOne ==
    ASSUME NEW s, NEW ch, NEW t, StrictStep(s, ch) = t
    PROVE  Leads(s, <<ch>>, t)
  <1> DEFINE r == [k \in 0 .. 1 |-> IF k = 0 THEN s ELSE t]
  <1>1. r[0] = s /\ r[1] = t
    OBVIOUS
  <1>0. PICK d : d = <<ch>>
    OBVIOUS
  <1>2. d = <<ch>> /\ Len(d) = 1 /\ d[1] = ch
    BY <1>0
  <1> HIDE DEF r
  <1>3. ASSUME NEW k \in 1 .. Len(d) PROVE r[k] = StrictStep(r[k - 1], d[k])
    <2>1. k = 1 /\ k - 1 = 0
      BY <1>2
    <2> QED BY <1>1, <1>2, <2>1
  <1>4. Leads(s, d, t)
    BY <1>1, <1>2, <1>3 DEF Runs, Leads
  <1> QED BY <1>2, <1>4

LEMMA LeadsJoin ==
    ASSUME NEW d \in Seq(Symbol), NEW e \in Seq(Symbol), NEW s, NEW t, NEW u,
           Leads(s, d, t), Leads(t, e, u)
    PROVE  d \o e \in Seq(Symbol) /\ Leads(s, d \o e, u)
  <1> PICK m \in Nat, l \in Nat : m = Len(d) /\ l = Len(e)
    OBVIOUS
  <1>1. PICK w : w = d \o e
    OBVIOUS
  <1>2. w \in Seq(Symbol) /\ Joins(w, d, e)
    BY <1>1, ConcatParts
  <1>3. /\ Len(w) = m + l
        /\ \A b \in 1 .. m : w[b] = d[b]
        /\ \A b \in 1 .. l : w[m + b] = e[b]
    BY <1>2 DEF Joins
  <1>4. PICK p : p[0] = s /\ p[m] = t /\ \A k \in 1 .. m : p[k] = StrictStep(p[k - 1], d[k])
    BY DEF Leads, Runs
  <1>5. PICK q : q[0] = t /\ q[l] = u /\ \A k \in 1 .. l : q[k] = StrictStep(q[k - 1], e[k])
    BY DEF Leads, Runs
  <1> DEFINE r == [k \in 0 .. m + l |-> IF k <= m THEN p[k] ELSE q[k - m]]
  <1>6. \A k \in 0 .. m : r[k] = p[k]
    OBVIOUS
  <1>7. \A k \in 0 .. l : r[m + k] = q[k]
    <2>1. ASSUME NEW k \in 0 .. l PROVE r[m + k] = q[k]
      <3>1. CASE k = 0
        BY <1>4, <1>5, <3>1
      <3>2. CASE k # 0
        <4>1. m + k \in 0 .. m + l /\ ~(m + k <= m) /\ (m + k) - m = k
          BY <3>2
        <4> QED BY <4>1
      <3> QED BY <3>1, <3>2
    <2> QED BY <2>1
  <1> HIDE DEF r
  <1>8. ASSUME NEW k \in 1 .. m + l PROVE r[k] = StrictStep(r[k - 1], w[k])
    <2>1. CASE k <= m
      <3>1. k \in 1 .. m /\ k \in 0 .. m /\ k - 1 \in 0 .. m
        BY <2>1
      <3> QED BY <1>3, <1>4, <1>6, <3>1
    <2>2. CASE ~(k <= m)
      <3> DEFINE j == k - m
      <3>1. j \in 1 .. l
        BY <2>2
      <3>2. j \in 0 .. l /\ j - 1 \in 0 .. l /\ m + j = k /\ m + (j - 1) = k - 1
        BY <3>1
      <3>3. r[k] = q[j] /\ r[k - 1] = q[j - 1] /\ w[k] = e[j]
        BY <1>3, <1>7, <3>1, <3>2
      <3> QED BY <1>5, <3>1, <3>3
    <2> QED BY <2>1, <2>2
  <1>9. r[0] = s /\ r[m + l] = u
    <2>1. 0 \in 0 .. m /\ l \in 0 .. l
      OBVIOUS
    <2> QED BY <1>4, <1>5, <1>6, <1>7, <2>1
  <1>10. Leads(s, w, u)
    BY <1>3, <1>8, <1>9 DEF Leads, Runs
  <1> QED BY <1>1, <1>2, <1>10

LEMMA LeadsError ==
    ASSUME NEW d \in Seq(Symbol), NEW ts, NEW t
    PROVE  Leads(On("error", ts, t), d, On("error", ts, t))
  <1> PICK n \in Nat : n = Len(d)
    OBVIOUS
  <1> PICK e : e = On("error", ts, t)
    OBVIOUS
  <1> DEFINE r == [k \in 0 .. n |-> e]
  <1>1. \A k \in 0 .. n : r[k] = e
    OBVIOUS
  <1> HIDE DEF r
  <1>2. \A k \in 1 .. n : k \in 0 .. n /\ k - 1 \in 0 .. n
    OBVIOUS
  <1>3. \A ch : StrictStep(e, ch) = e
    BY ErrorStays
  <1>4. r[0] = e /\ r[n] = e /\ \A k \in 1 .. n : r[k] = StrictStep(r[k - 1], d[k])
    BY <1>1, <1>2, <1>3
  <1> QED BY <1>4 DEF Leads, Runs

\* Some characters of a text.
LEMMA PrefixGrows ==
    ASSUME NEW X, NEW text \in Seq(X)
    PROVE  /\ SubSeq(text, 1, 0) = <<>> /\ SubSeq(text, 1, Len(text)) = text
           /\ \A k \in 1 .. Len(text) :
                SubSeq(text, 1, k) = Append(SubSeq(text, 1, k - 1), text[k])
  <1>1. ASSUME NEW k \in 1 .. Len(text)
        PROVE  SubSeq(text, 1, k) = Append(SubSeq(text, 1, k - 1), text[k])
    <2>1. 1 \in 1 .. Len(text) /\ k \in 1 .. Len(text) /\ k - 1 \in Int
      OBVIOUS
    <2>2. SubSeq(text, 1, k) = SubSeq(text, 1, k - 1) \o <<text[k]>>
      BY <2>1, SubSeqRecursiveSecond
    <2>3. SubSeq(text, 1, k - 1) \in Seq(X) /\ text[k] \in X
      OBVIOUS
    <2> HIDE <2>1
    <2> QED BY <2>2, <2>3, AppendIsConcat
  <1> QED BY <1>1, SubSeqEmpty, SubSeqFull

\* A plain text is read as it is.
LEMMA LeadsPlain ==
    ASSUME NEW text \in Seq(Plain), NEW ts
    PROVE  Leads(On("text", ts, <<>>), text, On("text", ts, text))
  <1> PICK n \in Nat : n = Len(text)
    OBVIOUS
  <1> DEFINE r == [k \in 0 .. n |-> On("text", ts, SubSeq(text, 1, k))]
  <1>1. \A k \in 0 .. n : r[k] = On("text", ts, SubSeq(text, 1, k))
    OBVIOUS
  <1> HIDE DEF r
  <1>2. /\ SubSeq(text, 1, 0) = <<>> /\ SubSeq(text, 1, n) = text
        /\ \A k \in 1 .. n : SubSeq(text, 1, k) = Append(SubSeq(text, 1, k - 1), text[k])
    BY PrefixGrows
  <1>3. ASSUME NEW k \in 1 .. n PROVE r[k] = StrictStep(r[k - 1], text[k])
    <2>1. k \in 0 .. n /\ k - 1 \in 0 .. n /\ text[k] \in Plain
      OBVIOUS
    <2>2. PICK u : u = SubSeq(text, 1, k - 1)
      OBVIOUS
    <2>3. r[k] = On("text", ts, Append(u, text[k])) /\ r[k - 1] = On("text", ts, u)
      BY <1>1, <1>2, <2>1, <2>2
    <2>4. StrictStep(On("text", ts, u), text[k]) = On("text", ts, Append(u, text[k]))
      BY <2>1, PlainRead
    <2> QED BY <2>3, <2>4
  <1>4. r[0] = On("text", ts, <<>>) /\ r[n] = On("text", ts, text)
    <2>1. r[0] = On("text", ts, <<>>)
      <3>1. r[0] = On("text", ts, SubSeq(text, 1, 0))
        BY <1>1
      <3> QED BY <1>2, <3>1
    <2>2. r[n] = On("text", ts, text)
      <3>1. r[n] = On("text", ts, SubSeq(text, 1, n))
        BY <1>1
      <3> QED BY <1>2, <3>1
    <2> QED BY <2>1, <2>2
  <1> QED BY <1>3, <1>4 DEF Leads, Runs

\* The texts before a member, after its key, and after it.
Even(ts) == ts \in Seq(Seq(Symbol)) /\ Len(ts) % 2 = 0
Keyed(ts, key) == Append(ts, <<key>>)
Added(ts, key, text) == Append(Keyed(ts, key), text)

Opening(key) == <<"quote", key, "quote", ":", "quote">>

LEMMA TextsGrow ==
    ASSUME NEW ts, Even(ts), NEW key \in Symbol, NEW text \in Seq(Symbol)
    PROVE  /\ Keyed(ts, key) \in Seq(Seq(Symbol)) /\ Len(Keyed(ts, key)) % 2 = 1
           /\ Even(Added(ts, key, text)) /\ Len(Added(ts, key, text)) = Len(ts) + 2
           /\ Added(ts, key, text)[Len(ts) + 1] = <<key>> /\ Added(ts, key, text)[Len(ts) + 2] = text
           /\ \A k \in 1 .. Len(ts) : Added(ts, key, text)[k] = ts[k]
  <1> DEFINE T == Seq(Symbol)
  <1>1. ts \in Seq(T) /\ <<key>> \in T /\ text \in T
    BY DEF Even
  <1> HIDE DEF T
  <1> PICK k : k = <<key>>
    OBVIOUS
  <1> PICK n \in Nat : n = Len(ts)
    BY <1>1
  <1>2. n % 2 = 0
    BY DEF Even
  <1>3. PICK u : u = Append(ts, k)
    OBVIOUS
  <1>4. u \in Seq(T) /\ Len(u) = n + 1 /\ u[n + 1] = k /\ \A j \in 1 .. n : u[j] = ts[j]
    BY <1>1, <1>3
  <1>5. PICK v : v = Append(u, text)
    OBVIOUS
  <1>6. v \in Seq(T) /\ Len(v) = n + 2 /\ v[n + 2] = text /\ \A j \in 1 .. n + 1 : v[j] = u[j]
    BY <1>1, <1>4, <1>5
  <1>7. (n + 1) % 2 = 1 /\ (n + 2) % 2 = 0
    BY <1>2
  <1>8. v[n + 1] = k /\ \A j \in 1 .. n : v[j] = ts[j]
    BY <1>4, <1>6
  <1>9. u = Keyed(ts, key) /\ v = Added(ts, key, text)
    BY <1>3, <1>5 DEF Keyed, Added
  <1> QED BY <1>4, <1>6, <1>7, <1>8, <1>9 DEF Even, T

LEMMA OpeningRead ==
    ASSUME NEW ts, Even(ts), NEW key \in {"username", "password"}
    PROVE  /\ Opening(key) \in Seq(Symbol)
           /\ Leads(On("want", ts, <<>>), Opening(key), On("text", Keyed(ts, key), <<>>))
  <1>1. PICK d : d = Opening(key)
    OBVIOUS
  <1>2. key \in Symbol /\ key \in Plain /\ "quote" \in Symbol /\ ":" \in Symbol
    BY DEF Symbol, Plain, Marks, Char
  <1>3. /\ d \in Seq(Symbol) /\ Len(d) = 5 /\ d[1] = "quote" /\ d[2] = key /\ d[3] = "quote"
        /\ d[4] = ":" /\ d[5] = "quote"
    BY <1>1, <1>2 DEF Opening
  <1> PICK us : us = Keyed(ts, key)
    OBVIOUS
  <1>4. Len(us) % 2 = 1
    <2>1. <<>> \in Seq(Symbol)
      OBVIOUS
    <2> QED BY <1>2, <2>1, TextsGrow
  <1>5. PICK one : one = <<key>>
    OBVIOUS
  <1>13. one = Append(<<>>, key)
    BY <1>5
  <1> DEFINE s0 == On("want", ts, <<>>)
             s1 == On("text", ts, <<>>)
             s2 == On("text", ts, one)
             s3 == On("closed", us, <<>>)
             s4 == On("want", us, <<>>)
             s5 == On("text", us, <<>>)
             r == [k \in 0 .. 5 |-> CASE k = 0 -> s0 [] k = 1 -> s1 [] k = 2 -> s2 [] k = 3 -> s3
                                      [] k = 4 -> s4 [] OTHER -> s5]
  <1>6. s1 = StrictStep(s0, "quote") /\ s5 = StrictStep(s4, "quote")
    BY TextOpened
  <1>7. s2 = StrictStep(s1, key)
    BY <1>2, <1>13, PlainRead
  <1>8. s3 = StrictStep(s2, "quote")
    <2>1. us = Append(ts, one)
      BY <1>5 DEF Keyed
    <2> QED BY <2>1, TextClosed
  <1>9. s4 = StrictStep(s3, ":")
    BY <1>4, KeyEnded
  <1> HIDE DEF s0, s1, s2, s3, s4, s5
  <1>10. r[0] = s0 /\ r[1] = s1 /\ r[2] = s2 /\ r[3] = s3 /\ r[4] = s4 /\ r[5] = s5
    OBVIOUS
  <1> HIDE DEF r
  <1>11. ASSUME NEW k \in 1 .. 5 PROVE r[k] = StrictStep(r[k - 1], d[k])
    <2>1. CASE k = 1
      BY <1>3, <1>6, <1>10, <2>1
    <2>2. CASE k = 2
      BY <1>3, <1>7, <1>10, <2>2
    <2>3. CASE k = 3
      BY <1>3, <1>8, <1>10, <2>3
    <2>4. CASE k = 4
      BY <1>3, <1>9, <1>10, <2>4
    <2>5. CASE k = 5
      BY <1>3, <1>6, <1>10, <2>5
    <2> QED BY <2>1, <2>2, <2>3, <2>4, <2>5
  <1>12. Leads(s0, d, s5)
    BY <1>3, <1>10, <1>11 DEF Leads, Runs
  <1> QED BY <1>1, <1>3, <1>12 DEF s0, s5

\* What becomes of a member follows from what becomes of its text.
LEMMA MemberLeads ==
    ASSUME NEW ts, Even(ts), NEW key \in {"username", "password"}, NEW text \in Seq(Symbol),
           NEW s, NEW t, Leads(On("text", Keyed(ts, key), <<>>), text, s), StrictStep(s, "quote") = t
    PROVE  Member(key, text) \in Seq(Symbol) /\ Leads(On("want", ts, <<>>), Member(key, text), t)
  <1>1. PICK d : d = Opening(key)
    OBVIOUS
  <1>2. PICK q : q = <<"quote">>
    OBVIOUS
  <1>3. q \in Seq(Symbol) /\ Leads(s, q, t)
    <2>1. "quote" \in Symbol
      BY DEF Symbol, Char
    <2> QED BY <1>2, <2>1, LeadsOne
  <1> DEFINE s0 == On("want", ts, <<>>)
             s5 == On("text", Keyed(ts, key), <<>>)
  <1>4. d \in Seq(Symbol) /\ Leads(s0, d, s5) /\ Leads(s5, text, s)
    BY <1>1, OpeningRead
  <1> HIDE DEF s0, s5
  <1>5. d \o text \in Seq(Symbol) /\ Leads(s0, d \o text, s)
    BY <1>4, LeadsJoin
  <1>6. PICK w : w = d \o text
    OBVIOUS
  <1>7. w \o q \in Seq(Symbol) /\ Leads(s0, w \o q, t)
    <2>1. w \in Seq(Symbol) /\ Leads(s0, w, s)
      BY <1>5, <1>6
    <2> QED BY <1>3, <2>1, LeadsJoin
  <1>8. Member(key, text) = w \o q
    BY <1>1, <1>2, <1>6 DEF Member, Opening
  <1> QED BY <1>7, <1>8 DEF s0

LEMMA MemberRead ==
    ASSUME NEW ts, Even(ts), NEW key \in {"username", "password"}, NEW text \in Seq(Plain)
    PROVE  /\ Member(key, text) \in Seq(Symbol)
           /\ Leads(On("want", ts, <<>>), Member(key, text), On("closed", Added(ts, key, text), <<>>))
  <1>1. text \in Seq(Symbol)
    BY DEF Plain
  <1>2. Leads(On("text", Keyed(ts, key), <<>>), text, On("text", Keyed(ts, key), text))
    BY LeadsPlain
  <1>3. StrictStep(On("text", Keyed(ts, key), text), "quote") = On("closed", Added(ts, key, text), <<>>)
    BY TextClosed DEF Added
  <1> QED BY <1>1, <1>2, <1>3, MemberLeads

LEMMA ShortTexts == \A S : <<>> \in Seq(S) /\ \A e \in S : <<e>> \in Seq(S)
  <1>1. ASSUME NEW S PROVE <<>> \in Seq(S)
    OBVIOUS
  <1>2. ASSUME NEW S, NEW e \in S PROVE <<e>> \in Seq(S)
    OBVIOUS
  <1> QED BY <1>1, <1>2

\* What is neither plain nor a backslash, in a text and behind its quote.
LEMMA TextPlaced ==
    ASSUME NEW r, NEW ch, r.at = "text", ch # "backslash"
    PROVE  StrictStep(r, ch).at = IF ch = "quote" THEN "closed" ELSE IF ch = "control" THEN "error"
                                  ELSE "text"
  BY DEF StrictStep, Place

LEMMA ClosedPlaced ==
    ASSUME NEW r, NEW ch, r.at = "closed", ch \in {"quote", "letter", "control"}
    PROVE  StrictStep(r, ch).at = IF ch = "quote" THEN "error" ELSE "closed"
  BY DEF StrictStep, Place

LEMMA ErrorPlaced ==
    ASSUME NEW r, NEW ch, r.at = "error"
    PROVE  StrictStep(r, ch).at = "error"
  BY DEF StrictStep, Place

\* A member is refused whose text is inert and not plain: its first quote ends
\* the text, and only letters and controls come before the next.
LEMMA MemberRefused ==
    ASSUME NEW ts, Even(ts), NEW key \in {"username", "password"},
           NEW text \in Seq(Symbol), Inert(text), text \notin Seq(Plain)
    PROVE  /\ Member(key, text) \in Seq(Symbol)
           /\ \E us, u : Leads(On("want", ts, <<>>), Member(key, text), On("error", us, u))
  <1> PICK n \in Nat : n = Len(text)
    OBVIOUS
  <1> PICK ks : ks = Keyed(ts, key)
    OBVIOUS
  <1>1. DOMAIN text = 1 .. n /\ \A k \in 1 .. n : text[k] \in Symbol
    OBVIOUS
  <1>2. On("text", ks, <<>>) \in StrictRead
    <2>1. <<>> \in Seq(Symbol) /\ key \in Symbol
      BY ShortTexts DEF Symbol, Marks
    <2>2. ks \in Seq(Seq(Symbol))
      BY <2>1, TextsGrow
    <2> QED BY <2>1, <2>2 DEF On, StrictRead
  <1> PICK s : s = On("text", ks, <<>>)
    OBVIOUS
  <1>3. PICK r \in [0 .. n -> StrictRead] : Runs(r, s, text)
    BY <1>2, RunFrom
  <1>4. r[0].at = "text" /\ \A k \in 1 .. n : r[k] = StrictStep(r[k - 1], text[k])
    BY <1>3 DEF Runs, On
  <1> DEFINE HasQuote == \E j \in 1 .. n : text[j] = "quote"
             Holds(k) == /\ r[k].at \in {"text", "closed", "error"}
                         /\ r[k].at = "text" => \A j \in 1 .. k : text[j] \in Plain
                         /\ r[k].at = "closed" => HasQuote
             S == {k \in Nat : Holds(k)}
  <1>5. 0 \in S
    BY <1>4
  <1>6. ASSUME NEW k \in 0 .. n - 1, k \in S PROVE k + 1 \in S
    <2> PICK ch : ch = text[k + 1]
      OBVIOUS
    <2>1. /\ k + 1 \in 1 .. n /\ (k + 1) - 1 = k /\ k + 1 \in Nat
          /\ \A j \in 1 .. k + 1 : j \in 1 .. k \/ j = k + 1
      OBVIOUS
    <2>2. r[k + 1] = StrictStep(r[k], ch) /\ ch \in Symbol /\ ch # "backslash"
      BY <1>1, <1>4, <2>1 DEF Inert
    <2>3. Holds(k)
      BY <1>6
    <2>4. Holds(k + 1)
      <3>1. CASE r[k].at = "text"
        <4>1. r[k + 1].at = IF ch = "quote" THEN "closed" ELSE IF ch = "control" THEN "error"
                            ELSE "text"
          BY <2>2, <3>1, TextPlaced
        <4>2. CASE ch = "quote"
          <5>1. HasQuote
            BY <2>1, <4>2
          <5> HIDE DEF HasQuote
          <5> QED BY <4>1, <4>2, <5>1
        <4>3. CASE ch = "control"
          BY <4>1, <4>3
        <4>4. CASE ch # "quote" /\ ch # "control"
          <5>1. ch \in Plain
            BY <2>2, <4>4 DEF Plain
          <5>2. \A j \in 1 .. k + 1 : text[j] \in Plain
            BY <2>1, <2>3, <3>1, <5>1
          <5> QED BY <4>1, <4>4, <5>2
        <4> QED BY <4>2, <4>3, <4>4
      <3>2. CASE r[k].at = "closed"
        <4>1. HasQuote
          BY <2>3, <3>2
        <4>2. ch \in {"quote", "letter", "control"}
          <5>1. ch \notin Marks
            BY <1>1, <2>1, <4>1 DEF Inert
          <5> QED BY <2>2, <5>1 DEF Symbol, Char
        <4>3. r[k + 1].at = IF ch = "quote" THEN "error" ELSE "closed"
          BY <2>2, <3>2, <4>2, ClosedPlaced
        <4> HIDE DEF HasQuote
        <4> QED BY <4>1, <4>3
      <3>3. CASE r[k].at = "error"
        <4>1. r[k + 1].at = "error"
          BY <2>2, <3>3, ErrorPlaced
        <4> QED BY <4>1
      <3> QED BY <2>3, <3>1, <3>2, <3>3
    <2> QED BY <2>1, <2>4
  <1>7. Holds(n)
    <2>1. 0 .. n \subseteq S
      <3> HIDE DEF S
      <3> QED BY <1>5, <1>6, InductionUpTo
    <2> QED BY <2>1
  <1>8. r[n].at \in {"closed", "error"}
    <2>1. ASSUME r[n].at = "text" PROVE FALSE
      <3>1. \A j \in 1 .. n : text[j] \in Plain
        BY <1>7, <2>1
      <3>2. text \in Seq(Plain)
        BY <3>1
      <3> QED BY <3>2
    <2> QED BY <1>7, <2>1
  <1>9. PICK t : t = StrictStep(r[n], "quote")
    OBVIOUS
  <1>10. t.at = "error"
    <2>1. CASE r[n].at = "closed"
      BY <1>9, <2>1, ClosedPlaced
    <2>2. CASE r[n].at = "error"
      BY <1>9, <2>2, ErrorPlaced
    <2> QED BY <1>8, <2>1, <2>2
  <1>11. t = On("error", t.texts, t.text)
    <2>1. t = On(t.at, t.texts, t.text)
      BY <1>9 DEF StrictStep, On
    <2> QED BY <1>10, <2>1
  <1>12. Leads(On("text", Keyed(ts, key), <<>>), text, r[n])
    BY <1>3 DEF Leads
  <1>13. Member(key, text) \in Seq(Symbol) /\ Leads(On("want", ts, <<>>), Member(key, text), t)
    BY <1>9, <1>12, MemberLeads
  <1> QED BY <1>11, <1>13

LEMMA ZeroEven == 0 % 2 = 0
  OBVIOUS

LEMMA NothingEven == Even(<<>>)
  <1>1. <<>> \in Seq(Seq(Symbol))
    BY ShortTexts
  <1>2. Len(<<>>) = 0
    OBVIOUS
  <1> QED BY <1>1, <1>2, ZeroEven, Zenon DEF Even

LEMMA JoinType == \A d, e \in Seq(Symbol) : d \o e \in Seq(Symbol)
  BY ConcatParts

\* What a reader of both members makes of them.
BothTexts(username, password) == Added(Added(<<>>, "username", username), "password", password)
Read(username, password, t) ==
    IF username \in Seq(Plain) /\ password \in Seq(Plain)
    THEN t = On("end", BothTexts(username, password), <<>>) ELSE t.at = "error"

LEMMA CredentialsRead ==
    ASSUME NEW username \in Seq(Symbol), Inert(username), NEW password \in Seq(Symbol), Inert(password)
    PROVE  /\ credentials(username, password) \in Seq(Symbol)
           /\ \E t : Leads(Start, credentials(username, password), t) /\ Read(username, password, t)
  <1> PICK open, comma, close : open = <<"{">> /\ comma = <<",">> /\ close = <<"}">>
    OBVIOUS
  <1>1. open \in Seq(Symbol) /\ comma \in Seq(Symbol) /\ close \in Seq(Symbol)
    <2>1. "{" \in Symbol /\ "," \in Symbol /\ "}" \in Symbol
      BY DEF Symbol, Marks
    <2> QED BY <2>1, ShortTexts
  <1> PICK M, N : M = Member("username", username) /\ N = Member("password", password)
    OBVIOUS
  <1>2. credentials(username, password) = open \o M \o comma \o N \o close
    BY DEF credentials
  <1> DEFINE s0 == On("want", <<>>, <<>>)
             us == Added(<<>>, "username", username)
             s1 == On("closed", us, <<>>)
             s2 == On("want", us, <<>>)
             vs == Added(us, "password", password)
             s3 == On("closed", vs, <<>>)
             s4 == On("end", vs, <<>>)
  <1>3. Even(<<>>) /\ Even(us) /\ Even(vs)
    <2>1. "username" \in Symbol /\ "password" \in Symbol
      BY DEF Symbol, Marks
    <2>2. Even(<<>>)
      BY NothingEven
    <2>3. Even(us)
      BY <2>1, <2>2, TextsGrow
    <2> HIDE DEF us
    <2>4. Even(vs)
      BY <2>1, <2>3, TextsGrow
    <2> QED BY <2>2, <2>3, <2>4
  <1>4. Leads(Start, open, s0) /\ Leads(s1, comma, s2) /\ Leads(s3, close, s4)
    <2> HIDE DEF us, vs
    <2>1. Leads(Start, open, s0)
      BY Opened, LeadsOne DEF Start
    <2>2. Leads(s1, comma, s2)
      BY <1>3, ValueEnded, LeadsOne DEF Even
    <2>3. Leads(s3, close, s4)
      BY <1>3, ValueEnded, LeadsOne DEF Even
    <2> QED BY <2>1, <2>2, <2>3
  <1>5. M \in Seq(Symbol) /\ IF username \in Seq(Plain) THEN Leads(s0, M, s1)
                             ELSE \E ts, t : Leads(s0, M, On("error", ts, t))
    <2>1. CASE username \in Seq(Plain)
      BY <1>3, <2>1, MemberRead
    <2>2. CASE username \notin Seq(Plain)
      BY <1>3, <2>2, MemberRefused
    <2> QED BY <2>1, <2>2
  <1>6. N \in Seq(Symbol) /\ IF password \in Seq(Plain) THEN Leads(s2, N, s3)
                             ELSE \E ts, t : Leads(s2, N, On("error", ts, t))
    <2>1. CASE password \in Seq(Plain)
      BY <1>3, <2>1, MemberRead
    <2>2. CASE password \notin Seq(Plain)
      BY <1>3, <2>2, MemberRefused
    <2> QED BY <2>1, <2>2
  <1>7. s4 = On("end", BothTexts(username, password), <<>>)
    BY DEF BothTexts
  <1> HIDE DEF s0, s1, s2, s3, s4, us, vs
  <1> DEFINE d1 == open \o M
             d2 == d1 \o comma
             d3 == d2 \o N
             d4 == d3 \o close
  <1>8. d4 = credentials(username, password)
    BY <1>2
  <1>9. d1 \in Seq(Symbol)
    BY <1>1, <1>5, JoinType
  <1> HIDE DEF d1
  <1>10. d2 \in Seq(Symbol)
    BY <1>1, <1>9, JoinType
  <1> HIDE DEF d2
  <1>11. d3 \in Seq(Symbol)
    BY <1>6, <1>10, JoinType
  <1> HIDE DEF d3
  <1>12. d4 \in Seq(Symbol)
    BY <1>1, <1>11, JoinType
  <1> HIDE DEF d4
  <1>13. \E t : Leads(Start, d4, t) /\ Read(username, password, t)
    <2>1. CASE username \notin Seq(Plain)
      <3>1. PICK ts, t : Leads(s0, M, On("error", ts, t))
        BY <1>5, <2>1
      <3> PICK e : e = On("error", ts, t)
        OBVIOUS
      <3>2. \A d \in Seq(Symbol) : Leads(e, d, e)
        BY LeadsError
      <3>3. Leads(Start, d1, e)
        BY <1>1, <1>4, <1>5, <3>1, LeadsJoin DEF d1
      <3>4. Leads(Start, d2, e)
        BY <1>1, <1>9, <3>2, <3>3, LeadsJoin DEF d2
      <3>5. Leads(Start, d3, e)
        BY <1>6, <1>10, <3>2, <3>4, LeadsJoin DEF d3
      <3>6. Leads(Start, d4, e)
        BY <1>1, <1>11, <3>2, <3>5, LeadsJoin DEF d4
      <3>7. e.at = "error"
        BY DEF On
      <3> QED BY <2>1, <3>6, <3>7 DEF Read
    <2>2. CASE username \in Seq(Plain)
      <3>1. Leads(Start, d1, s1)
        BY <1>1, <1>4, <1>5, <2>2, LeadsJoin DEF d1
      <3>2. Leads(Start, d2, s2)
        BY <1>1, <1>4, <1>9, <3>1, LeadsJoin DEF d2
      <3>3. CASE password \in Seq(Plain)
        <4>1. Leads(Start, d3, s3)
          BY <1>6, <1>10, <3>2, <3>3, LeadsJoin DEF d3
        <4>2. Leads(Start, d4, s4)
          BY <1>1, <1>4, <1>11, <4>1, LeadsJoin DEF d4
        <4> QED BY <1>7, <2>2, <3>3, <4>2 DEF Read
      <3>4. CASE password \notin Seq(Plain)
        <4>1. PICK ts, t : Leads(s2, N, On("error", ts, t))
          BY <1>6, <3>4
        <4> PICK e : e = On("error", ts, t)
          OBVIOUS
        <4>2. Leads(e, close, e)
          BY <1>1, LeadsError
        <4>3. Leads(Start, d3, e)
          BY <1>6, <1>10, <3>2, <4>1, LeadsJoin DEF d3
        <4>4. Leads(Start, d4, e)
          BY <1>1, <1>11, <4>2, <4>3, LeadsJoin DEF d4
        <4>5. e.at = "error"
          BY DEF On
        <4> QED BY <3>4, <4>4, <4>5 DEF Read
      <3> QED BY <3>3, <3>4
    <2> QED BY <2>1, <2>2
  <1> QED BY <1>8, <1>12, <1>13

LEMMA LesserOfTwo ==
    ASSUME NEW a \in Int, NEW b \in Int
    PROVE  Min({a, b}) = IF a <= b THEN a ELSE b
  <1> DEFINE Least(x) == x \in {a, b} /\ \A y \in {a, b} : x <= y
  <1>1. \E x : Least(x)
    <2>1. CASE a <= b
      <3>1. Least(a)
        BY <2>1
      <3> QED BY <3>1
    <2>2. CASE ~(a <= b)
      <3>1. Least(b)
        BY <2>2
      <3> QED BY <3>1
    <2> QED BY <2>1, <2>2
  <1>2. Min({a, b}) = CHOOSE x : Least(x)
    BY DEF Min
  <1>3. Least(Min({a, b}))
    <2> HIDE DEF Least
    <2> QED BY <1>1, <1>2
  <1> QED BY <1>3

LEMMA MaxOne == \A n \in Int : Max({n}) = n
  BY DEF Max

\* A member is found by its key.
LEMMA GetAt ==
    ASSUME NEW texts, NEW n \in Nat, Len(texts) \div 2 = n, NEW key, NEW k \in 1 .. n,
           \A j \in 1 .. n : texts[2 * j - 1] = <<key>> <=> j = k
    PROVE  get(texts, key) = texts[2 * k]
  <1>1. {j \in 1 .. n : texts[2 * j - 1] = <<key>>} = {k}
    OBVIOUS
  <1>2. Max({k}) = k
    BY MaxOne
  <1> PICK s : s = {j \in 1 .. n : texts[2 * j - 1] = <<key>>}
    OBVIOUS
  <1>3. get(texts, key) = texts[2 * Max(s)]
    BY DEF get
  <1> QED BY <1>1, <1>2, <1>3

LEMMA Halves == 2 \div 2 = 1 /\ 4 \div 2 = 2
  OBVIOUS

LEMMA KeysDiffer == <<"username">> # <<"password">>
  <1>1. <<"username">>[1] = "username" /\ <<"password">>[1] = "password" /\ "username" # "password"
    OBVIOUS
  <1> QED BY <1>1

\* ts has one member more than es, whose texts are n.
OneMore(ts, es, n, key, text) ==
    /\ Len(ts) = n + 2 /\ ts[n + 1] = <<key>> /\ ts[n + 2] = text
    /\ \A k \in 1 .. n : ts[k] = es[k]

LEMMA AddedTo ==
    ASSUME NEW es, Even(es), NEW key \in Symbol, NEW text \in Seq(Symbol)
    PROVE  Even(Added(es, key, text)) /\ OneMore(Added(es, key, text), es, Len(es), key, text)
  BY TextsGrow DEF OneMore

LEMMA Sums == 0 + 1 = 1 /\ 0 + 2 = 2 /\ 2 + 1 = 3 /\ 2 + 2 = 4
  OBVIOUS

LEMMA NoTexts == Len(<<>>) = 0
  OBVIOUS

LEMMA KeysAreSymbols == "username" \in Symbol /\ "password" \in Symbol
  BY DEF Symbol, Marks

LEMMA OneText ==
    ASSUME NEW text \in Seq(Symbol), NEW ts, ts = Added(<<>>, "username", text)
    PROVE  Even(ts) /\ Len(ts) = 2 /\ ts[1] = <<"username">> /\ ts[2] = text
  <1> PICK es, key, n : es = <<>> /\ key = "username" /\ n = 0
    OBVIOUS
  <1>1. Even(es) /\ Len(es) = n
    BY NothingEven, NoTexts, Zenon
  <1>2. ts = Added(es, key, text) /\ key \in Symbol
    BY KeysAreSymbols
  <1>3. Even(ts) /\ OneMore(ts, es, n, key, text)
    BY <1>1, <1>2, AddedTo
  <1>4. n + 2 = 2 /\ n + 1 = 1
    BY Sums, Zenon
  <1>5. Len(ts) = 2 /\ ts[1] = <<key>> /\ ts[2] = text
    BY <1>3, <1>4 DEF OneMore
  <1> QED BY <1>3, <1>5

LEMMA GetUsername ==
    ASSUME NEW text \in Seq(Symbol), NEW ts, ts = Added(<<>>, "username", text)
    PROVE  get(ts, "username") = text
  <1>1. Len(ts) = 2 /\ ts[1] = <<"username">> /\ ts[2] = text
    BY OneText
  <1>2. \A j \in 1 .. 1 : ts[2 * j - 1] = <<"username">> <=> j = 1
    BY <1>1
  <1>3. Len(ts) \div 2 = 1
    BY <1>1, Halves, Zenon
  <1>4. 1 \in Nat /\ 1 \in 1 .. 1 /\ 2 * 1 = 2
    OBVIOUS
  <1>5. get(ts, "username") = ts[2 * 1]
    BY <1>2, <1>3, <1>4, GetAt
  <1> QED BY <1>1, <1>4, <1>5

\* Two members, found by their keys.
LEMMA GetEither ==
    ASSUME NEW ts, NEW a, NEW b, Len(ts) = 4, ts[1] = <<a>>, ts[3] = <<b>>, <<a>> # <<b>>
    PROVE  get(ts, a) = ts[2] /\ get(ts, b) = ts[4]
  <1>1. Len(ts) \div 2 = 2
    BY Halves
  <1>2. 2 \in Nat /\ 1 \in 1 .. 2 /\ 2 \in 1 .. 2
    OBVIOUS
  <1>3. \A j \in 1 .. 2 : j = 1 \/ j = 2
    OBVIOUS
  <1>4. 2 * 1 - 1 = 1 /\ 2 * 2 - 1 = 3 /\ 2 * 1 = 2 /\ 2 * 2 = 4
    OBVIOUS
  <1>5. (ts[2 * 1 - 1] = <<a>>) /\ (ts[2 * 2 - 1] = <<b>>) /\ (ts[2 * 1 - 1] # <<b>>) /\ (ts[2 * 2 - 1] # <<a>>)
    BY <1>4
  <1>6. \A j \in 1 .. 2 : ts[2 * j - 1] = <<a>> <=> j = 1
    BY <1>3, <1>5
  <1>7. \A j \in 1 .. 2 : ts[2 * j - 1] = <<b>> <=> j = 2
    BY <1>3, <1>5
  <1>8. get(ts, a) = ts[2 * 1]
    BY <1>1, <1>2, <1>6, GetAt
  <1>9. get(ts, b) = ts[2 * 2]
    BY <1>1, <1>2, <1>7, GetAt
  <1> QED BY <1>4, <1>8, <1>9

LEMMA GetBoth ==
    ASSUME NEW username \in Seq(Symbol), NEW password \in Seq(Symbol), NEW texts,
           texts = BothTexts(username, password)
    PROVE  get(texts, "username") = username /\ get(texts, "password") = password
  <1> PICK us : us = Added(<<>>, "username", username)
    OBVIOUS
  <1>2. Even(us) /\ Len(us) = 2 /\ us[1] = <<"username">> /\ us[2] = username
    BY OneText
  <1> PICK key, n : key = "password" /\ n = 2
    OBVIOUS
  <1>3. Even(us) /\ Len(us) = n /\ texts = Added(us, key, password) /\ key \in Symbol
    BY <1>2, KeysAreSymbols DEF BothTexts
  <1>4. OneMore(texts, us, n, key, password)
    BY <1>3, AddedTo
  <1>5. n + 2 = 4 /\ n + 1 = 3 /\ 1 \in 1 .. n /\ 2 \in 1 .. n
    OBVIOUS
  <1>6. /\ Len(texts) = 4 /\ texts[1] = <<"username">> /\ texts[2] = username
        /\ texts[3] = <<"password">> /\ texts[4] = password
    BY <1>2, <1>4, <1>5 DEF OneMore
  <1> QED BY <1>6, KeysDiffer, GetEither
-----------------------------------------------------------------------------
(* The document for the service.                                           *)

\* How much of a document of n symbols fits.
Cut(m, n, size) == IF n + 1 <= size THEN m = n ELSE m \in 0 .. n - 1

LEMMA RequestCut ==
    ASSUME NEW d \in Seq(Symbol), Len(d) # 0, NEW size \in Nat
    PROVE  \E m : /\ Cut(m, Len(d), size)
                  /\ SubSeq(d, 1, Min({size - 1, Len(d)})) = SubSeq(d, 1, m)
  <1> PICK n \in Nat : n = Len(d) /\ n # 0
    OBVIOUS
  <1>1. Min({size - 1, n}) = IF size - 1 <= n THEN size - 1 ELSE n
    BY LesserOfTwo
  <1>2. CASE size = 0
    <2>1. Min({size - 1, n}) = -1
      BY <1>1, <1>2
    <2>2. SubSeq(d, 1, -1) = <<>> /\ SubSeq(d, 1, 0) = <<>>
      <3>1. 1 \in Int /\ -1 \in Int /\ 0 \in Int /\ -1 < 1 /\ 0 < 1
        OBVIOUS
      <3> QED BY <3>1, SubSeqEmpty, Zenon
    <2>3. Cut(0, n, size)
      BY <1>2 DEF Cut
    <2>4. SubSeq(d, 1, Min({size - 1, n})) = SubSeq(d, 1, 0)
      BY <2>1, <2>2
    <2> QED BY <2>3, <2>4
  <1>3. CASE size # 0
    <2> DEFINE m == IF size - 1 <= n THEN size - 1 ELSE n
    <2>1. Cut(m, n, size)
      BY <1>3 DEF Cut
    <2> HIDE DEF m
    <2>2. Min({size - 1, n}) = m
      BY <1>1 DEF m
    <2> QED BY <2>1, <2>2
  <1> QED BY <1>2, <1>3

\* The service has the texts of a plain document that fits, and none of any
\* other.
Asks(request, username, password, size) ==
    IF /\ username \in Seq(Plain) /\ password \in Seq(Plain)
       /\ Len(credentials(username, password)) + 1 <= size
    THEN request = On("end", BothTexts(username, password), <<>>)
    ELSE request.at \notin {"end", "lost"}

LEMMA RequestRead ==
    ASSUME NEW username \in Seq(Symbol), Inert(username),
           NEW password \in Seq(Symbol), Inert(password), NEW size \in Nat
    PROVE  Asks(Strict(req_json(username, password, size)), username, password, size)
  <1> PICK d : d = credentials(username, password)
    OBVIOUS
  <1>1. d \in Seq(Symbol)
    BY CredentialsRead
  <1>2. PICK t : Leads(Start, d, t) /\ Read(username, password, t)
    BY CredentialsRead
  <1>3. t.at = IF username \in Seq(Plain) /\ password \in Seq(Plain) THEN "end" ELSE "error"
    BY <1>2 DEF Read, On
  <1>4. Len(d) # 0
    <2>1. ASSUME Len(d) = 0 PROVE FALSE
      <3>1. t = Start
        BY <1>2, <2>1 DEF Leads, Runs
      <3>2. Start.at = "start"
        BY DEF Start, On
      <3> QED BY <1>3, <3>1, <3>2
    <2> QED BY <2>1
  <1> PICK n \in Nat : n = Len(d)
    BY <1>1
  <1>5. PICK m : Cut(m, n, size) /\ req_json(username, password, size) = SubSeq(d, 1, m)
    <2>1. PICK m : Cut(m, n, size) /\ SubSeq(d, 1, Min({size - 1, n})) = SubSeq(d, 1, m)
      BY <1>1, <1>4, RequestCut
    <2>2. req_json(username, password, size) = SubSeq(d, 1, Min({size - 1, n}))
      BY DEF req_json
    <2> QED BY <2>1, <2>2
  <1> PICK request : request = Strict(req_json(username, password, size))
    OBVIOUS
  <1>6. CASE n + 1 <= size
    <2>1. SubSeq(d, 1, m) = d
      BY <1>1, <1>5, <1>6, SubSeqFull DEF Cut
    <2>2. request = t
      <3>1. Strict(d) = t
        BY <1>1, <1>2, StrictIs
      <3> QED BY <1>5, <2>1, <3>1
    <2>3. Asks(request, username, password, size)
      <3>1. CASE username \in Seq(Plain) /\ password \in Seq(Plain)
        BY <1>2, <1>6, <2>2, <3>1 DEF Asks, Read
      <3>2. CASE ~(username \in Seq(Plain) /\ password \in Seq(Plain))
        BY <1>3, <2>2, <3>2 DEF Asks
      <3> QED BY <3>1, <3>2
    <2> QED BY <2>3
  <1>7. CASE ~(n + 1 <= size)
    <2>1. m \in 0 .. Len(d) - 1
      BY <1>5, <1>7 DEF Cut
    <2>2. t.at # "lost"
      BY <1>3
    <2>3. Strict(SubSeq(d, 1, m)).at \notin {"end", "lost"}
      BY <1>1, <1>2, <2>1, <2>2, PartRefused
    <2>4. Asks(request, username, password, size)
      BY <1>5, <1>7, <2>3 DEF Asks
    <2> QED BY <2>4
  <1> QED BY <1>6, <1>7

LEMMA Narrowed ==
    ASSUME NEW S, NEW T, NEW s \in Seq(S), \A k \in 1 .. Len(s) : s[k] \in T
    PROVE  s \in Seq(T)
  OBVIOUS

\* An inert text is plain if it has neither quotes nor controls.
LEMMA PlainIs ==
    ASSUME NEW n \in Nat, NEW text \in [1 .. n -> Symbol], Inert(text)
    PROVE  /\ text \in Seq(Symbol)
           /\ (\A k \in DOMAIN text : text[k] \notin {"quote", "control"}) <=> text \in Seq(Plain)
  <1>1. text \in Seq(Symbol) /\ Len(text) = n /\ DOMAIN text = 1 .. n
    OBVIOUS
  <1>2. \A k \in 1 .. n : text[k] \in Symbol /\ text[k] # "backslash"
    BY <1>1 DEF Inert
  <1>3. ASSUME \A k \in 1 .. n : text[k] \notin {"quote", "control"} PROVE text \in Seq(Plain)
    <2>1. \A k \in 1 .. n : text[k] \in Plain
      BY <1>2, <1>3 DEF Plain
    <2> QED BY <1>1, <2>1, Narrowed
  <1>4. ASSUME text \in Seq(Plain) PROVE \A k \in 1 .. n : text[k] \notin {"quote", "control"}
    <2>1. \A k \in 1 .. n : text[k] \in Plain
      BY <1>1, <1>4
    <2> QED BY <2>1 DEF Plain
  <1> QED BY <1>1, <1>3, <1>4

\* The service is asked for the account that was typed, or for none, whatever
\* marks, quotes and controls an inert name and password are made of and
\* whatever the buffer (protocol.c:65-68) cuts off.
THEOREM AccountsAskedAsTyped == Spec => []AskedAsTyped
  <1>1. ASSUME IInv PROVE AskedAsTyped
    <2> PICK l \in Nat : l = Len(in)
      BY <1>1 DEF IInv, TypeOK
    <2>1. out_size \in Nat
      BY <1>1 DEF IInv, TypeOK
    <2> SUFFICES ASSUME NEW n \in 0 .. Len(in),
                        NEW username \in {t \in [1 .. n -> Symbol] : Inert(t)},
                        NEW password \in {t \in [1 .. Len(in) - n -> Symbol] : Inert(t)}
                 PROVE  LET request == Strict(req_json(username, password, out_size))
                        IN  IF /\ \A text \in {username, password} :
                                    \A k \in DOMAIN text : text[k] \notin {"quote", "control"}
                               /\ Len(credentials(username, password)) + 1 <= out_size
                            THEN /\ request.at = "end"
                                 /\ get(request.texts, "username") = username
                                 /\ get(request.texts, "password") = password
                            ELSE request.at \notin {"end", "lost"}
      BY Zenon DEF AskedAsTyped
    <2>2. n \in Nat /\ Len(in) - n \in Nat
      OBVIOUS
    <2>3. /\ username \in Seq(Symbol) /\ Inert(username)
          /\ (\A k \in DOMAIN username : username[k] \notin {"quote", "control"}) <=> username \in Seq(Plain)
      <3>1. username \in [1 .. n -> Symbol] /\ Inert(username)
        OBVIOUS
      <3> QED BY ONLY <2>2, <3>1, PlainIs
    <2>4. /\ password \in Seq(Symbol) /\ Inert(password)
          /\ (\A k \in DOMAIN password : password[k] \notin {"quote", "control"}) <=> password \in Seq(Plain)
      <3>1. password \in [1 .. Len(in) - n -> Symbol] /\ Inert(password)
        OBVIOUS
      <3> QED BY ONLY <2>2, <3>1, PlainIs
    <2>5. (\A text \in {username, password} : \A k \in DOMAIN text : text[k] \notin {"quote", "control"})
            <=> username \in Seq(Plain) /\ password \in Seq(Plain)
      BY ONLY <2>3, <2>4
    <2> PICK request : request = Strict(req_json(username, password, out_size))
      OBVIOUS
    <2>6. Asks(request, username, password, out_size)
      BY <2>1, <2>3, <2>4, RequestRead
    <2>7. IF /\ \A text \in {username, password} : \A k \in DOMAIN text : text[k] \notin {"quote", "control"}
             /\ Len(credentials(username, password)) + 1 <= out_size
          THEN /\ request.at = "end"
               /\ get(request.texts, "username") = username
               /\ get(request.texts, "password") = password
          ELSE request.at \notin {"end", "lost"}
      <3>1. CASE /\ username \in Seq(Plain) /\ password \in Seq(Plain)
                 /\ Len(credentials(username, password)) + 1 <= out_size
        <4>1. request = On("end", BothTexts(username, password), <<>>)
          BY <2>6, <3>1 DEF Asks
        <4>2. request.at = "end" /\ request.texts = BothTexts(username, password)
          BY <4>1 DEF On
        <4> PICK texts : texts = request.texts
          OBVIOUS
        <4>3. get(texts, "username") = username /\ get(texts, "password") = password
          <5>1. username \in Seq(Symbol) /\ password \in Seq(Symbol) /\ texts = BothTexts(username, password)
            BY <2>3, <2>4, <4>2
          <5> QED BY ONLY <5>1, GetBoth
        <4> QED BY <2>5, <3>1, <4>2, <4>3
      <3>2. CASE ~(/\ username \in Seq(Plain) /\ password \in Seq(Plain)
                   /\ Len(credentials(username, password)) + 1 <= out_size)
        <4>1. request.at \notin {"end", "lost"}
          BY <2>6, <3>2 DEF Asks
        <4> QED BY <2>5, <3>2, <4>1
      <3> QED BY <3>1, <3>2
    <2> QED BY <2>7, Zenon
  <1> QED BY <1>1, Invariance, PTL
-----------------------------------------------------------------------------
(* A name on its way back.                                                 *)

LEMMA FrontLength ==
    ASSUME NEW X, NEW s \in Seq(X), s # <<>>
    PROVE  Len(Front(s)) = Len(s) - 1
  <1> PICK l \in Nat \ {0} : l = Len(s)
    OBVIOUS
  <1>1. \A k \in 1 .. l - 1 : s[k] \in X
    OBVIOUS
  <1>2. Len(SubSeq(s, 1, l - 1)) = IF 1 <= l - 1 THEN l - 1 - 1 + 1 ELSE 0
    BY <1>1, SubSeqProperties, 1 \in Int, l - 1 \in Int
  <1>3. Len(SubSeq(s, 1, l - 1)) = l - 1
    BY <1>2
  <1> QED BY <1>3 DEF Front

LEMMA FormLengthSpecial ==
    ASSUME TypeOK, NEW n \in Nat, n < Len(in), in[n + 1] \in Special
    PROVE  FormLength(n) \in Nat /\ FormLength(n + 1) = FormLength(n) + 2
  BY FormLengthNext DEF Special

\* If the form of all of the text fits the buffer, it is what is returned.
LEMMA FormComplete ==
    ASSUME IInv, ~Going, FormLength(Len(in)) + 1 <= out_size
    PROVE  JsonForm(Len(in), out)
  <1> PICK n \in Nat : n = Len(in)
    BY DEF IInv, TypeOK
  <1>1. TypeOK /\ FormSoFar /\ i \in 0 .. n /\ Len(out) \in Nat /\ out_size \in Nat
    BY DEF IInv, TypeOK
  <1>2. ASSUME NEW k \in 0 .. n PROVE FormLength(k) \in Nat /\ FormLength(k) <= FormLength(n)
    <2>1. FormLength(n) \in Nat
      BY <1>1, FormLengthType
    <2>2. CASE k = 0
      BY <2>1, <2>2, FormLengthEmpty
    <2>3. CASE k # 0
      <3>1. k \in 1 .. n
        BY <2>3
      <3> QED BY <2>1, <3>1, LengthsGrow
    <2> QED BY <2>2, <2>3
  <1>3. FormLength(n) \in Nat /\ FormLength(n) + 1 <= out_size
    BY <1>2
  <1>4. ~(i < n /\ Len(out) + 1 < out_size)
    BY <1>1, <1>3 DEF Going
  <1>5. CASE JsonForm(i, out)
    <2>1. Len(out) = FormLength(i) /\ FormLength(i) \in Nat /\ FormLength(i) <= FormLength(n)
      BY <1>1, <1>2, <1>5 DEF JsonForm
    <2>2. FormLength(i) = FormLength(n)
      <3>1. CASE i = n
        BY <3>1
      <3>2. CASE i # n
        BY <1>1, <1>3, <1>4, <2>1, <3>2
      <3> QED BY <3>1, <3>2
    <2>3. ASSUME NEW k \in 1 .. n, ~(k \in 1 .. i) PROVE in[k] = "control"
      <3>1. k - 1 \in Nat /\ k - 1 < Len(in) /\ (k - 1) + 1 = k /\ k \in 0 .. n /\ k - 1 \in 0 .. n
            /\ i \in 0 .. k - 1 /\ k - 1 \in Nat
        BY <1>1, <2>3
      <3>2. FormLength(k) = FormLength(k - 1) + (CASE in[k] \in Special -> 2
                                                     [] in[k] = "control" -> 0
                                                     [] OTHER -> 1)
        BY <1>1, <3>1, FormLengthNext
      <3>3. FormLength(i) <= FormLength(k - 1)
        <4>1. CASE i = 0
          BY <1>2, <3>1, <4>1, FormLengthEmpty
        <4>2. CASE i # 0
          <5>1. i \in 1 .. k - 1
            BY <1>1, <3>1, <4>2
          <5> QED BY <3>1, <5>1, LengthsGrow
        <4> QED BY <4>1, <4>2
      <3>4. FormLength(k) <= FormLength(n) /\ FormLength(k) \in Nat /\ FormLength(k - 1) \in Nat
        BY <1>2, <3>1
      <3> QED BY <2>1, <2>2, <3>2, <3>3, <3>4
    <2>4. "control" \notin Special
      BY DEF Special
    <2> QED BY <1>5, <2>2, <2>3, <2>4 DEF JsonForm
  <1>6. CASE /\ i > 0 /\ in[i] \in Special /\ Len(out) + 1 = out_size /\ out # <<>>
             /\ JsonForm(i - 1, Front(out))
    <2>1. Len(out) = FormLength(i - 1) + 1
      <3>1. Len(Front(out)) = Len(out) - 1
        <4>1. out \in Seq(Char)
          BY <1>1 DEF TypeOK
        <4> QED BY <1>6, <4>1, FrontLength
      <3>2. Len(Front(out)) = FormLength(i - 1)
        BY <1>6 DEF JsonForm
      <3> QED BY <1>1, <3>1, <3>2
    <2> PICK m \in Nat : m = i - 1
      BY <1>1, <1>6
    <2>2. m < Len(in) /\ m + 1 = i /\ m \in 0 .. n /\ i \in 0 .. n
      BY <1>1, <1>6
    <2>3. FormLength(m) \in Nat /\ FormLength(m + 1) = FormLength(m) + 2
      BY <1>1, <1>6, <2>2, FormLengthSpecial, Zenon
    <2>4. FormLength(i) = FormLength(m) + 2
      BY <2>2, <2>3
    <2> QED BY <1>1, <1>2, <1>3, <1>6, <2>1, <2>2, <2>3, <2>4
  <1> QED BY <1>1, <1>5, <1>6 DEF FormSoFar

\* What a strict reader makes of the JSON form of a text, wherever it is in the
\* document.
LEMMA FormLeads ==
    ASSUME TypeOK, NEW l \in Nat, l = Len(in), JsonForm(l, out), NEW ts \in Seq(Seq(Symbol))
    PROVE  /\ out \in Seq(Symbol) /\ Without(in, "control") \in Seq(Symbol)
           /\ Leads(On("text", ts, <<>>), out, On("text", ts, Without(in, "control")))
  <1>1. Char \subseteq Symbol
    BY DEF Symbol
  <1>2. in \in Seq(Char) /\ out \in Seq(Char)
    BY DEF TypeOK
  <1>3. out \in Seq(Symbol) /\ \A k \in 1 .. l : in[k] \in Char
    BY <1>1, <1>2
  <1>4. PICK n \in Nat : n = Len(out) /\ n = FormLength(l)
    BY <1>2 DEF JsonForm
  <1>5. PICK f \in [0 .. l -> Seq(Char)] :
          /\ f[0] = <<>> /\ Without(in, "control") = f[l]
          /\ \A k \in 1 .. l : f[k] = IF in[k] = "control" THEN f[k - 1] ELSE Append(f[k - 1], in[k])
    <2>1. Drops(Char, in, "control", l)
      BY <1>2, WithoutGrows
    <2> QED BY <2>1 DEF Drops
  <1>6. Without(in, "control") \in Seq(Symbol)
    <2>1. l \in 0 .. l
      OBVIOUS
    <2>2. f[l] \in Seq(Char)
      BY <1>5, <2>1
    <2> QED BY <1>1, <1>5, <2>2
  <1> PICK s : s = On("text", ts, <<>>)
    OBVIOUS
  <1>7. s \in StrictRead
    BY ShortTexts DEF On, StrictRead
  <1>8. PICK r : Runs(r, s, out)
    BY <1>3, <1>7, RunFrom
  <1>9. r[0] = s /\ \A k \in 1 .. n : r[k] = StrictStep(r[k - 1], out[k])
    BY <1>4, <1>8 DEF Runs
  <1> DEFINE Done(k) == r[FormLength(k)] = On("text", ts, f[k])
             S == {k \in Nat : Done(k)}
  <1>10. 0 \in S
    BY <1>5, <1>9, FormLengthEmpty
  <1>11. ASSUME NEW k \in 0 .. l - 1, k \in S PROVE k + 1 \in S
    <2> PICK ch : ch = in[k + 1]
      OBVIOUS
    <2>1. /\ k \in Nat /\ k < Len(in) /\ k + 1 \in 1 .. l /\ (k + 1) - 1 = k /\ ch \in Char
          /\ k + 1 \in Nat
      BY <1>3
    <2>2. PICK p \in Nat : p = FormLength(k)
      BY <2>1, FormLengthType
    <2>3. FormLength(k + 1) = p + (CASE ch \in Special -> 2 [] ch = "control" -> 0 [] OTHER -> 1)
      BY <2>1, <2>2, FormLengthNext
    <2>4. /\ ch # "control" => FormLength(k + 1) \in 1 .. n
          /\ ch \in Special => FormLength(k + 1) - 1 \in 1 .. n
      BY <1>4, <2>1, LengthsGrow
    <2>5. /\ ch # "control" => out[FormLength(k + 1)] = ch
          /\ ch \in Special => out[FormLength(k + 1) - 1] = "backslash"
      BY <2>1 DEF JsonForm
    <2>6. f[k + 1] = IF ch = "control" THEN f[k] ELSE Append(f[k], ch)
      BY <1>5, <2>1
    <2>7. r[p] = On("text", ts, f[k])
      BY <1>11, <2>2
    <2>8. Done(k + 1)
      <3>1. CASE ch = "control"
        <4>1. FormLength(k + 1) = p
          BY <2>3, <3>1 DEF Special
        <4> QED BY <2>6, <2>7, <3>1, <4>1
      <3>2. CASE ch = "letter"
        <4>1. FormLength(k + 1) = p + 1
          BY <2>3, <3>2 DEF Special
        <4>2. p + 1 \in 1 .. n /\ out[p + 1] = ch /\ (p + 1) - 1 = p
          BY <2>4, <2>5, <3>2, <4>1
        <4>3. r[p + 1] = StrictStep(On("text", ts, f[k]), ch)
          BY <1>9, <2>7, <4>2
        <4>4. ch \in Plain
          BY <1>1, <3>2 DEF Plain, Char
        <4>5. r[p + 1] = On("text", ts, Append(f[k], ch))
          BY <4>3, <4>4, PlainRead
        <4>6. f[k + 1] = Append(f[k], ch)
          BY <2>6, <3>2
        <4> QED BY <4>1, <4>5, <4>6
      <3>3. CASE ch \in Special
        <4>1. FormLength(k + 1) = p + 2 /\ ch # "control"
          BY <2>3, <3>3 DEF Special
        <4>2. /\ p + 1 \in 1 .. n /\ out[p + 1] = "backslash" /\ (p + 1) - 1 = p
              /\ p + 2 \in 1 .. n /\ out[p + 2] = ch /\ (p + 2) - 1 = p + 1
          BY <2>4, <2>5, <3>3, <4>1
        <4>3. r[p + 1] = On("escaped", ts, f[k])
          <5>1. r[p + 1] = StrictStep(On("text", ts, f[k]), "backslash")
            BY <1>9, <2>7, <4>2
          <5> QED BY <5>1, BackslashRead
        <4>4. r[p + 2] = On("text", ts, Append(f[k], ch))
          <5>1. r[p + 2] = StrictStep(On("escaped", ts, f[k]), ch)
            BY <1>9, <4>2, <4>3
          <5> QED BY <3>3, <5>1, SpecialRead
        <4>5. f[k + 1] = Append(f[k], ch)
          BY <2>6, <4>1
        <4> QED BY <4>1, <4>4, <4>5
      <3> QED BY <2>1, <3>1, <3>2, <3>3 DEF Char, Special
    <2> QED BY <2>1, <2>8
  <1>12. r[n] = On("text", ts, Without(in, "control"))
    <2>1. 0 .. l \subseteq S
      <3> HIDE DEF S
      <3> QED BY <1>10, <1>11, InductionUpTo
    <2>2. r[FormLength(l)] = On("text", ts, f[l])
      BY <2>1
    <2> QED BY <1>4, <1>5, <2>2
  <1> QED BY <1>3, <1>4, <1>6, <1>8, <1>12 DEF Leads

\* What a page makes of a reply with a whole name.
LEMMA ReplyRead ==
    ASSUME TypeOK, JsonForm(Len(in), out), NEW shown, shown = Without(in, "control")
    PROVE  /\ shown \in Seq(Symbol)
           /\ Strict(<<"{">> \o Member("username", out) \o <<"}">>)
                = On("end", Added(<<>>, "username", shown), <<>>)
  <1> PICK l \in Nat : l = Len(in)
    BY DEF TypeOK
  <1> PICK ts : ts = <<>>
    OBVIOUS
  <1>1. Even(ts)
    BY NothingEven
  <1> PICK ks : ks = Keyed(ts, "username")
    OBVIOUS
  <1>2. ks \in Seq(Seq(Symbol))
    <2>1. "username" \in Symbol /\ <<>> \in Seq(Symbol)
      BY KeysAreSymbols, ShortTexts
    <2> QED BY <1>1, <2>1, TextsGrow
  <1>3. out \in Seq(Symbol) /\ shown \in Seq(Symbol) /\ Leads(On("text", ks, <<>>), out, On("text", ks, shown))
    BY <1>2, FormLeads
  <1> PICK us : us = Added(ts, "username", shown)
    OBVIOUS
  <1>4. Even(us)
    BY <1>1, <1>3, KeysAreSymbols, TextsGrow
  <1> DEFINE s0 == On("want", ts, <<>>)
             s1 == On("closed", us, <<>>)
             s2 == On("end", us, <<>>)
  <1>5. StrictStep(On("text", ks, shown), "quote") = s1
    BY TextClosed DEF Added
  <1> PICK M : M = Member("username", out)
    OBVIOUS
  <1>6. M \in Seq(Symbol) /\ Leads(s0, M, s1)
    <2>1. "username" \in {"username", "password"}
      OBVIOUS
    <2> HIDE DEF s0, s1
    <2>2. Leads(On("want", ts, <<>>), M, s1) /\ M \in Seq(Symbol)
      BY <1>1, <1>3, <1>5, <2>1, MemberLeads
    <2> QED BY <2>2 DEF s0
  <1> PICK open, close : open = <<"{">> /\ close = <<"}">>
    OBVIOUS
  <1>7. open \in Seq(Symbol) /\ close \in Seq(Symbol)
    <2>1. "{" \in Symbol /\ "}" \in Symbol
      BY DEF Symbol, Marks
    <2> QED BY <2>1, ShortTexts
  <1>8. Leads(Start, open, s0) /\ Leads(s1, close, s2)
    <2>1. Leads(Start, open, s0)
      BY Opened, LeadsOne DEF Start
    <2>2. Leads(s1, close, s2)
      BY <1>4, ValueEnded, LeadsOne DEF Even
    <2> QED BY <2>1, <2>2
  <1> HIDE DEF s0, s1, s2
  <1> DEFINE d1 == open \o M
             d2 == d1 \o close
  <1>9. d1 \in Seq(Symbol)
    BY <1>6, <1>7, JoinType
  <1>10. Leads(Start, d1, s1)
    BY <1>6, <1>7, <1>8, LeadsJoin
  <1> HIDE DEF d1
  <1>11. d2 \in Seq(Symbol)
    BY <1>7, <1>9, JoinType
  <1>12. Leads(Start, d2, s2)
    BY <1>7, <1>8, <1>9, <1>10, LeadsJoin
  <1> HIDE DEF d2
  <1>13. Strict(d2) = s2
    BY <1>11, <1>12, StrictIs
  <1>14. d2 = <<"{">> \o Member("username", out) \o <<"}">>
    BY DEF d1, d2
  <1> QED BY <1>3, <1>13, <1>14 DEF s2

LEMMA OnParts == \A r, ts : r = On("end", ts, <<>>) => r.at = "end" /\ r.texts = ts
  BY DEF On

\* A page is shown the name it logged in with, without its controls, if that
\* fits the buffer: nothing else of it is cut.
THEOREM NamesAreShown == Spec => []ShownAsTyped
  <1>1. ASSUME IInv PROVE ShownAsTyped
    <2> SUFFICES ASSUME ~Going, FormLength(Len(in)) + 1 <= out_size
                 PROVE  LET reply == Strict(<<"{">> \o Member("username", out) \o <<"}">>)
                        IN  reply.at = "end" /\ get(reply.texts, "username") = Without(in, "control")
      BY DEF ShownAsTyped
    <2>1. JsonForm(Len(in), out) /\ TypeOK
      BY <1>1, FormComplete DEF IInv
    <2> PICK shown, ts : shown = Without(in, "control") /\ ts = Added(<<>>, "username", shown)
      OBVIOUS
    <2> PICK reply : reply = Strict(<<"{">> \o Member("username", out) \o <<"}">>)
      OBVIOUS
    <2>2. reply = On("end", ts, <<>>)
      BY <2>1, ReplyRead
    <2>3. shown \in Seq(Symbol)
      BY <2>1, ReplyRead
    <2>4. get(ts, "username") = shown
      BY <2>3, GetUsername
    <2>5. reply.at = "end" /\ reply.texts = ts
      BY <2>2, OnParts
    <2> QED BY <2>4, <2>5
  <1> QED BY <1>1, Invariance, PTL
=============================================================================
