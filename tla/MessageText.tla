---------------------------- MODULE MessageText ----------------------------
(***************************************************************************)
(* The way of a user name and a password through the system:               *)
(* JSON.stringify in the page, parse_string (src/cJSON.c) in the server,   *)
(* snprintf into req_json (src/protocol.c) and the strict parser of the    *)
(* service; and a name's way back through json_escape_minimal and          *)
(* JSON.parse.                                                             *)
(*                                                                         *)
(* A text is a sequence of the classes of JsonEscape; Escape, Copy and     *)
(* Skip there are the loop's steps, and what is said here of a text is     *)
(* said of every initial in.  Where the marks of a document matter they    *)
(* are told from other letters, in the document and in a text.             *)
(***************************************************************************)
EXTENDS JsonEscape

\* Punctuation, and the two keys, each a single symbol.
Marks == {"{", "}", ",", ":", "username", "password"}
Symbol == Char \union Marks
-----------------------------------------------------------------------------
(* From the page to the server.                                            *)

\* JSON.stringify: \" and \\, and a control as \n or \u001f; a "null", which
\* is U+0000 or a low surrogate by itself, as \u0000 or \udc00.  (A high one is
\* left out: parse_string may drop the escape behind it too.)
stringify(text) ==
    FlattenSeq([k \in DOMAIN text |-> IF text[k] = "letter" THEN <<text[k]>>
                                      ELSE <<"backslash", text[k]>>]) \o <<"quote">>

\* The first loop of parse_string, which finds how much to allocate: it counts
\* a backslash and what follows it as one.
LengthStep(r, ch) ==
    CASE r.at = "end"                      -> r
      [] r.at = "text" /\ ch = "quote"     -> [r EXCEPT !.at = "end"]
      [] r.at = "text" /\ ch # "quote"     ->
           [at |-> IF ch = "backslash" THEN "escaped" ELSE "text", len |-> r.len + 1]
      [] OTHER                             -> [r EXCEPT !.at = "text"]

string_length(str) ==
    LET read[k \in 0 .. Len(str)] ==
          IF k = 0 THEN [at |-> "text", len |-> 0] ELSE LengthStep(read[k - 1], str[k])
    IN  read[Len(str)].len

\* Mutant of parse_string: the first quote ends the string.
parse_string_short(str) ==
    SelectSeq(SubSeq(str, 1, SelectInSeq(str, LAMBDA ch : ch = "quote") - 1),
              LAMBDA ch : ch # "backslash")

\* The second loop.  What follows a backslash is taken for the character it
\* stands for, but a "null" is dropped; raw controls are let through, and the
\* first quote that is not escaped ends.
ParseStep(r, ch) ==
    CASE r.at = "end"                          -> r
      [] r.at = "text" /\ ch = "quote"         -> [r EXCEPT !.at = "end"]
      [] r.at = "text" /\ ch = "backslash"     -> [r EXCEPT !.at = "escaped"]
      [] r.at = "escaped" /\ ch = "null"       -> [r EXCEPT !.at = "text"]
      [] OTHER -> [at |-> "text", out |-> Append(r.out, ch)]

parse_string(str) ==
    LET read[k \in 0 .. Len(str)] ==
          IF k = 0 THEN [at |-> "text", out |-> <<>>] ELSE ParseStep(read[k - 1], str[k])
    IN  read[Len(str)].out
-----------------------------------------------------------------------------
(* From the server to the service.                                         *)

Member(key, text) == <<"quote", key, "quote", ":", "quote">> \o text \o <<"quote">>

\* The format of snprintf, filled in: nothing is escaped.
credentials(username, password) ==
    <<"{">> \o Member("username", username) \o <<",">> \o Member("password", password) \o <<"}">>

\* Mutant of req_json: the cut applies to the name, and the rest follows it.
req_json_closed(username, password, size) ==
    credentials(SubSeq(username, 1, Min({size, Len(username)})), password)

\* snprintf into a buffer of size bytes: what does not fit is cut off.
req_json(username, password, size) ==
    LET document == credentials(username, password)
    IN  SubSeq(document, 1, Min({size - 1, Len(document)}))

\* Where a strict reader of JSON is after ch.  Between two texts a letter or a
\* control may be white space, and is passed over if it is not; a reader is
\* "lost" where classes do not tell what it would do: at a value that is no
\* string, another escape, or behind the end.
Place(at, key, ch) ==
    CASE at = "start"   -> IF ch = "{" THEN "want" ELSE "lost"
      [] at = "want"    -> IF ch = "quote" THEN "text" ELSE "lost"
      [] at = "text"    -> CASE ch = "quote" -> "closed" [] ch = "backslash" -> "escaped"
                             [] ch = "control" -> "error" [] OTHER -> "text"
      [] at = "escaped" -> IF ch \in Special THEN "text" ELSE "lost"
      [] at = "closed"  -> CASE ch \in {"letter", "control"} -> "closed"
                             [] ch = (IF key THEN ":" ELSE ",") -> "want"
                             [] ch = "}" /\ ~key -> "end" [] OTHER -> "error"
      [] at = "error"   -> "error"
      [] OTHER          -> "lost"

\* The texts that have been closed are in turn a key and its value.
StrictStep(r, ch) ==
    LET at == Place(r.at, Len(r.texts) % 2 = 1, ch)
    IN  [at    |-> at,
         texts |-> IF r.at = "text" /\ at = "closed" THEN Append(r.texts, r.text) ELSE r.texts,
         text  |-> CASE at = "text" /\ r.at # "want" -> Append(r.text, ch)
                     [] at = "closed" -> <<>> [] OTHER -> r.text]

Strict(document) ==
    LET read[k \in 0 .. Len(document)] ==
          IF k = 0 THEN [at |-> "start", texts |-> <<>>, text |-> <<>>]
          ELSE StrictStep(read[k - 1], document[k])
    IN  read[Len(document)]

\* data.get: of members with one key the last counts.
get(texts, key) ==
    texts[2 * Max({k \in 1 .. Len(texts) \div 2 : texts[2 * k - 1] = <<key>>})]
-----------------------------------------------------------------------------
(* Properties.                                                             *)

Without(text, ch) ==
    FlattenSeq([k \in DOMAIN text |-> IF text[k] = ch THEN <<>> ELSE <<text[k]>>])

\* The server has the text that was typed, whatever it is made of, but for its
\* NULs (cJSON.c:184, 190); and the second loop of parse_string writes no more
\* than the first has counted.
ReadAsTyped ==
    i = 0 =>
      \A nulls \in SUBSET DOMAIN in :
        LET text == [k \in DOMAIN in |-> IF k \in nulls THEN "null" ELSE in[k]]
            str  == stringify(text)
        IN  /\ parse_string(str) = Without(text, "null")
            /\ Len(parse_string(str)) <= string_length(str)

\* A text without backslashes that no quote can turn into another document: it
\* has none, or nothing that would follow one.
Inert(text) ==
    /\ \A k \in DOMAIN text : text[k] # "backslash"
    /\ \/ \A k \in DOMAIN text : text[k] # "quote"
       \/ \A k \in DOMAIN text : text[k] \notin Marks

\* The service is asked for the account that was typed, or for none: although
\* req_json is neither escaped nor checked for its length, whatever marks are
\* in the name and the password, any control or quote and any cut is refused,
\* and what fits is asked for.  (The code has this only of inert texts: behind
\* a quote, marks are part of the document, and a backslash takes the next
\* character with it.)  The buffer has out_size bytes, and name and password
\* as many characters as in.
AskedAsTyped ==
    i = 0 /\ (\A k \in DOMAIN in : in[k] = "letter") =>
      \A n \in 0 .. Len(in) :
        \A username \in {t \in [1 .. n -> Symbol] : Inert(t)},
           password \in {t \in [1 .. Len(in) - n -> Symbol] : Inert(t)} :
          LET request == Strict(req_json(username, password, out_size))
          IN  IF /\ \A text \in {username, password} :
                      \A k \in DOMAIN text : text[k] \notin {"quote", "control"}
                 /\ Len(credentials(username, password)) + 1 <= out_size
              THEN /\ request.at = "end"
                   /\ get(request.texts, "username") = username
                   /\ get(request.texts, "password") = password
              ELSE request.at \notin {"end", "lost"}

\* A page is shown the name it has logged in with, but for its controls, if
\* that fits the buffer: whatever its last character, nothing else is cut.
ShownAsTyped ==
    ~Going /\ FormLength(Len(in)) + 1 <= out_size =>
      LET reply == Strict(<<"{">> \o Member("username", out) \o <<"}">>)
      IN  reply.at = "end" /\ get(reply.texts, "username") = Without(in, "control")
=============================================================================
