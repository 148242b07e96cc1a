--------------------------- MODULE MCServerClaims ---------------------------
(***************************************************************************)
(* What the documents, comments and tests say of the server and its code   *)
(* does not do.  Each is checked on an instance of its own, and TLC finds  *)
(* a behaviour of LocationServer that breaks it.                           *)
(***************************************************************************)
EXTENDS MCLocationServer

MalformedInputs == {Plain("not_json"), Plain("unknown"), Plain("no_type"),
                    Plain("location_no_payload"), Plain("auth_no_payload")}

\* chaos_test.py:136, "Server survived malformed input": no text a client
\* sends, whatever is missing from it, ends the process in an access violation.
SurvivesMalformedInput == pc # "crashed"

\* main.c:23-25: the handler's flag lets the loop exit; Ctrl+C at any moment
\* ends the program.
InterruptEnds == interrupted ~> pc \in Exited
=============================================================================
