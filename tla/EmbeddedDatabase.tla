-------------------------- MODULE EmbeddedDatabase --------------------------
(***************************************************************************)
(* src/database.c, the layer that service.py has taken over from: tables   *)
(* behind one handle, changed by one call at a time.  The server is no     *)
(* longer linked with it; here it is what the service has to be like, for  *)
(* all its threads, timeouts and restarts (Implemented in                  *)
(* DatabaseService).  A call that fails returns -1 and changes nothing.    *)
(*                                                                         *)
(* Left out: the table of sessions, which the service no longer has.       *)
(***************************************************************************)
EXTENDS Integers, Sequences, SequencesExt

CONSTANTS
    Users, Passwords, Places, Levels,
    Seeds   \* the accounts of db_seed_users, a sequence of credentials

VARIABLES
    db,         \* is there a handle?
    users,      \* tables in id order; a user's name stands for its id
    locations, logs

vars == <<db, users, locations, logs>>

Init == db = FALSE /\ users = <<>> /\ locations = <<>> /\ logs = <<>>
-----------------------------------------------------------------------------
\* unsigned long, which has 32 bits on Windows, as two halves.  Passwords are
\* ASCII here: char is signed, so that other bytes count as negative numbers
\* and service.py, which adds code points, does not agree.
djb2_hash(str) ==
    FoldLeft(LAMBDA hash, c :
               LET low == 33 * hash[2] + c
               IN  <<(33 * hash[1] + low \div 2^16) % 2^16, low % 2^16>>,
             <<0, 5381>>, str)

\* The UNIQUE constraint refuses a name that is there.
db_add_user(table, c) ==
    IF \E k \in DOMAIN table : table[k].username = c.username THEN table
    ELSE Append(table, [username |-> c.username, password_hash |-> djb2_hash(c.password)])

\* The tables that may come of it: each seed may fail, which nobody looks at.
db_seed_users(table) ==
    FoldLeft(LAMBDA tables, c : tables \union {db_add_user(t, c) : t \in tables},
             {table}, Seeds)

\* db_init, whose tables are made only if they do not exist, and the seeds.
Open ==
    /\ ~db /\ db' = TRUE
    /\ users' \in db_seed_users(users)
    /\ UNCHANGED <<locations, logs>>

\* db_close, or the end of the process.
Close == db /\ db' = FALSE /\ UNCHANGED <<users, locations, logs>>

AddUser(c) == db /\ users' = db_add_user(users, c) /\ UNCHANGED <<db, locations, logs>>

\* db_add_location.  The reference to users is not enforced.
AddLocation(user_id, place) ==
    /\ db /\ locations' = Append(locations, [user_id |-> user_id, place |-> place])
    /\ UNCHANGED <<db, users, logs>>

\* db_add_log
AddLog(level) == db /\ logs' = Append(logs, level) /\ UNCHANGED <<db, users, locations>>

Next ==
    \/ Open \/ Close
    \/ \E c \in [username : Users, password : Passwords] : AddUser(c)
    \/ \E user_id \in Users, place \in Places : AddLocation(user_id, place)
    \/ \E level \in Levels : AddLog(level)

Spec == Init /\ [][Next]_vars
=============================================================================
