-------------------------- MODULE MCBrowserClient --------------------------
(* What app.js and its documentation say of BrowserClient. *)
EXTENDS BrowserClient

\* app.js:375, "Guard against hanging forever if auth_response never arrives":
\* while the login on the current socket is unanswered the timer runs.
LoginGuarded == IsOpen /\ sock[ws].asked => authTimer
=============================================================================
