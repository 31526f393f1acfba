----------------------------- MODULE MCLibGsmd -----------------------------
(* LibGsmd with two clients. *)
EXTENDS LibGsmd

\* One client waits for replies and also gets others; the other one hangs up.
MCAsks == <<{"pass", "list"}, {"hangup"}>>

\* One client.
MCOne == <<{"pass"}>>
=============================================================================
