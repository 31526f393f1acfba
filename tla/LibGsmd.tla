------------------------------ MODULE LibGsmd ------------------------------
(***************************************************************************)
(* Clients that use libgsmd (gsm/src/libgsmd), on top of UsockServer: a    *)
(* passthrough request waits for its reply and handles everything else it  *)
(* reads meanwhile (lgsm_blocking_wait_packet); otherwise what is read     *)
(* from the socket goes to lgsm_handle_packet.  One read() may return       *)
(* several messages; messages are read as a whole.                         *)
(***************************************************************************)
EXTENDS UsockServer

CONSTANTS
  Asks,   \* the requests that the client of a connection sends
  Bursts  \* may one read return several messages?

ASSUME LibGsmdAssumption == Asks \in [Conns -> SUBSET Requests] /\ Bursts \in BOOLEAN

VARIABLES
  waiting,  \* the id that a client waits for, if it does
  taken     \* how many messages of out a client has read

lib   == <<waiting, taken>>
lvars == <<vars, lib>>
-----------------------------------------------------------------------------
\* lgsm_passthrough sends and then waits; other requests do not wait.
lgsm_send(c, k) ==
  /\ waiting[c] = {}
  /\ Send(c, k)
  /\ waiting' = IF k = "pass" THEN [waiting EXCEPT ![c] = {sent}] ELSE waiting
  /\ UNCHANGED taken

\* Is the id in the header of m the one waited for?  usock_build_event leaves
\* the id of an event as talloc finds it.
Matching_any(m, ids) == {TRUE}
Matching(m, ids) ==
  CASE m.type = "reply" -> {m.id \in ids}
    [] m.type = "event" -> BOOLEAN

\* read() of k messages: only the first one is compared with the id.  If it is
\* the one, the others are dropped; if not, all go to lgsm_handle_packet.
lgsm_blocking_wait_packet(c, k) ==
  /\ waiting[c] # {} /\ c \notin closed
  /\ k \in 1 .. Len(out[c]) - taken[c] /\ (Bursts \/ k = 1)
  /\ taken' = [taken EXCEPT ![c] = @ + k]
  /\ \E match \in Matching(out[c][taken[c] + 1], waiting[c]) :
       waiting' = IF match THEN [waiting EXCEPT ![c] = {}] ELSE waiting
  /\ UNCHANGED vars

lgsm_handle_packet(c) ==
  /\ waiting[c] = {} /\ c \notin closed
  /\ taken[c] < Len(out[c])
  /\ taken' = [taken EXCEPT ![c] = Len(out[c])]
  /\ UNCHANGED <<vars, waiting>>

LInit ==
  /\ Init
  /\ waiting = [c \in Conns |-> {}] /\ taken = [c \in Conns |-> 0]

LNext ==
  \/ Daemon /\ UNCHANGED lib
  \/ \E c \in Conns :
       \/ Close(c) /\ UNCHANGED lib
       \/ lgsm_handle_packet(c)
       \/ \E k \in Asks[c] : lgsm_send(c, k)
       \/ \E k \in 1 .. Len(out[c]) : lgsm_blocking_wait_packet(c, k)

\* Clients read what there is for them; they need not send, or leave.
LSpec ==
  /\ LInit /\ [][LNext]_lvars /\ Fairness
  /\ \A c \in Conns : WF_lvars(\E k \in 1 .. Len(out[c]) : lgsm_blocking_wait_packet(c, k))
-----------------------------------------------------------------------------
\* "The caller will be blocked until a response to the command has been
\* received" (README.txt:24), and not longer.
WaitEnds ==
  \A c \in Conns : waiting[c] # {} ~> (waiting[c] = {} \/ c \in closed \/ ~ running)

\* The message that ends the wait is the reply to the request ("we've found the
\* matching packet, return to calling function", libgsmd.c:156).
OwnReply ==
  [][\A c \in Conns : waiting[c] # {} /\ waiting'[c] = {} =>
       LET m == out[c][taken[c] + 1]
       IN  m.type = "reply" /\ m.req \in waiting[c] /\ m.conn = c]_lvars
=============================================================================
