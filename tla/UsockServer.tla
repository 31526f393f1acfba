---------------------------- MODULE UsockServer ----------------------------
(***************************************************************************)
(* The user socket server of gsmd (gsm/src/gsmd/usock.c, and the sending   *)
(* of events in unsolicited.c): clients connect, send requests and get     *)
(* replies and events.  Requests become AT commands; the engine that       *)
(* executes them is what AtQueue promises, which AtCmd implements.         *)
(*                                                                         *)
(* A command keeps the address of its struct gsmd_user as its context, and *)
(* addresses are used again, so connections and addresses (slots) are told *)
(* apart.  Requests are abstracted to what they do: which callback answers *)
(* them, and how many commands they submit.                                *)
(***************************************************************************)
EXTENDS Naturals, SequencesExt

CONSTANTS
  Slots,       \* addresses where talloc may put a struct gsmd_user
  Requests,    \* the kinds of requests that clients send
  MaxConns,    \* bound: connections ever made
  MaxRequests, \* bound: requests ever sent
  MaxEvents,   \* bound: unsolicited messages of the modem
  MaxLines,    \* bound: information lines in the answer to a command
  Pipelined,   \* do clients send a request before the last one was read?
  LeavesBusy,  \* do clients leave while a command of theirs is queued?
  LeavesAny,   \* do clients leave while a reply is being written?
  MaxParts     \* bound: messages of which a connection accepts only a part

Conns == 1 .. MaxConns

\* pass: usock_cmd_cb answers it with its id; list: two commands, the second
\* one answered entry by entry (network_pref_opers_cb); quiet: null_cmd_cb;
\* hangup: cancel_atcmd; invalid: rejected with -EINVAL.
Kinds == {"pass", "list", "quiet", "hangup", "subscribe", "unsubscribe", "invalid"}

ASSUME UsockAssumption ==
  /\ Requests \subseteq Kinds
  /\ {MaxConns, MaxRequests, MaxEvents, MaxLines, MaxParts} \subseteq Nat
  /\ {Pipelined, LeavesBusy, LeavesAny} \subseteq BOOLEAN

VARIABLES
  queue, next, done, dropped,  \* the AT command engine, see AtQueue
  cmd,       \* the commands by their ids: callback, context, and whose request
  infos,     \* information lines the first command has got
  conn,      \* which connection the user at a slot is; 0 if none is there
  subs,      \* subscriptions of the user at a slot (one group of events)
  when,      \* GSMD_FD_WRITE in gfd.when of the user at a slot
  finished,  \* finished_ucmds of the user at a slot
  sel,       \* the slots that select has reported writable, still to be called
  requests,  \* what a connection has sent and gsmd has not read
  closed,    \* the connections whose client has closed
  out,       \* what was written to a connection
  nconns, sent, events,  \* counters: connections, requests, events
  wild,      \* history: was a user that is freed written to?
  running    \* FALSE once SIGPIPE has ended the daemon

engine == <<queue, next, done, dropped, cmd, infos>>
users  == <<conn, subs, when, finished>>
sock   == <<requests, closed, out, nconns, sent>>
vars   == <<engine, users, sel, sock, events, wild, running>>

Engine == INSTANCE AtQueue

Request == [kind : Kinds, id : Nat]
Command == [cb : {"own", "pass", "hangup", "entry", "null"}, ctx : Slots \cup {0}, conn : 0 .. MaxConns, id : Nat]

\* A reply carries a header id; conn and req, whose request it answers, are
\* history.  An event has a number.  part is a message written in part.
Reply == [type : {"reply"}, conn : Conns, req : Nat, id : Nat, last : BOOLEAN]
Event == [type : {"event"}, number : Nat]
Part  == [type : {"part"}]
-----------------------------------------------------------------------------
\* What the callback of command c makes of a response: interim, or with its
\* final result, or the "OK" that cancel_atcmd makes up.  usock_cmd_cb replies
\* in every case; an entry of a list needs an information line and no error, so
\* a list that is empty or fails has no last entry.
Replies(c, info, ret) ==
  CASE c.cb \in {"pass", "hangup"} ->
                         <<[type |-> "reply", conn |-> c.conn, req |-> c.id, id |-> c.id,
                            last |-> ret # "interim"]>>
    [] c.cb = "entry" -> IF info /\ ret \in {"interim", "OK"}
                           THEN <<[type |-> "reply", conn |-> c.conn, req |-> c.id, id |-> 0,
                                   last |-> ret = "OK"]>>
                           ELSE <<>>
    [] OTHER          -> <<>>

\* llist_add_tail
Enqueued_first(list, ucmds) == ucmds \o list
Enqueued(list, ucmds) == list \o ucmds

\* usock_cmd_enqueue to the user at s, which may not be there any more.
usock_cmd_enqueue(s, ucmds) ==
  IF ucmds = <<>>
    THEN UNCHANGED <<when, finished, wild>>
    ELSE IF conn[s] = 0
           THEN /\ wild' = TRUE
                /\ UNCHANGED <<when, finished>>
           ELSE /\ finished' = [finished EXCEPT ![s] = Enqueued(@, ucmds)]
                /\ when' = [when EXCEPT ![s] = TRUE]
                /\ UNCHANGED wild

Callback(c, info, ret) == usock_cmd_enqueue(c.ctx, Replies(c, info, ret))
-----------------------------------------------------------------------------
(***************************************************************************)
(* The engine: the first command gets an information line, which hands     *)
(* what came before to the callback; or its final result; wakeups of the   *)
(* daemon's own are given up.                                              *)
(***************************************************************************)
First == cmd[Head(queue)]

Inform ==
  /\ running
  /\ queue # <<>> /\ First.cb \in {"pass", "hangup", "entry"}
  /\ infos < MaxLines
  /\ infos' = infos + 1
  /\ IF infos > 0 THEN Callback(First, TRUE, "interim")
                  ELSE UNCHANGED <<when, finished, wild>>
  /\ UNCHANGED <<queue, next, done, dropped, cmd, conn, subs, sel, sock, events, running>>

Finish(ret) ==
  /\ running
  /\ next' = next
  /\ Engine!Finish
  /\ Callback(First, infos > 0, ret)
  /\ infos' = 0
  /\ UNCHANGED <<cmd, conn, subs, sel, sock, events, running>>

GiveUp ==
  /\ running
  /\ queue # <<>> /\ First.cb = "own"
  /\ Engine!GiveUp
  /\ UNCHANGED <<cmd, infos, users, sel, sock, events, wild, running>>
-----------------------------------------------------------------------------
(***************************************************************************)
(* Connections.                                                            *)
(***************************************************************************)
\* gsmd_usock_cb: a new user, subscribed to everything.
NewList_kept(s) == finished[s]
NewList(s) == <<>>

Connect(s) ==
  /\ running
  /\ conn[s] = 0 /\ nconns < MaxConns
  /\ nconns' = nconns + 1
  /\ conn' = [conn EXCEPT ![s] = nconns + 1]
  /\ subs' = [subs EXCEPT ![s] = TRUE]
  /\ when' = [when EXCEPT ![s] = FALSE]
  /\ finished' = [finished EXCEPT ![s] = NewList(s)]
  /\ UNCHANGED <<engine, sel, requests, closed, out, sent, events, wild, running>>

\* A client sends a request (lgsm_send).
Send(c, k) ==
  /\ sent < MaxRequests
  /\ \E s \in Slots : conn[s] = c
  /\ c \notin closed
  /\ Pipelined \/ requests[c] = <<>>
  /\ sent' = sent + 1
  /\ requests' = [requests EXCEPT ![c] = Append(@, [kind |-> k, id |-> sent])]
  /\ UNCHANGED <<engine, users, sel, closed, out, nconns, events, wild, running>>

\* A client closes its connection, or is killed.
Busy(c)    == \E i \in 1 .. Len(queue) : cmd[queue[i]].conn = c
Writing(c) == \E s \in sel : conn[s] = c

Close(c) ==
  /\ \E s \in Slots : conn[s] = c
  /\ c \notin closed
  /\ LeavesBusy \/ (requests[c] = <<>> /\ ~ Busy(c))
  /\ LeavesAny \/ ~ Writing(c)
  /\ closed' = closed \cup {c}
  /\ UNCHANGED <<engine, users, sel, requests, out, nconns, sent, events, wild, running>>
-----------------------------------------------------------------------------
(***************************************************************************)
(* The read half of gsmd_usock_user_cb: one read gets all that was sent,   *)
(* and the first message in it is handled.                                 *)
(***************************************************************************)
Readable(s) == conn[s] # 0 /\ s \notin sel /\ (requests[conn[s]] # <<>> \/ conn[s] \in closed)

Submitted(s, cbs, id) ==
  [i \in 1 .. Len(cbs) |-> [cb |-> cbs[i], ctx |-> s, conn |-> conn[s], id |-> id]]

\* The callbacks of the commands that a request submits.
Callbacks(k) == CASE k = "pass"  -> <<"pass">>
                  [] k = "list"  -> <<"null", "entry">>
                  [] k = "quiet" -> <<"null">>
                  [] OTHER       -> <<>>

SubmitFor(s, r) ==
  /\ Callbacks(r.kind) # <<>>
  /\ next' = next + Len(Callbacks(r.kind))
  /\ Engine!Submit
  /\ cmd' = cmd \o Submitted(s, Callbacks(r.kind), r.id)
  /\ UNCHANGED <<infos, users, wild>>

\* cancel_atcmd: the hang-up finishes the command that is executing, if one is.
HangUpFor(s, r) ==
  /\ r.kind = "hangup"
  /\ next' = next + 1
  /\ cmd' = cmd \o Submitted(s, <<"hangup">>, r.id)
  /\ \/ Engine!Submit /\ UNCHANGED <<infos, users, wild>>
     \/ /\ Engine!Cancel
        /\ Callback(First, FALSE, "cancelled")
        /\ infos' = 0
        /\ UNCHANGED <<conn, subs>>

usock_rcv_event(s, r) ==
  /\ r.kind \in {"subscribe", "unsubscribe"}
  /\ subs' = [subs EXCEPT ![s] = r.kind = "subscribe"]
  /\ UNCHANGED <<engine, conn, when, finished, wild>>

Rejected(r) ==
  /\ r.kind = "invalid"
  /\ UNCHANGED <<engine, users, wild>>

\* What stays unread of what was sent.
Unread(rs) == <<>>

ReadRequest(s) ==
  /\ running
  /\ Readable(s) /\ requests[conn[s]] # <<>>
  /\ LET r == Head(requests[conn[s]])
     IN  SubmitFor(s, r) \/ HangUpFor(s, r) \/ usock_rcv_event(s, r) \/ Rejected(r)
  /\ requests' = [requests EXCEPT ![conn[s]] = Unread(@)]
  /\ UNCHANGED <<sel, closed, out, nconns, sent, events, running>>

\* EOF: the user is freed; its replies are not, and its commands stay.
ReadEof(s) ==
  /\ running
  /\ Readable(s) /\ requests[conn[s]] = <<>>
  /\ conn' = [conn EXCEPT ![s] = 0]
  /\ UNCHANGED <<engine, subs, when, finished, sel, sock, events, wild, running>>
-----------------------------------------------------------------------------
(***************************************************************************)
(* The write half.  It is called for the users that select has found       *)
(* writable and not readable.                                              *)
(***************************************************************************)
select ==
  /\ running
  /\ sel = {}
  /\ sel' = {s \in Slots : conn[s] # 0 /\ when[s] /\ ~ Readable(s)}
  /\ sel' # {}
  /\ UNCHANGED <<engine, users, sock, events, wild, running>>

\* The flag after what is left of finished_ucmds.
WhenLeft_never(left) == FALSE
WhenLeft(left) == left # <<>>

Parts(c) == Len(SelectSeq(out[c], LAMBDA m : m.type = "part"))

\* The first j messages are written and freed; if messages are left, the
\* next one was written in part or not at all.
Write(s, j) ==
  /\ running
  /\ s \in sel /\ conn[s] \notin closed
  /\ j <= Len(finished[s])
  /\ LET left  == SubSeq(finished[s], j + 1, Len(finished[s]))
         whole == SubSeq(finished[s], 1, j)
     IN  /\ finished' = [finished EXCEPT ![s] = left]
         /\ when' = [when EXCEPT ![s] = WhenLeft(left)]
         /\ \/ j > 0 /\ out' = [out EXCEPT ![conn[s]] = @ \o whole]
            \/ /\ left # <<>> /\ Parts(conn[s]) < MaxParts
               /\ out' = [out EXCEPT ![conn[s]] = @ \o Append(whole, [type |-> "part"])]
  /\ sel' = sel \ {s}
  /\ UNCHANGED <<engine, conn, subs, requests, closed, nconns, sent, events, wild, running>>

\* write() to a connection that the client has closed raises SIGPIPE, which
\* nothing catches or ignores (gsmd.c:384).
WriteClosed(s) ==
  /\ running
  /\ s \in sel /\ conn[s] \in closed
  /\ running' = FALSE
  /\ UNCHANGED <<engine, users, sel, sock, events, wild>>
-----------------------------------------------------------------------------
(***************************************************************************)
(* usock_evt_send: every subscriber gets the event or a copy of it (what   *)
(* ucmd_copy cuts off is not seen here).                                   *)
(***************************************************************************)
Subscribers == {s \in Slots : conn[s] # 0 /\ subs[s]}

usock_evt_send ==
  /\ running
  /\ events < MaxEvents
  /\ events' = events + 1
  /\ finished' = [s \in Slots |->
       IF s \in Subscribers
         THEN Enqueued(finished[s], <<[type |-> "event", number |-> events + 1]>>)
         ELSE finished[s]]
  /\ when' = [s \in Slots |-> when[s] \/ s \in Subscribers]
  /\ UNCHANGED <<engine, conn, subs, sel, sock, wild, running>>
-----------------------------------------------------------------------------
\* The engine starts with the daemon's own commands, or with none.
Init ==
  /\ Engine!Init
  /\ cmd = [i \in 1 .. next - 1 |->
              [cb |-> "own", ctx |-> 0, conn |-> 0, id |-> 0]]
  /\ infos = 0
  /\ conn = [s \in Slots |-> 0] /\ subs = [s \in Slots |-> FALSE]
  /\ when = [s \in Slots |-> FALSE] /\ finished = [s \in Slots |-> <<>>]
  /\ sel = {}
  /\ requests = [c \in Conns |-> <<>>] /\ closed = {} /\ out = [c \in Conns |-> <<>>]
  /\ nconns = 0 /\ sent = 0 /\ events = 0
  /\ wild = FALSE /\ running = TRUE

Daemon ==
  \/ Inform \/ GiveUp \/ select \/ usock_evt_send
  \/ \E ret \in {"OK", "error"} : Finish(ret)
  \/ \E s \in Slots : Connect(s) \/ ReadRequest(s) \/ ReadEof(s) \/ WriteClosed(s)
  \/ \E s \in Slots : \E j \in 0 .. Len(finished[s]) : Write(s, j)

Next ==
  \/ Daemon
  \/ \E c \in Conns : Close(c) \/ \E k \in Requests : Send(c, k)

(***************************************************************************)
(* Fairness: main calls gsmd_select_main for ever, which calls every       *)
(* callback that is due; and the engine finishes its commands, which is    *)
(* checked of AtCmd in AtSession.                                          *)
(***************************************************************************)
Fairness ==
  /\ WF_vars(select)
  /\ WF_vars(\E ret \in {"OK", "error"} : Finish(ret))
  /\ \A s \in Slots :
       /\ WF_vars(ReadRequest(s) \/ ReadEof(s))
       /\ WF_vars(\E j \in 0 .. Len(finished[s]) : Write(s, j))

Spec == Init /\ [][Next]_vars /\ Fairness
-----------------------------------------------------------------------------
(***************************************************************************)
(* Properties.                                                             *)
(***************************************************************************)
\* As long as there is something for a user, its socket is polled for writing:
\* no callback, event, partial or failing write forgets to keep the flag.
WritersPolled == \A s \in Slots : conn[s] # 0 /\ finished[s] # <<>> => when[s]

\* A client only gets replies to its own requests, and nothing is written to a
\* user that was freed, whatever happens to connections and addresses while
\* commands are queued ("destroy whole user structure", usock.c:1576).
RepliesToOwner ==
  /\ ~ wild
  /\ \A c \in Conns : \A i \in 1 .. Len(out[c]) : out[c][i].type = "reply" => out[c][i].conn = c
  /\ \A s \in Slots : conn[s] # 0 =>
       \A i \in 1 .. Len(finished[s]) : finished[s][i].type = "reply" => finished[s][i].conn = conn[s]

\* Replies come in the order of the requests, except that those to a hang-up may
\* overtake others; the last reply to a request is marked as the last one and
\* nothing else is; and events come in order and once.
HungUp(id) == \E n \in DOMAIN cmd : cmd[n].cb = "hangup" /\ cmd[n].id = id

InOrder ==
  \A c \in Conns : \A i, j \in 1 .. Len(out[c]) : i < j =>
    /\ out[c][i].type = "reply" /\ out[c][j].type = "reply" =>
         \/ out[c][i].req < out[c][j].req \/ (HungUp(out[c][i].req) /\ out[c][i].req # out[c][j].req)
         \/ out[c][i].req = out[c][j].req /\ ~ out[c][i].last
    /\ out[c][i].type = "event" /\ out[c][j].type = "event" => out[c][i].number < out[c][j].number
=============================================================================
