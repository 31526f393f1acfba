------------------------------- MODULE AtCmd -------------------------------
(***************************************************************************)
(* The AT command engine of the gsmd daemon (gsm/src/gsmd/atcmd.c, with    *)
(* the alive check and the start-up commands of gsmd.c).                   *)
(*                                                                         *)
(* Commands wait in `pending`, are written to the UART one line at a time  *)
(* and then wait in `busy` for their final result code.  The UART is       *)
(* written only while the flag GSMD_FD_WRITE is set in gfd_uart.when; the  *)
(* whole difficulty of this code is to set that flag whenever there is     *)
(* something to write and nothing to wait for.                             *)
(*                                                                         *)
(* The modem is an arbitrary environment here: it may send any line at any *)
(* time.  AtSession composes this module with a modem that answers.        *)
(* Lines the code drops without touching the queue (an echo, an extended   *)
(* reply without a colon or to a non-extended command, a final result      *)
(* while nothing is busy, an event that is only passed on) are stuttering  *)
(* steps.  mlunsolicited is left out: only the parsers sms_cb_init would   *)
(* register ask for a second line, and gsmd.c:194 comments it out.         *)
(***************************************************************************)
EXTENDS Naturals, Sequences

CONSTANTS
  Texts,        \* what a client may submit: each text is the lengths of its lines
  Setup,        \* the kinds of the commands that initialise the modem, in order
  MaxId,        \* bound: commands ever created
  MaxIntervals, \* bound: alive interval timers ever created
  ShortWrites,  \* may the tty accept only the first bytes of a line?
  Hangups       \* do clients hang up calls (ATH through cancel_atcmd)?

Kinds == {"wakeup", "atz", "cpi", "cpmb", "alive", "plain", "silent", "hangup"}

ASSUME AtCmdAssumption ==
  /\ Texts \subseteq (Seq(Nat) \ {<<>>})
  /\ Setup \in Seq(Kinds \ {"wakeup", "alive"})
  /\ MaxId \in Nat /\ MaxId >= 2
  /\ MaxIntervals \in Nat
  /\ ShortWrites \in BOOLEAN
  /\ Hangups \in BOOLEAN

VARIABLES
  pending,       \* pending_atcmds
  busy,          \* busy_atcmds: written, waiting for the final result
  when,          \* GSMD_FD_WRITE in gfd_uart.when
  ready,         \* interpreter_ready
  mlbuf,         \* whose lines mlbuf holds: ids of the commands that were
                 \* executing when they came, 0 for none; {} is mlbuf_len = 0
  wakeup_timer,  \* is g->wakeup_timer set?
  intervals,     \* number of alive interval timers
  alive,         \* the running alive checks: command id -> alive_responded
  running,       \* FALSE once alive_tmr_cb has called exit(3)
  next,          \* id of the next command to be created
  done,          \* history: ids of the commands whose final callback ran
  dropped,       \* history: ids of the wakeup commands freed by wakeup_timeout
  answered       \* history: ids that got OK or ERROR as their final result

history == <<next, done, dropped, answered>>
vars    == <<pending, busy, when, ready, mlbuf, wakeup_timer, intervals, alive,
             running, next, done, dropped, answered>>

Ids == 1 .. MaxId

(***************************************************************************)
(* A command.  `rest` are the lengths of the lines still to be written,    *)
(* the first one perhaps partly written; `started` is cur # buf.  The ids  *)
(* number the commands in the order they are created.                      *)
(***************************************************************************)
Cmd == [id : Ids, kind : Kinds, rest : Seq(Nat), started : BOOLEAN]

\* A pending command still has a line to write, a busy one has none left.
Unsent == {c \in Cmd : c.rest # <<>>}
Sent   == {c \in Cmd : c.rest = <<>>}

\* What atcmd_fill is given: the kind of the command, and its text.
Request == [kind : Kinds, text : Seq(Nat) \ {<<>>}]

\* The texts " ", "AT", "ATZ", "ATH"; the length of the other commands that
\* the daemon sends by itself makes no difference.
Text(k) == CASE k = "wakeup" -> <<1>>
             [] k = "alive"  -> <<2>>
             [] OTHER        -> <<3>>

Fixed(k) == [kind |-> k, text |-> Text(k)]

FixedAll(kinds) == [i \in 1 .. Len(kinds) |-> Fixed(kinds[i])]

\* Does the command accept information responses ("+..." or "%...")?
Extended(c) == c.kind \notin {"wakeup", "atz", "alive", "hangup"}

\* atcmd_fill for a sequence of requests, numbered from n.
atcmd_fill(n, reqs) ==
  [i \in 1 .. Len(reqs) |->
     [id |-> n + i - 1, kind |-> reqs[i].kind, rest |-> reqs[i].text,
      started |-> FALSE]]
-----------------------------------------------------------------------------
(***************************************************************************)
(* atcmd_submit of the requests reqs one after the other.  The first one   *)
(* calls atcmd_wakeup_modem: if the wakeup timer t is off it is started    *)
(* and a wakeup command goes before it.                                    *)
(***************************************************************************)
Batch(t, reqs) == IF reqs = <<>> \/ t THEN reqs ELSE <<Fixed("wakeup")>> \o reqs

HasRoom(n, t, reqs) == n + Len(Batch(t, reqs)) <= MaxId + 1

atcmd_submit(reqs) ==
  /\ HasRoom(next, wakeup_timer, reqs)
  /\ pending' = pending \o atcmd_fill(next, Batch(wakeup_timer, reqs))
  /\ when' = (when \/ pending = <<>>)
  /\ wakeup_timer' = TRUE
  /\ next' = next + Len(Batch(wakeup_timer, reqs))
-----------------------------------------------------------------------------
(***************************************************************************)
(* What the callbacks submit.  firstcmd_atcb sends the initial settings    *)
(* whatever the answer to ATZ is; cpi_detect_cb and cpmb_detect_cb submit  *)
(* more commands when they are given an information response.              *)
(***************************************************************************)
FollowUps(c, info) ==
  FixedAll(CASE c.kind = "atz"          -> Setup
             [] c.kind = "cpi" /\ info  -> <<"cpmb", "plain">>
             [] c.kind = "cpmb" /\ info -> <<"plain">>
             [] OTHER                   -> <<>>)

\* The queue is polled again when the last executing command leaves busy (b is
\* what is left of it) and commands are pending.
WakeQueue_never(b, p) == FALSE
WakeQueue_eager(b, p) == p # <<>>
WakeQueue(b, p) == b = <<>> /\ p # <<>>

\* null_wakeup_cb unregisters the wakeup timer.
TimerAfter_kept(c, t) == t
TimerAfter(c, t) == t /\ c.kind # "wakeup"

\* gsmd_alive_cb: only the bare result codes OK and ERROR count as an answer.
gsmd_alive_cb(c, info, res) ==
  alive' = [i \in DOMAIN alive |->
              alive[i] \/ (i = c.id /\ ~ info /\ res \in {"OK", "ERROR"})]

(***************************************************************************)
(* atcmd_done for the head of busy, when pending is p, the next id n and   *)
(* mlbuf ml.  The callback gets ml if it holds anything, else the result   *)
(* res; what it submits goes to pending while the command is still busy.   *)
(* A command without callback ("silent") leaves mlbuf as it is.            *)
(***************************************************************************)
atcmd_done(p, n, ml, res) ==
  LET c    == Head(busy)
      info == ml # {}
      t    == TimerAfter(c, wakeup_timer)
      reqs == FollowUps(c, info)
      p2   == p \o atcmd_fill(n, Batch(t, reqs))
  IN  /\ HasRoom(n, t, reqs)
      /\ busy' = Tail(busy)
      /\ pending' = p2
      /\ when' = (\/ when
                  \/ reqs # <<>> /\ p = <<>>
                  \/ WakeQueue(Tail(busy), p2))
      /\ wakeup_timer' = (t \/ reqs # <<>>)
      /\ mlbuf' = IF c.kind = "silent" THEN ml ELSE {}
      /\ next' = n + Len(Batch(t, reqs))
      /\ done' = done \cup {c.id}
      /\ gsmd_alive_cb(c, info, res)
-----------------------------------------------------------------------------
(***************************************************************************)
(* Clients: usock.c and sms_cb.c fill a command and submit it.  A hang-up  *)
(* cancels the command that is executing and jumps the queue.              *)
(***************************************************************************)
ClientSubmit(k, text) ==
  /\ running
  /\ atcmd_submit(<<[kind |-> k, text |-> text]>>)
  /\ UNCHANGED <<busy, ready, mlbuf, intervals, alive, running, done, dropped, answered>>

cancel_idle ==
  /\ running /\ Hangups
  /\ busy = <<>>
  /\ atcmd_submit(<<Fixed("hangup")>>)
  /\ UNCHANGED <<busy, ready, mlbuf, intervals, alive, running, done, dropped, answered>>

cancel_atcmd ==
  /\ running /\ Hangups
  /\ busy # <<>>
  /\ next <= MaxId
  /\ atcmd_done(atcmd_fill(next, <<Fixed("hangup")>>) \o pending, next + 1, {}, "OK")
  /\ UNCHANGED <<ready, intervals, running, dropped, answered>>
-----------------------------------------------------------------------------
(***************************************************************************)
(* The write half of atcmd_select_cb: select reports the UART writable and *)
(* the flag is set.  Only the first pending command is looked at.          *)
(***************************************************************************)
WriteReady == running /\ when /\ ready

\* Nothing to write: the flag is cleared.
WriteNothing ==
  /\ WriteReady
  /\ pending = <<>>
  /\ when' = FALSE
  /\ UNCHANGED <<pending, busy, ready, mlbuf, wakeup_timer, intervals, alive, running, history>>

\* write() of an empty line returns 0: "aborting", the flag is cleared.
WriteZero ==
  /\ WriteReady
  /\ pending # <<>>
  /\ Head(Head(pending).rest) = 0
  /\ when' = FALSE
  /\ UNCHANGED <<pending, busy, ready, mlbuf, wakeup_timer, intervals, alive, running, history>>

\* Where a command with more lines to send stays: at the head of pending.
PutBack_last(d, p) == Append(Tail(p), d)
PutBack(d, p) == <<d>> \o Tail(p)

\* Where a command that was written completely goes: behind those executing.
Executing_first(d, b) == <<d>> \o b
Executing(d, b) == Append(b, d)

\* The whole line is taken; the last line moves the command to busy, after
\* another one it has to wait for the prompt.
WriteLine ==
  /\ WriteReady
  /\ pending # <<>>
  /\ Head(Head(pending).rest) > 0
  /\ LET c == Head(pending)
         d == [c EXCEPT !.rest = Tail(@), !.started = TRUE]
     IN  IF Len(c.rest) = 1
         THEN /\ pending' = Tail(pending)
              /\ busy' = Executing(d, busy)
         ELSE /\ pending' = PutBack(d, pending)
              /\ UNCHANGED busy
  /\ when' = FALSE
  /\ UNCHANGED <<ready, mlbuf, wakeup_timer, intervals, alive, running, history>>

\* Only rc bytes are taken.  On the last line (no '\n') the code also skips
\* the byte after them, and if that was the last one it clears the flag.
Skipped_two(rc, c) == rc + 2
Skipped(rc, c) == IF Len(c.rest) = 1 THEN rc + 1 ELSE rc

WriteShort(rc) ==
  /\ WriteReady /\ ShortWrites
  /\ pending # <<>>
  /\ rc > 0
  /\ rc < Head(Head(pending).rest)
  /\ LET c == Head(pending)
         s == Skipped(rc, c)
     IN  /\ pending' = PutBack([c EXCEPT !.rest[1] = @ - s, !.started = TRUE], pending)
         /\ when' = (s < Head(c.rest))
  /\ UNCHANGED <<busy, ready, mlbuf, wakeup_timer, intervals, alive, running, history>>
-----------------------------------------------------------------------------
(***************************************************************************)
(* The read half: ml_parse gets one line, atcmd_prompt a "> ".             *)
(***************************************************************************)
\* An empty line, or "AT-Command Interpreter ready": (re)initialise.
RecvReady ==
  /\ running
  /\ intervals < MaxIntervals
  /\ ready' = TRUE
  /\ atcmd_submit(<<Fixed("atz")>>)
  /\ intervals' = intervals + 1
  /\ UNCHANGED <<busy, mlbuf, alive, running, done, dropped, answered>>

\* A final result: OK, ERROR, +CME/+CMS ERROR, NO CARRIER or BUSY.
RecvFinal(res) ==
  /\ running
  /\ busy # <<>>
  /\ atcmd_done(pending, next, mlbuf, res)
  /\ answered' = IF res \in {"OK", "ERROR"} THEN answered \cup {Head(busy).id}
                 ELSE answered
  /\ UNCHANGED <<ready, intervals, running, dropped>>

\* An extended line that the executing extended command takes as its
\* information response: what mlbuf holds is handed to the callback first.
RecvInfo ==
  /\ running
  /\ busy # <<>>
  /\ Extended(Head(busy))
  /\ LET reqs == IF mlbuf = {} THEN <<>> ELSE FollowUps(Head(busy), TRUE)
     IN  IF reqs = <<>> THEN UNCHANGED <<pending, when, wakeup_timer, next>>
                        ELSE atcmd_submit(reqs)
  /\ mlbuf' = {Head(busy).id}
  /\ UNCHANGED <<busy, ready, intervals, alive, running, done, dropped, answered>>

\* Any other line, or an unknown extended one while nothing is executing, is
\* appended to mlbuf.
RecvText ==
  /\ running
  /\ mlbuf' = mlbuf \cup {IF busy = <<>> THEN 0 ELSE Head(busy).id}
  /\ UNCHANGED <<pending, busy, when, ready, wakeup_timer, intervals, alive, running, history>>

\* The unsolicited +CREG: of a registration: sms_cb_network_init.
RecvRegistered ==
  /\ running
  /\ atcmd_submit(FixedAll(<<"plain", "plain">>))
  /\ UNCHANGED <<busy, ready, mlbuf, intervals, alive, running, done, dropped, answered>>

atcmd_prompt ==
  /\ running
  /\ when' = TRUE
  /\ UNCHANGED <<pending, busy, ready, mlbuf, wakeup_timer, intervals, alive, running, history>>
-----------------------------------------------------------------------------
(***************************************************************************)
(* Timers.                                                                 *)
(***************************************************************************)
\* The head of busy is freed if it is a wakeup command.
Discarded(b) == Tail(b)

wakeup_timeout ==
  /\ running
  /\ wakeup_timer
  /\ wakeup_timer' = FALSE
  /\ IF busy # <<>> /\ Head(busy).kind = "wakeup"
     THEN /\ busy' = Discarded(busy)
          /\ when' = (when \/ WakeQueue(busy', pending))
          /\ dropped' = dropped \cup {Head(busy).id}
     ELSE UNCHANGED <<busy, when, dropped>>
  /\ UNCHANGED <<pending, ready, mlbuf, intervals, alive, running, next, done, answered>>

\* gsmd_modem_alive, every GSMD_ALIVE_INTERVAL: the new check starts unanswered.
alive_interval_tmr_cb ==
  /\ running
  /\ intervals > 0
  /\ atcmd_submit(<<Fixed("alive")>>)
  /\ alive' = [i \in DOMAIN alive \cup {next' - 1} |->
                 IF i = next' - 1 THEN FALSE ELSE alive[i]]
  /\ UNCHANGED <<busy, ready, mlbuf, intervals, running, done, dropped, answered>>

\* GSMD_ALIVE_TIMEOUT after the check: the daemon exits if it has no answer,
\* else the record of the check is freed.
SurvivesTimeout_always(i) == TRUE
SurvivesTimeout(i) == alive[i]

alive_tmr_cb(i) ==
  /\ running
  /\ i \in DOMAIN alive
  /\ running' = SurvivesTimeout(i)
  /\ alive' = [j \in DOMAIN alive \ {i} |-> alive[j]]
  /\ UNCHANGED <<pending, busy, when, ready, mlbuf, wakeup_timer, intervals, history>>
-----------------------------------------------------------------------------
\* main: with the interpreter assumed ready ("wait" is 0) the initialisation
\* of RecvReady is done before the main loop.
Init ==
  /\ busy = <<>> /\ mlbuf = {} /\ alive = [i \in {} |-> FALSE] /\ running = TRUE
  /\ done = {} /\ dropped = {} /\ answered = {}
  /\ \/ /\ ready = FALSE /\ pending = <<>> /\ when = FALSE
        /\ wakeup_timer = FALSE /\ intervals = 0 /\ next = 1
     \/ /\ ready = TRUE /\ when = TRUE /\ wakeup_timer = TRUE
        /\ pending = atcmd_fill(1, Batch(FALSE, <<Fixed("atz")>>))
        /\ intervals = 1 /\ next = 3

Next ==
  \/ \E k \in {"plain", "silent"}, text \in Texts : ClientSubmit(k, text)
  \/ cancel_idle \/ cancel_atcmd
  \/ WriteNothing \/ WriteZero \/ WriteLine
  \/ \E rc \in 1 .. 3 : WriteShort(rc)
  \/ RecvReady \/ RecvInfo \/ RecvText \/ RecvRegistered \/ atcmd_prompt
  \/ \E res \in {"OK", "ERROR", "CME", "BUSY"} : RecvFinal(res)
  \/ wakeup_timeout \/ alive_interval_tmr_cb
  \/ \E i \in Ids : alive_tmr_cb(i)

Spec == Init /\ [][Next]_vars
-----------------------------------------------------------------------------
(***************************************************************************)
(* Properties.                                                             *)
(***************************************************************************)
\* The type invariant; a pending command has a line left to write and an executing
\* one has none (atcmd.c:509-525).
TypeOK ==
  /\ pending \in Seq(Unsent) /\ busy \in Seq(Sent)
  /\ when \in BOOLEAN /\ ready \in BOOLEAN /\ running \in BOOLEAN
  /\ mlbuf \subseteq 0 .. MaxId
  /\ wakeup_timer \in BOOLEAN
  /\ intervals \in Nat
  /\ DOMAIN alive \subseteq Ids /\ \A i \in DOMAIN alive : alive[i] \in BOOLEAN
  /\ next \in 1 .. MaxId + 1
  /\ done \subseteq Ids /\ dropped \subseteq Ids /\ answered \subseteq Ids

\* The queue rests (the UART is not polled for writing) only while a command
\* is executing, whose end polls it again, or while the first command has
\* been written in part (it waits for a prompt) or is empty: no path through
\* submit, cancel, done, write, prompt and timeout forgets to wake the queue.
NoLostWakeup ==
  pending # <<>> =>
    \/ when
    \/ busy # <<>>
    \/ Head(pending).started
    \/ Head(Head(pending).rest) = 0

\* While the wakeup timer runs, and no new wakeup command is made because of
\* it, one is in the queues: its callback or the timeout stops the timer.
HasWakeup(q) == \E i \in 1 .. Len(q) : q[i].kind = "wakeup"

TimerHasWakeup == wakeup_timer => HasWakeup(pending) \/ HasWakeup(busy)

\* The engine implements the queue of AtQueue: writing, prompts, wake-ups and
\* retries leave it alone, and a command leaves it only as its first.
AbstractQueue ==
  INSTANCE AtQueue WITH queue <- [i \in 1 .. Len(busy \o pending) |-> (busy \o pending)[i].id]

ImplementsAtQueue == AbstractQueue!Spec

\* The record of an alive check, which the callback of its command writes, is
\* there as long as the command is queued: the timer that frees it can only
\* find it answered once the command has left the queues (gsmd.c:75).
AliveRecordHeld ==
  LET q == busy \o pending
  IN  running => \A i \in 1 .. Len(q) : q[i].kind = "alive" => q[i].id \in DOMAIN alive

\* An alive check the modem answered with OK or ERROR counts as answered
\* (gsmd.c:55).
AnsweredIsAlive == \A i \in DOMAIN alive : i \in answered => alive[i]
=============================================================================
