----------------------------- MODULE AtSession -----------------------------
(***************************************************************************)
(* The AT command engine together with a modem (external code, modelled    *)
(* from what atcmd.c expects of it).  The modem works off the lines it is  *)
(* sent, one after the other: it asks for the next line of a multi-line    *)
(* command with a prompt "> ", and gives every complete command one final  *)
(* result, with information responses before it.  It may be late for the   *)
(* wakeup timer.  Every write takes its whole line, and nobody hangs up.   *)
(***************************************************************************)
EXTENDS AtCmd

CONSTANTS
  ClientIds,   \* bound: the last id clients and alive checks use, so that the
               \* callbacks always have room for what they submit
  LateWakeups  \* may the modem need longer than GSMD_MODEM_WAKEUP_TIMEOUT?

ASSUME AtSessionAssumption ==
  ClientIds \in Nat /\ LateWakeups \in BOOLEAN

VARIABLES
  lines,    \* the lines the modem has not worked off: whose they are, and
            \* whether they end their command
  prompted  \* ids of the commands the modem has asked for their next line

session == <<lines, prompted>>
svars   == <<vars, session>>

Line == [id : Ids, last : BOOLEAN]
-----------------------------------------------------------------------------
\* What the daemon, its clients and its timers do without the modem.
Client ==
  /\ \/ alive_interval_tmr_cb /\ next' <= ClientIds + 1
     \/ \E k \in {"plain", "silent"}, text \in Texts : ClientSubmit(k, text) /\ next' <= ClientIds + 1
     \/ \E i \in Ids : alive_tmr_cb(i)
  /\ UNCHANGED session

\* The wakeup timer expires before the modem has worked off its line.
WakeupLate ==
  /\ LateWakeups
  /\ wakeup_timeout
  /\ UNCHANGED session

\* A line goes to the modem; what it asked for is what it gets.  With a modem
\* that asks only for lines that are there, and without short writes, the flag
\* is never set with nothing to write.
Write ==
  /\ WriteLine
  /\ LET c == Head(pending)
     IN  /\ lines' = Append(lines, [id |-> c.id, last |-> Len(c.rest) = 1])
         /\ prompted' = prompted \ {c.id}
-----------------------------------------------------------------------------
\* "> ": the modem asks for the next line of a command.
Prompt ==
  /\ lines # <<>> /\ ~ Head(lines).last
  /\ atcmd_prompt
  /\ prompted' = prompted \cup {Head(lines).id}
  /\ lines' = Tail(lines)

\* The final result of the first complete command; ml_parse drops it if no
\* command is executing.
Answer ==
  /\ lines # <<>> /\ Head(lines).last
  /\ running
  /\ IF busy = <<>> THEN UNCHANGED vars
                    ELSE \E res \in {"OK", "CME"} : RecvFinal(res)
  /\ lines' = Tail(lines)
  /\ UNCHANGED prompted

\* Lines before the final result: information for an extended command.
Inform ==
  /\ lines # <<>> /\ Head(lines).last
  /\ mlbuf = {}
  /\ RecvInfo
  /\ UNCHANGED session

\* The modem says that it is ready, once.
Ready ==
  /\ ~ ready
  /\ RecvReady
  /\ lines' = <<>> /\ prompted' = {}

SInit == Init /\ lines = <<>> /\ prompted = {}

SNext == Client \/ WakeupLate \/ Write \/ Prompt \/ Answer \/ Inform \/ Ready

(***************************************************************************)
(* Fairness: main calls gsmd_select_main for ever, so a UART that stays    *)
(* writable while the flag is set is written; the wakeup timer expires; and *)
(* the modem works off its lines and starts up.  Nothing is assumed of the  *)
(* clients and of the alive checks.                                         *)
(***************************************************************************)
Fairness ==
  /\ WF_svars(Write)
  /\ WF_svars(Prompt)
  /\ WF_svars(Answer)
  /\ WF_svars(WakeupLate)
  /\ WF_svars(Ready)

SSpec == SInit /\ [][SNext]_svars /\ Fairness
-----------------------------------------------------------------------------
(***************************************************************************)
(* Properties.                                                             *)
(***************************************************************************)
\* A final result finishes no other command than the one it answers, as long as no
\* wakeup has been given up (atcmd.c:269, "responses come in order, so first
\* response has to be for first command we sent"): ml_parse matches results with
\* commands by their order only.
AnswersMatchInTime ==
  [][Answer /\ dropped = {} => done' \ done \subseteq {Head(lines).id}]_svars

\* A further line of a command is written only after the modem has asked for
\* it ("more lines to send after a "> "", atcmd.c:524).
BodyAfterPrompt ==
  [][Len(lines') > Len(lines) /\ Head(pending).started =>
       Head(pending).id \in prompted]_svars

\* Only one command at a time executes, besides a wakeup written while it does
\* (atcmd.c:521, "we only send one cmd at the moment"): the flag that a
\* submission sets while a command executes is used up by a wakeup.
OneExecuting ==
  \A i, j \in 1 .. Len(busy) :
    busy[i].kind # "wakeup" /\ busy[j].kind # "wakeup" => i = j

Queued == {pending[i].id : i \in DOMAIN pending} \cup {busy[i].id : i \in DOMAIN busy}

\* Every command is finished eventually, or its wakeup is given up, as long
\* as the daemon lives.
AllFinished ==
  \A i \in Ids : i \in Queued ~> (i \in done \cup dropped \/ ~ running)
=============================================================================
