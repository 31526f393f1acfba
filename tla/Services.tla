------------------------------ MODULE Services ------------------------------
(***************************************************************************)
(* A client and its modem through gsmd: what is typed at the shell of      *)
(* libgsmd-tool becomes a message (ClientTool), the message becomes        *)
(* commands (Requests), the modem's answers become replies (Responses),    *)
(* its own lines and its errors become events (Unsolicited), and the       *)
(* client acts on them.                                                    *)
(*                                                                         *)
(* AtCmd and UsockServer model how commands and messages are queued; here  *)
(* a queue keeps their order, and what they say is what matters.  One      *)
(* command executes at a time, the first of the queue.                     *)
(***************************************************************************)
EXTENDS Requests, Responses, ClientTool, Unsolicited, FiniteSets

CONSTANTS
  Sessions,    \* what may be typed at the shell: sequences of words
  MaxLines,    \* bound: lines of a list
  Results,     \* the final results of the modem
  Foreign,     \* the lines the modem may send on its own
  MaxForeign,  \* bound: how many of them
  Garbled,     \* may a line of the modem lack fields?
  Preset,      \* was the tool started with a PIN?
  SilentLines  \* does the modem report the memories it was told to use (+CPMS)?

ASSUME ServicesAssumption ==
  /\ Results \subseteq {"OK", "ERROR", "CME11", "CME16", "CMS", "BUSY"}
  /\ MaxLines \in Nat \ {0} /\ MaxForeign \in Nat
  /\ Garbled \in BOOLEAN /\ Preset \in BOOLEAN /\ SilentLines \in BOOLEAN

VARIABLES
  session,  \* what is still to be typed
  typed,    \* number of words typed
  shell,    \* the client: records announced and not retrieved
  netreg,   \* the client: last state of the registration it was told
  sent,     \* messages on their way to gsmd
  queue,    \* the commands, each with its number in serial
  waking,   \* is the wakeup timer set?
  ml,       \* mlbuf: at most one line, with the number of the command it came for
  on,       \* dev_state.on
  cipher,   \* the ciphering flags of dev_state
  pb,       \* the phonebook lists
  up,       \* FALSE once the daemon was killed
  out,      \* replies and events on their way to the client
  given,    \* the modem: lines given to the executing command
  foreign,  \* the modem: lines sent on its own
  replies,  \* history: the replies, with the command whose callback made them
            \* and the command its line came for
  ended,    \* history: the commands that ended, and how
  told,     \* history: what the user was told of messages sent, stored, deleted
  serial    \* number of the next command

client  == <<session, typed, shell, netreg, told>>
engine  == <<queue, waking, serial>>
modem   == <<given, foreign>>
vars    == <<client, sent, engine, ml, on, cipher, pb, up, out, modem, replies, ended>>
-----------------------------------------------------------------------------
\* A line for a command, or the text of a final result.
Line(own, full, n, text, from) == [own |-> own, full |-> full, n |-> n, text |-> text, from |-> from]
Result(text, from) == Line(FALSE, FALSE, 0, text, from)

\* What atcmd_submit appends: a wakeup command goes before the others unless
\* its timer runs.  Wakeups have the number 0.
Wakeup == Command(" ", "null_wakeup_cb", 0, 0)
Numbered(c, n) == [cmd |-> c, serial |-> n]
Batch(cmds) ==
  (IF cmds = <<>> \/ waking THEN <<>> ELSE <<Numbered(Wakeup, 0)>>)
    \o [i \in DOMAIN cmds |-> Numbered(cmds[i], serial + i - 1)]

Submitting(cmds) ==
  /\ queue' = queue \o Batch(cmds)
  /\ waking' = (waking \/ cmds # <<>>)
  /\ serial' = serial + Len(cmds)

\* gsmd_simplecmd for each of the texts.
Simple(texts) == [i \in DOMAIN texts |-> Command(texts[i], "null_cmd_cb", 0, 0)]

\* The events of an error, and then a callback of command q with the line r:
\* its replies go to the client.
Answered(q, r, ret, events) ==
  \E o \in Callback(q.cmd, r, ret, pb) :
    /\ pb' = o.pb
    /\ up' = o.alive
    /\ out' = out \o events \o o.out
    /\ replies' = replies \o
         [i \in DOMAIN o.out |-> [by |-> q.serial, from |-> r.from, last |-> o.out[i].last]]

NoAnswer == UNCHANGED <<pb, up, out, replies>>

Executing == Head(queue)
Extended(c) == c.at \notin {" ", "D", "A", "H"}
-----------------------------------------------------------------------------
\* The shell (shell_main) sends what the word asks for.
Type ==
  /\ up /\ session # <<>>
  /\ session' = Tail(session)
  /\ typed' = typed + 1
  /\ LET asked == shell_main(Head(session), shell)
     IN  sent' = sent \o [i \in DOMAIN asked |-> lgsm_send(asked[i], typed)]
  /\ UNCHANGED <<shell, netreg, told, engine, ml, on, cipher, pb, up, out, modem, replies, ended>>

\* gsmd takes a message (usock_rcv_pcmd).  A hang-up cancels the command that
\* executes: its callback is told "OK", with its ret still -255.
Take ==
  /\ up /\ sent # <<>>
  /\ sent' = Tail(sent)
  /\ LET m == Head(sent)
         r == usock_rcv_pcmd(m)
     IN  \/ /\ r.effect = "cancel" /\ queue # <<>>
            /\ ml' = <<>>
            /\ Answered(Executing, Result("OK", Executing.serial), Pending, <<>>)
            /\ queue' = <<Numbered(r.cmds[1], serial)>> \o Tail(queue)
            /\ waking' = (waking /\ Executing.cmd.at # " ")
            /\ serial' = serial + 1
            /\ given' = 0
            /\ ended' = ended \cup {[q |-> Executing, lines |-> given, res |-> "cancelled"]}
            /\ UNCHANGED on
         \/ /\ r.effect \in {"retrieve_find", "retrieve_readrg"}
            /\ LET list == IF r.effect = "retrieve_find" THEN "find" ELSE "readrg"
               IN  \E o \in Retrieve(m.sub, list, m.arg, pb) :
                     up' = o.alive /\ pb' = o.pb /\ out' = out \o o.out
            /\ UNCHANGED <<engine, ml, on, replies, ended, given>>
         \/ /\ r.effect \in {"none", "off", "subscribe"} \/ (r.effect = "cancel" /\ queue = <<>>)
            /\ Submitting(r.cmds)
            /\ on' = (on /\ r.effect # "off")
            /\ NoAnswer
            /\ UNCHANGED <<ml, ended, given>>
  /\ UNCHANGED <<client, cipher, foreign>>
-----------------------------------------------------------------------------
\* How many lines a command is answered with (external: what the code expects).
Lines(c) ==
  CASE c.at \in {"+CMGL=", "+CPOL?", "+CNUM", "+CPBF="} \/ c.cb = "phonebook_readrg_cb" -> 0 .. MaxLines
    [] c.at \in {"+CSQ", "+COPS?", "+COPS=?", "+CPOL=?", "+CPBR=?", "+CPBS=?", "+CPMS?", "+CSCA?",
                 "+CIMI", "+CMGR=", "+CMGS=", "+CMGW=", "+CSVM?"} -> {1}
    [] c.at = "+CPBR=" -> 0 .. 1
    [] c.at = "any"    -> 0 .. MaxLines
    [] c.at = "+CPMS=" -> IF SilentLines THEN {1} ELSE {0}
    [] OTHER           -> {0}

\* A line comes for the executing command (ml_parse, case A): the line before
\* it is given to the callback, and this one is kept.
Inform ==
  /\ up /\ queue # <<>> /\ Extended(Executing.cmd)
  /\ \E k \in Lines(Executing.cmd) : given < k
  /\ given' = given + 1
  /\ \E full \in IF Garbled THEN BOOLEAN ELSE {TRUE} :
       ml' = <<Line(TRUE, full, given + 1, "line", Executing.serial)>>
  /\ IF ml = <<>> \/ Executing.cmd.cb = "NULL" THEN NoAnswer ELSE Answered(Executing, ml[1], Pending, <<>>)
  /\ UNCHANGED <<client, sent, engine, on, cipher, foreign, ended>>

\* The result codes: ret, and the event of an error.
ResultCode == [OK |-> 0, ERROR |-> 4, CME11 |-> 11, CME16 |-> 16, CMS |-> 321]
Returned(res, old) == IF res \in DOMAIN ResultCode THEN ResultCode[res] ELSE old
ErrorEvent(res) ==
  CASE res = "CME11" -> generate_event_from_cme(11)
    [] res = "CME16" -> generate_event_from_cme(16)
    [] res = "CMS"   -> generate_event_from_cms(321)
    [] OTHER         -> <<>>

\* What mlbuf holds after the end of a command.
Left_over(q) == ml
Left(q) == IF q.cmd.cb = "NULL" THEN ml ELSE <<>>

\* The final result of the executing command (ml_parse, case C; atcmd_done).
\* The callback gets the line that was kept, if any, and else the result.  A
\* command without callback leaves the line where it is.
Finish(res) ==
  /\ up /\ queue # <<>>
  /\ res = "OK" => given \in Lines(Executing.cmd)
  /\ res = "BUSY" => Executing.cmd.at \in {"D", "A"}
  /\ res = "CME11" => Executing.cmd.at # "+CPIN="
  /\ Executing.cmd.at = " " => res = "OK"
  /\ LET q   == Executing
         ret == Returned(res, Pending)
         r   == IF ml = <<>> THEN Result(res, q.serial) ELSE ml[1]
     IN  /\ IF q.cmd.cb = "NULL" THEN out' = out \o ErrorEvent(res) /\ UNCHANGED <<pb, up, replies>>
                                 ELSE Answered(q, r, ret, ErrorEvent(res))
         /\ ml' = Left(q)
         /\ on' = IF q.cmd.cb = "phone_powerup_cb" THEN phone_powerup_cb(ret, on) ELSE on
         /\ ended' = ended \cup {[q |-> q, lines |-> given, res |-> res]}
         /\ waking' = (waking /\ q.cmd.at # " ")
  /\ queue' = Tail(queue)
  /\ given' = 0
  /\ UNCHANGED <<client, sent, serial, cipher, foreign>>

\* The wakeup timer (wakeup_timeout): a wakeup that executes is given up.
GiveUp ==
  /\ up /\ waking
  /\ waking' = FALSE
  /\ queue' = IF queue # <<>> /\ Executing.cmd.at = " " THEN Tail(queue) ELSE queue
  /\ UNCHANGED <<client, sent, serial, ml, on, cipher, pb, up, out, modem, replies, ended>>

\* A line of the modem's own (ml_parse, case B).  One that no parser is found
\* for goes on as if it were a line for the executing command (case A); while
\* none executes it is kept, too.
Own(l) ==
  /\ up /\ foreign < MaxForeign
  /\ foreign' = foreign + 1
  /\ LET p == unsolicited_parse(unsolicited_init(ticalypso_unsolicit), l, cipher)
     IN  IF p.ret # "ENOENT"
         THEN /\ up' = p.alive
              /\ cipher' = p.cipher
              /\ out' = out \o p.events
              /\ Submitting(Simple(p.cmds))
              /\ UNCHANGED <<ml, pb, replies>>
         ELSE /\ UNCHANGED <<cipher, engine>>
              /\ IF queue # <<>> /\ ~ Extended(Executing.cmd)
                 THEN UNCHANGED ml /\ NoAnswer
                 ELSE /\ ml' = <<Line(FALSE, FALSE, 0, "own line", -1)>>
                      /\ IF ml = <<>> \/ queue = <<>> \/ Executing.cmd.cb = "NULL" THEN NoAnswer
                         ELSE Answered(Executing, ml[1], Pending, <<>>)
  /\ UNCHANGED <<client, sent, on, given, ended>>
-----------------------------------------------------------------------------
\* The client handles a message (lgsm_handle_packet and the handlers of shell.c,
\* pin.c and libgsmd_event.c).
Receive(fits) ==
  /\ out # <<>>
  /\ out' = Tail(out)
  /\ LET m == Head(out)
     IN  /\ shell' = IF m.type = "PHONEBOOK" THEN pb_msghandler(m, shell) ELSE shell
         /\ netreg' = IF m.type = "EVENT" THEN evt_demux_msghandler(m, netreg) ELSE netreg
         /\ told' = IF m.type = "SMS" /\ sms_msghandler(m) = "success" THEN told \cup {m.id} ELSE told
         /\ LET pins == IF m.type = "EVENT" /\ m.sub = "PIN" THEN pin_handler(m, Preset, fits) ELSE <<>>
            IN  sent' = sent \o [i \in DOMAIN pins |-> lgsm_send(pins[i], -1)]
  /\ UNCHANGED <<session, typed, engine, ml, on, cipher, pb, up, modem, replies, ended>>

Init ==
  /\ session \in Sessions /\ typed = 0 /\ shell = [nFIND |-> 0, nREADRG |-> 0] /\ netreg = 0 /\ told = {}
  /\ sent = <<>> /\ queue = <<>> /\ waking = FALSE /\ serial = 1 /\ ml = <<>>
  /\ on = FALSE /\ cipher = {} /\ pb = [find |-> 0, readrg |-> 0]
  /\ up = TRUE /\ out = <<>> /\ given = 0 /\ foreign = 0 /\ replies = <<>> /\ ended = {}

Next ==
  \/ Type
  \/ Take
  \/ Inform
  \/ \E res \in Results : Finish(res)
  \/ GiveUp
  \/ \E l \in Foreign : Own(l)
  \/ \E fits \in BOOLEAN : Receive(fits)

Spec == Init /\ [][Next]_vars
-----------------------------------------------------------------------------
(***************************************************************************)
(* Properties.                                                             *)
(***************************************************************************)
RepliesOf(n) == {i \in DOMAIN replies : replies[i].by = n}
Succeeded == {e \in ended : e.res = "OK" /\ e.q.serial # 0}

\* How many replies a command that succeeds is worth: one for every line, and
\* one where the callback passes on whatever comes; none without a callback
\* that answers.
Quiet   == {"NULL", "null_cmd_cb", "null_wakeup_cb", "pin_cmd_cb", "phone_powerup_cb"}
Passing == {"usock_cmd_cb", "phonebook_write_cb", "phonebook_delete_cb", "phonebook_read_cb", "sms_delete_cb"}
Promised(e) ==
  CASE e.q.cmd.cb \in Quiet                   -> 0
    [] e.q.cmd.cb \in Passing /\ e.lines = 0 -> 1
    [] OTHER                                  -> e.lines

\* A command that succeeds is answered as often as it has lines, whatever was
\* typed, cancelled or came unasked in between: the line kept in mlbuf is given
\* to the callback once, by the next line or by the result (atcmd.c:368-384 and
\* 214-231).
WellAnswered == up => \A e \in Succeeded : Cardinality(RepliesOf(e.q.serial)) = Promised(e)

\* A list that succeeds and is not empty has its end marked (is_last) in its
\* last reply and nowhere else: the client collects entries until then.
Listing == {"sms_list_cb", "network_pref_opers_cb", "network_ownnumbers_cb"}
ListEnds ==
  \A e \in Succeeded : e.q.cmd.cb \in Listing =>
    \A i \in RepliesOf(e.q.serial) :
      replies[i].last <=> \A j \in RepliesOf(e.q.serial) : j <= i

\* A reply is made of a line, or a result, that came for the command it answers
\* (atcmd.c:282-285: an information response is passed up the callback, an
\* unsolicited message goes to the handlers of unsolicited.c).
OwnLine == \A i \in DOMAIN replies : replies[i].from = replies[i].by

\* The tool reports a message as sent, stored or deleted only when the modem
\* has done it.  (A hang-up that cancels AT+CMGW is the exception: minus -255 is
\* taken for the place of the message, sms_cb.c and shell.c:sms_msghandler.)
Done(id) ==
  \E e \in ended : /\ e.q.cmd.id = id /\ e.q.cmd.at \in {"+CMGS=", "+CMGW=", "+CMGD="}
                   /\ e.res = "OK" \/ (e.res = "cancelled" /\ e.q.cmd.at = "+CMGW=")
SuccessIsTrue == \A id \in told : Done(id)
=============================================================================
