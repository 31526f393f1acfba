------------------------------ MODULE Llparse ------------------------------
(***************************************************************************)
(* The low-level parser of gsmd (gsm/src/gsmd/atcmd.c:68): it takes the    *)
(* bytes that are read from the modem, in pieces of any size, and calls    *)
(* ml_parse for every line and atcmd_prompt for every prompt.  The modem   *)
(* sends messages; it is external.                                         *)
(***************************************************************************)
EXTENDS Naturals, SequencesExt

CONSTANTS
  Size,        \* LLPARSE_BUF_SIZE
  LFCR,        \* is LGSM_ATCMD_F_LFCR set (vendor_bcm.c:102)?
  Messages,    \* what the modem may send
  MaxMessages  \* bound: messages sent

Bytes  == {"CR", "LF", ">", " ", "x", "y"}
States == {"IDLE", "IDLE_CR", "IDLE_LF", "RESULT", "RESULT_CR", "RESULT_LF",
           "PROMPT", "PROMPT_SPC", "ERROR"}

\* A line of text or a prompt.
Message == [kind : {"line", "prompt"}, text : Seq(Bytes)]

ASSUME LlparseAssumption ==
  /\ Size \in Nat \ {0} /\ MaxMessages \in Nat
  /\ LFCR \in BOOLEAN
  /\ Messages \subseteq Message

VARIABLES
  llp,       \* state and buffer of the parser
  wire,      \* bytes sent and not read
  sent,      \* the messages sent
  alone,     \* history: was everything read when the last one was sent?
  lines,     \* what ml_parse was called with
  prompts    \* how often atcmd_prompt was called

llparseVars == <<llp, wire, sent, alone, lines, prompts>>
-----------------------------------------------------------------------------
\* llparse_append; a byte that does not fit is an error (-EFBIG).
llparse_append_more(l, b) == [l EXCEPT !.buf = Append(@, b)]
llparse_append(l, b) ==
  IF Len(l.buf) < Size THEN [l EXCEPT !.buf = Append(@, b)] ELSE [l EXCEPT !.failed = TRUE]

llparse_endline(l) == [l EXCEPT !.state = "IDLE", !.buf = <<>>]

Goto(l, s) == [l EXCEPT !.state = s]

\* llparse_byte, with LGSM_ATCMD_F_EXTENDED and without STRICT.
llparse_byte(l, b) ==
  CASE l.state \in {"IDLE", "PROMPT_SPC"} ->
         IF b = "CR" THEN Goto(l, "IDLE_CR")
         ELSE IF b = ">" THEN Goto(l, "PROMPT")
         ELSE llparse_append(Goto(l, "RESULT"), b)
    [] l.state = "IDLE_CR" -> Goto(l, IF b = "LF" THEN "IDLE_LF" ELSE "ERROR")
    [] l.state = "IDLE_LF" ->
         IF b = "CR" THEN Goto(l, "RESULT_CR")
         ELSE IF b = ">" THEN Goto(l, "PROMPT")
         ELSE llparse_append(Goto(l, "RESULT"), b)
    [] l.state = "RESULT" ->
         IF b = "CR" THEN Goto(l, "RESULT_CR")
         ELSE IF LFCR /\ b = "LF" THEN Goto(l, "RESULT_LF")
         ELSE llparse_append(l, b)
    [] l.state = "RESULT_CR" -> IF b = "LF" THEN llparse_endline(l) ELSE l
    [] l.state = "RESULT_LF" -> IF b = "CR" THEN llparse_endline(l) ELSE l
    [] l.state = "PROMPT" ->
         IF b = " " THEN Goto(l, "PROMPT_SPC")
         ELSE LET two == llparse_append([llparse_append(l, ">") EXCEPT !.failed = FALSE], b)
              IN  Goto(two, "RESULT")
    [] l.state = "ERROR" -> l

\* The body of the loop of llparse_string; after an error the loop has ended.
Reported_at_end(l) == l.state = "IDLE"
Reported(l) == l.state = "RESULT_CR"

Step(acc, b) ==
  IF acc.l.failed THEN acc
  ELSE LET l == llparse_byte(acc.l, b)
       IN  [l       |-> l,
            lines   |-> IF ~ l.failed /\ Reported(l) THEN Append(acc.lines, l.buf) ELSE acc.lines,
            prompts |-> IF ~ l.failed /\ l.state = "PROMPT_SPC" THEN acc.prompts + 1 ELSE acc.prompts]

\* llparse_string: after an error the rest of what was read is lost.
llparse_string(chunk) ==
  FoldLeft(Step, [l |-> [state |-> llp.state, buf |-> llp.buf, failed |-> FALSE],
                  lines |-> lines, prompts |-> prompts], chunk)
-----------------------------------------------------------------------------
Framed(m) ==
  IF m.kind = "line" THEN <<"CR", "LF">> \o m.text \o <<"CR", "LF">>
                     ELSE <<"CR", "LF", ">", " ">>

SendMessage(m) ==
  /\ Len(sent) < MaxMessages
  /\ sent' = Append(sent, m)
  /\ alone' = (wire = <<>>)
  /\ wire' = wire \o Framed(m)
  /\ UNCHANGED <<llp, lines, prompts>>

\* atcmd_select_cb reads some of what there is.
ReadModem ==
  \E k \in 1 .. Len(wire) :
    LET r == llparse_string(SubSeq(wire, 1, k))
    IN  /\ llp' = [state |-> r.l.state, buf |-> r.l.buf]
        /\ lines' = r.lines
        /\ prompts' = r.prompts
        /\ wire' = SubSeq(wire, k + 1, Len(wire))
        /\ UNCHANGED <<sent, alone>>

LlparseInit ==
  /\ llp = [state |-> "IDLE", buf |-> <<>>]
  /\ wire = <<>> /\ sent = <<>> /\ alone = FALSE /\ lines = <<>> /\ prompts = 0

LlparseNext == ReadModem \/ \E m \in Messages : SendMessage(m)
-----------------------------------------------------------------------------
(***************************************************************************)
(* Properties.                                                             *)
(***************************************************************************)
IsLine(m) == m.kind = "line"

\* The lines sent, and the number of prompts.
Sent == LET ms == SelectSeq(sent, IsLine) IN [i \in 1 .. Len(ms) |-> ms[i].text]
SentPrompts == Len(SelectSeq(sent, LAMBDA m : m.kind = "prompt"))

Fits(m) == Len(m.text) <= Size

\* A line that is too long for the buffer costs what was read with it and
\* nothing that is sent later: "something went wrong ... idle again"
\* (gsmd.h:44).
LastIntact ==
  wire = <<>> /\ alone /\ IsLine(Last(sent)) /\ Fits(Last(sent)) =>
    lines # <<>> /\ Last(lines) = Last(sent).text

\* While no line is too long, every line that was sent is handed on exactly once
\* and in order, however the reads cut it up ("if _after_ parsing the current byte
\* we have finished, let the caller know that there is something to handle",
\* atcmd.c:169), and every prompt is.
LinesDelivered ==
  /\ LastIntact
  /\ (\A i \in 1 .. Len(sent) : Fits(sent[i])) =>
       /\ IsPrefix(lines, Sent) /\ prompts <= SentPrompts
       /\ wire = <<>> => lines = Sent /\ prompts = SentPrompts
=============================================================================
