---------------------------- MODULE ClientEvents ----------------------------
(***************************************************************************)
(* libgsmd-tool as a terminal of the modem (gsm/src/util: libgsmd-tool.c,  *)
(* atcmd.c, event.c, pin.c; libgsmd/libgsmd.c, libgsmd_event.c): words     *)
(* that are typed go to the modem, one at a time, and events are printed   *)
(* as they come, also during the wait for an answer.                       *)
(***************************************************************************)
EXTENDS Integers, SequencesExt

CONSTANTS
  Events,    \* events of gsmd: [type, arg], an argument as the text has it
  TypedLines,\* lines the user types: sequences of words
  MaxEvents, MaxLines \* bounds

ASSUME EventsAssumption == MaxEvents \in Nat /\ MaxLines \in Nat

VARIABLES
  tool,     \* "start", "loop", "scan" (in fscanf), "waits", "shell", "exit"
  handlers, \* the types of events a handler is registered for
  netreg_state,
  tty,      \* lines typed and not read
  stdio,    \* words read and not taken
  socket,   \* packets of gsmd not read
  asked,    \* commands gsmd has not answered
  output,   \* what was printed
  given,    \* history: words typed
  commands, \* history: words sent
  raised,   \* history: events sent
  lost      \* history: packets read and dropped

eventVars == <<tool, handlers, netreg_state, tty, stdio, socket, asked, output, given, commands,
               raised, lost>>
-----------------------------------------------------------------------------
\* What the handlers print of an event.
cprog_names == {"SETUP", "DISCONNECT", "ALERT", "PROCEED", "SYNC", "PROGRESS", "CONNECTED",
                "RELEASE", "REJECT", "UNKNOWN"}
netreg_names ==
  [state \in 0 .. 5 |-> <<"not searching for network", "registered (home network)", "searching for network",
                          "registration denied", "", "registered (roaming)">>[state + 1]]
scope_names == <<"immediate-display cell", "PLMN", "Location Area", "cell">>

\* Errors of both kinds lie at the same place, and print the same.
Printed(e) ==
  CASE e.type = "IN_CALL"    -> <<"Incoming call type", e.arg>>
    [] e.type = "IN_CLIP"    -> <<"Incoming call clip", e.arg>>
    [] e.type = "IN_SMS"     -> <<"Incoming SMS", e.arg>>
    [] e.type = "IN_CBM"     -> <<"Cell Broadcast message", scope_names[e.arg + 1]>>
    [] e.type = "IN_DS"      -> <<"Incoming Status Report", e.arg>>
    [] e.type = "OUT_COLP"   -> <<"Outgoing call colp", e.arg>>
    [] e.type = "NETREG"     -> <<"Netreg", netreg_names[e.arg]>>
    [] e.type = "SIGNAL"     -> <<"Signal Quality", e.arg>>
    [] e.type = "OUT_STATUS" -> <<"Call Progress", IF e.arg \in cprog_names THEN e.arg ELSE "UNDEFINED">>
    [] e.type \in {"CME_ERROR", "CMS_ERROR"} -> <<"cme error", e.arg>>

pin_init == {"PIN"}
event_init == {"IN_CALL", "IN_CLIP", "IN_SMS", "IN_CBM", "IN_DS", "OUT_COLP", "NETREG", "SIGNAL",
               "OUT_STATUS", "CME_ERROR", "CMS_ERROR"}

\* evt_demux_msghandler: the library keeps the registration; events that have no
\* handler are nothing.  A reply that comes here is printed (pt_msghandler).
lgsm_handle_packet_first(packets) == <<Head(packets)>>
lgsm_handle_packet(packets) == packets
Told(packets) ==
  LET mine == SelectSeq(lgsm_handle_packet(packets), LAMBDA p : p.type = "RSTR" \/ p.type \in handlers)
  IN  [i \in DOMAIN mine |-> IF mine[i].type = "RSTR" THEN <<"RSTR", mine[i].arg>> ELSE Printed(mine[i])]
Registered(packets) ==
  LET news == SelectSeq(packets, LAMBDA p : p.type = "NETREG")
  IN  IF news = <<>> THEN netreg_state ELSE Last(news).arg

Handle(n) ==
  LET packets == SubSeq(socket, 1, n)
  IN  /\ socket' = SubSeq(socket, n + 1, Len(socket))
      /\ output' = output \o Told(packets)
      /\ netreg_state' = Registered(packets)
-----------------------------------------------------------------------------
\* lgsm_init, pin_init, event_init.  "eventlog" is a mode that does nothing, and
\* without a mode it is whatever the stack holds.
Main(mode) ==
  /\ tool = "start"
  /\ \/ /\ tool' = "exit"
        /\ UNCHANGED handlers
     \/ /\ tool' \in CASE mode = "atcmd" -> {"loop"} [] mode = "shell" -> {"shell"}
                       [] mode = "eventlog" -> {"exit"} [] OTHER -> {"loop", "shell", "exit"}
        /\ handlers' = pin_init \cup event_init
  /\ UNCHANGED <<netreg_state, tty, stdio, socket, asked, output, given, commands, raised, lost>>

TypeLine(words) ==
  /\ tool \in {"loop", "scan", "waits"} /\ Len(tty) < MaxLines /\ Len(given) < MaxLines
  /\ tty' = Append(tty, words)
  /\ given' = Append(given, words)
  /\ UNCHANGED <<tool, handlers, netreg_state, stdio, socket, asked, output, commands, raised, lost>>

Raise(e) ==
  /\ tool \in {"loop", "scan", "waits"} /\ Len(raised) < MaxEvents
  /\ socket' = Append(socket, e)
  /\ raised' = Append(raised, e)
  /\ UNCHANGED <<tool, handlers, netreg_state, tty, stdio, asked, output, given, commands, lost>>

AnswerWord ==
  /\ asked # <<>>
  /\ socket' = Append(socket, [type |-> "RSTR", arg |-> Head(asked)])
  /\ asked' = Tail(asked)
  /\ UNCHANGED <<tool, handlers, netreg_state, tty, stdio, output, given, commands, raised, lost>>

\* The socket is readable.
ReadSocket(n) ==
  /\ tool = "loop" /\ n \in 1 .. Len(socket)
  /\ Handle(n)
  /\ UNCHANGED <<tool, handlers, tty, stdio, asked, given, commands, raised, lost>>

\* The terminal is readable; select does not know of words that are in stdio.
ReadTerminal ==
  /\ tool = "loop" /\ tty # <<>>
  /\ tool' = "scan"
  /\ UNCHANGED <<handlers, netreg_state, tty, stdio, socket, asked, output, given, commands, raised, lost>>

\* fscanf takes the next word, from a line that was read before or from the next
\* one with words; meanwhile nothing is read from the socket.  The word is sent.
\* At the end of the input the program ends.
Fill == stdio' = Tail(stdio)
fscanf ==
  /\ tool = "scan"
  /\ \/ /\ stdio = <<>> /\ tty # <<>>
        /\ stdio' = Head(tty)
        /\ tty' = Tail(tty)
        /\ UNCHANGED <<tool, asked, commands>>
     \/ /\ stdio # <<>>
        /\ Fill
        /\ asked' = Append(asked, Head(stdio))
        /\ commands' = Append(commands, Head(stdio))
        /\ tool' = "waits"
        /\ UNCHANGED tty
     \/ /\ stdio = <<>> /\ tty = <<>> /\ tool' = "exit"
        /\ UNCHANGED <<tty, stdio, asked, commands>>
  /\ UNCHANGED <<handlers, netreg_state, socket, output, given, raised, lost>>

\* lgsm_passthrough: of what one read returns only the first packet is compared
\* with the id.  If it is the one the others are dropped, if not all are handled;
\* the id of an event is arbitrary (LibGsmd).
lgsm_passthrough(n) ==
  /\ tool = "waits" /\ n \in 1 .. Len(socket)
  /\ \/ /\ tool' = "loop"
        /\ output' = Append(output, IF Head(socket).type = "RSTR" THEN <<"RSTR", Head(socket).arg>>
                                    ELSE <<"RSTR", "garbage">>)
        /\ socket' = SubSeq(socket, n + 1, Len(socket))
        /\ lost' = lost + n - (IF Head(socket).type = "RSTR" THEN 1 ELSE 0)
        /\ UNCHANGED netreg_state
     \/ /\ Head(socket).type # "RSTR"
        /\ Handle(n)
        /\ UNCHANGED <<tool, lost>>
  /\ UNCHANGED <<handlers, tty, stdio, asked, given, commands, raised>>
-----------------------------------------------------------------------------
EventsInit ==
  /\ tool = "start" /\ handlers = {} /\ netreg_state = 0
  /\ tty = <<>> /\ stdio = <<>> /\ socket = <<>> /\ asked = <<>> /\ output = <<>>
  /\ given = <<>> /\ commands = <<>> /\ raised = <<>> /\ lost = 0

EventsNext ==
  \/ \E mode \in {"", "shell", "eventlog", "atcmd"} : Main(mode)
  \/ \E words \in TypedLines : TypeLine(words)
  \/ \E e \in Events : Raise(e)
  \/ \E n \in 1 .. MaxEvents + 1 : ReadSocket(n) \/ lgsm_passthrough(n)
  \/ AnswerWord \/ ReadTerminal \/ fscanf
-----------------------------------------------------------------------------
(***************************************************************************)
(* Properties.                                                             *)
(***************************************************************************)
\* While no packet is dropped every event is printed once, in the order it was
\* raised, and the library knows the registration reported last
\* (libgsmd.c:95-115, libgsmd_event.c:66-75).
EventsTold ==
  lost = 0 /\ tool \notin {"shell", "exit"} =>
    LET isEvent(p) == p.type # "RSTR"
        pending == SelectSeq(socket, isEvent)
        told    == SelectSeq(output, LAMBDA o : o[1] # "RSTR")
        handled == SubSeq(raised, 1, Len(raised) - Len(pending))
        known   == SelectSeq(handled, LAMBDA e : e.type = "NETREG")
    IN  /\ told = [i \in DOMAIN handled |-> Printed(handled[i])]
        /\ known # <<>> => netreg_state = Last(known).arg
=============================================================================
