------------------------------ MODULE Startup -------------------------------
(***************************************************************************)
(* How gsmd starts (gsm/src/gsmd): the options and the plugins (gsmd.c,    *)
(* machine.c, vendor.c), the settings the modem gets whenever it says that *)
(* it is ready, the parser of the lists it answers with (ext_response.c)   *)
(* and the cache of operator names (operator_cache.c).  The queue is taken *)
(* as in order, one command after the other; AtCmd is about the queue.     *)
(***************************************************************************)
EXTENDS Integers, SequencesExt

CONSTANTS
  Options,   \* command lines: [device, help, bps, machine, vendor, wait, daemon]
  Hardware,  \* the "Hardware" lines of /proc/cpuinfo, "" for none
  CpiTexts, CpmbTexts, \* what the modem may say of AT%CPI=? and AT%CPMB=1
  Operators, \* [mcc, mnc] of operators
  OpNames,   \* names of operators, sequences
  Lists,     \* lists of tokens that are written and read again
  MaxReady, MaxNames \* bounds: how often the modem is ready, names told

ASSUME StartupAssumption ==
  /\ MaxReady \in Nat /\ MaxNames \in Nat
  /\ \A o \in Options : o.wait \in {-1, 0, 1}

VARIABLES
  stage,     \* "start", "loop", "exit", "dead"
  options,   \* the command line
  machinepl, \* the plugin and how often it was registered
  vendorpl,
  interpreter_ready,
  todo,      \* commands submitted and not answered
  told,      \* history: commands submitted
  aliveTimers,
  processes, \* how often the program has forked
  operators, \* the cache
  chosen,    \* history: the last answer to AT%CPI=? and what was done
  heard,     \* history: how often the modem was ready
  names,     \* history: the names told
  parsed     \* a list the parser was tried on: [list, tokens]

startupVars == <<stage, options, machinepl, vendorpl, interpreter_ready, todo, told, aliveTimers,
                 processes, operators, chosen, heard, names, parsed>>
-----------------------------------------------------------------------------
(***************************************************************************)
(* The parser of comma-separated lists, a character after the other.       *)
(***************************************************************************)
Digits == <<"0", "1", "2", "3", "4", "5", "6", "7", "8", "9">>
isdigit(c) == \E i \in DOMAIN Digits : Digits[i] = c
atoi(buf) == FoldLeft(LAMBDA n, c : 10 * n + (CHOOSE i \in DOMAIN Digits : Digits[i] = c) - 1, 0, buf)

Token(p, token) == [p EXCEPT !.tokens = Append(@, token)]
Item(p) == Append(p.item, <<p.min, atoi(p.buf)>>)

\* IDLE: what begins here?  The buffer is cleared for it.
Begin(p, c) ==
  LET q == [p EXCEPT !.buf = <<>>, !.min = 0, !.item = <<>>]
  IN  CASE c = "\"" -> [q EXCEPT !.state = "TOKEN_STRING"]
        [] c = "("  -> [q EXCEPT !.state = "TOKEN_RANGE"]
        [] isdigit(c) -> [q EXCEPT !.state = "TOKEN_NUMERIC", !.buf = <<c>>]
        [] c = ","  -> Token(q, [type |-> "EMPTY"])
        [] OTHER    -> q

Numeric(p, c) ==
  CASE c = ","    -> [Token(p, [type |-> "NUMERIC", numeric |-> atoi(p.buf)]) EXCEPT !.state = "IDLE"]
    [] isdigit(c) -> [p EXCEPT !.buf = Append(@, c)]
    [] OTHER      -> p

Quoted(p, c) ==
  IF c = "\"" THEN [Token(p, [type |-> "STRING", string |-> p.buf]) EXCEPT !.state = "LASTQUOTE"]
  ELSE [p EXCEPT !.buf = Append(@, c)]

\* The end of a number does not clear the buffer, except at a dash.
InRange_kept(p, c) ==
  CASE isdigit(c) -> [p EXCEPT !.buf = Append(@, c)]
    [] c = "-"    -> [p EXCEPT !.min = atoi(p.buf)]
    [] c = ","    -> [p EXCEPT !.item = Item(p), !.min = 0]
    [] c = ")"    -> [Token(p, [type |-> "RANGE", item |-> Item(p)]) EXCEPT !.state = "LASTQUOTE"]
    [] OTHER      -> p
InRange(p, c) ==
  CASE isdigit(c) -> [p EXCEPT !.buf = Append(@, c)]
    [] c = "-"    -> [p EXCEPT !.min = atoi(p.buf), !.buf = <<>>]
    [] c = ","    -> [p EXCEPT !.item = Item(p), !.min = 0]
    [] c = ")"    -> [Token(p, [type |-> "RANGE", item |-> Item(p)]) EXCEPT !.state = "LASTQUOTE"]
    [] OTHER      -> p

\* What is read at the end and not ended by a comma or quote is not counted.
extrsp_parse(input) ==
  FoldLeft(LAMBDA p, c : CASE p.state = "IDLE" -> Begin(p, c)
                           [] p.state = "TOKEN_NUMERIC" -> Numeric(p, c)
                           [] p.state = "TOKEN_STRING" -> Quoted(p, c)
                           [] p.state = "TOKEN_RANGE" -> InRange(p, c)
                           [] p.state = "LASTQUOTE" -> IF c = "," THEN [p EXCEPT !.state = "IDLE"] ELSE p,
           [state |-> "IDLE", tokens |-> <<>>, buf |-> <<>>, min |-> 0, item |-> <<>>], input).tokens

\* The callers take the error, a negative number, for yes.
extrsp_supports(tokens, index, value) ==
  index \in DOMAIN tokens /\ tokens[index].type = "RANGE" =>
    \E i \in DOMAIN tokens[index].item :
      value >= tokens[index].item[i][1] /\ value <= tokens[index].item[i][2]
-----------------------------------------------------------------------------
(***************************************************************************)
(* Options and plugins.                                                    *)
(***************************************************************************)
bdrts == {9600, 19200, 38400, 57600, 115200, 230400, 460800, 921600}
set_baudrate(bps) == bps \in bdrts

machines ==
  [cpuinfo \in {"GTA01", "GTA02", "HTC Blueangel", "HTC Himalaya", "HTC Magician",
                "HTC Universal", "Palm Treo 650"} |->
     CASE cpuinfo \in {"GTA01", "GTA02"} -> [machine |-> "generic", vendor |-> "ti"]
       [] cpuinfo = "HTC Universal" -> [machine |-> "generic", vendor |-> "qc"]
       [] cpuinfo = "Palm Treo 650" -> [machine |-> "generic", vendor |-> "bcm"]
       [] OTHER -> [machine |-> "tihtc", vendor |-> "tihtc"]]

\* Loading registers the plugin that is linked, whatever the name.
gsmd_machine_plugin_load(name) == [asked |-> name, name |-> "generic", times |-> 1]
gsmd_vendor_plugin_load(asked) == [asked |-> asked, name |-> "TI Calypso", times |-> Len(asked)]

gsmd_machine_plugin_init(o, hw) ==
  LET known == hw \in DOMAIN machines
  IN  /\ machinepl' = gsmd_machine_plugin_load(
           IF o.machine # "" THEN o.machine ELSE IF known THEN machines[hw].machine ELSE "generic")
      /\ vendorpl' = gsmd_vendor_plugin_load(
           IF o.vendor # "" THEN <<o.vendor>>
           ELSE IF known THEN <<machines[hw].vendor>> ELSE <<"ti", "tihtc", "qc", "bcm">>)

\* generic_init, then the option "wait".
Ready_option(o) == IF o.wait >= 0 THEN o.wait = 0 ELSE TRUE

gsmd_initsettings == <<"ATZ">>

\* main up to its loop.  Without a device, with a speed the table does not
\* have, or when something cannot be opened, the program exits.
main(o, hw) ==
  /\ stage = "start" /\ parsed.list = <<>>
  /\ options' = o
  /\ \/ /\ stage' = "exit"
        /\ UNCHANGED <<machinepl, vendorpl, interpreter_ready, todo, told, aliveTimers, heard>>
     \/ /\ o.device /\ ~ o.help /\ set_baudrate(o.bps)
        /\ stage' = "loop"
        /\ gsmd_machine_plugin_init(o, hw)
        /\ interpreter_ready' = Ready_option(o)
        /\ todo' = IF interpreter_ready' THEN gsmd_initsettings ELSE <<>>
        /\ told' = todo'
        /\ aliveTimers' = Len(todo')
        /\ heard' = Len(todo')
  /\ UNCHANGED <<processes, operators, chosen, names, parsed>>
-----------------------------------------------------------------------------
(***************************************************************************)
(* The settings.                                                           *)
(***************************************************************************)
Generic == <<"ATE0V1", "AT+CRC=1", "AT+CREG=2", "AT+CMEE=1", "AT+CLIP=1", "AT+COLP=1",
             "AT+CMGF=0", "AT+CFUN=1">>
Vendor  == <<"AT+CTZR=1", "AT%CTZV=1", "AT%CPRI=1", "AT%CSQ=1", "AT%CUNS=0", "AT%CPHS=1", "AT%CPI=?">>

Submit(commands) ==
  /\ todo' = Tail(todo) \o commands
  /\ told' = told \o commands

ticalypso_initsettings == Vendor
gsmd_initsettings2_early == Generic
gsmd_initsettings2 == Generic \o ticalypso_initsettings

Answered(command) == stage = "loop" /\ interpreter_ready /\ todo # <<>> /\ Head(todo) = command

\* Whatever the modem answers, the settings follow; as a daemon the program goes
\* on in a child.
firstcmd_atcb ==
  /\ Answered("ATZ")
  /\ processes' = IF options.daemon THEN processes + 1 ELSE processes
  /\ Submit(gsmd_initsettings2)
  /\ UNCHANGED <<stage, options, machinepl, vendorpl, interpreter_ready, aliveTimers, operators,
                 chosen, heard, names, parsed>>

gsmd_test_atcb ==
  /\ \E command \in Range(todo) \ {"ATZ", "AT%CPI=?", "AT%CPMB=1"} : Answered(command)
  /\ Submit(<<>>)
  /\ UNCHANGED <<stage, options, machinepl, vendorpl, interpreter_ready, aliveTimers, processes,
                 operators, chosen, heard, names, parsed>>

Mode(tokens) ==
  IF extrsp_supports(tokens, 1, 3) THEN 3 ELSE IF extrsp_supports(tokens, 1, 2) THEN 2 ELSE 0

\* An error, or an answer that is not about CPI, ends it.
cpi_detect_cb(text) ==
  /\ Answered("AT%CPI=?")
  /\ IF text = <<>> THEN Submit(<<>>) /\ UNCHANGED chosen
     ELSE LET mode == Mode(extrsp_parse(text))
          IN  /\ chosen' = [text |-> text, mode |-> mode]
              /\ Submit(<<"AT%CPMB=1">> \o (CASE mode = 3 -> <<"AT%CPI=3">>
                                              [] mode = 2 -> <<"AT%CPI=2">>
                                              [] OTHER -> <<>>))
  /\ UNCHANGED <<stage, options, machinepl, vendorpl, interpreter_ready, aliveTimers, processes,
                 operators, heard, names, parsed>>

\* The answer makes a command in a buffer of 20 characters, 17 of them taken.  With
\* an answer of another kind rc was never set: nothing or an arbitrary command.
cpmb_detect_cb(text) ==
  /\ Answered("AT%CPMB=1")
  /\ LET tokens == extrsp_parse(text)
         right == /\ Len(tokens) = 5
                  /\ tokens[3].type = "STRING" /\ tokens[4].type = "NUMERIC" /\ tokens[5].type = "STRING"
     IN  \/ /\ text = <<>> /\ Submit(<<>>)
            /\ UNCHANGED stage
         \/ /\ text # <<>> /\ right /\ Submit(<<"AT+CSVM">>)
            /\ stage' \in IF Len(tokens[3].string) <= 3 THEN {stage} ELSE {stage, "dead"}
         \/ /\ text # <<>> /\ ~ right
            /\ Submit(<<>>) \/ Submit(<<"garbage">>)
            /\ UNCHANGED stage
  /\ UNCHANGED <<options, machinepl, vendorpl, interpreter_ready, aliveTimers, processes, operators,
                 chosen, heard, names, parsed>>

\* ml_parse: "AT-Command Interpreter ready", or an empty line.
Ready ==
  /\ stage = "loop" /\ heard < MaxReady
  /\ heard' = heard + 1
  /\ interpreter_ready' = TRUE
  /\ todo' = todo \o gsmd_initsettings
  /\ told' = told \o gsmd_initsettings
  /\ aliveTimers' = aliveTimers + 1
  /\ UNCHANGED <<stage, options, machinepl, vendorpl, processes, operators, chosen, names, parsed>>
-----------------------------------------------------------------------------
(***************************************************************************)
(* Operator names.                                                         *)
(***************************************************************************)
\* Copied are as many characters as a pointer has bytes; a name that is longer is
\* not ended, and what follows is arbitrary.
strncpy(name) == [name |-> SubSeq(name, 1, IF Len(name) < 4 THEN Len(name) ELSE 4), whole |-> Len(name) < 4]

_opname_add(op) ==
  Append(SelectSeq(operators, LAMBDA cur : cur.mcc # op.mcc \/ cur.mnc # op.mnc), op)

gsmd_opname_add(numeric, name) ==
  /\ stage = "loop" /\ Len(names) < MaxNames
  /\ operators' = _opname_add([mcc |-> numeric.mcc, mnc |-> numeric.mnc, alnum_long |-> strncpy(name)])
  /\ names' = Append(names, <<numeric, name>>)
  /\ UNCHANGED <<stage, options, machinepl, vendorpl, interpreter_ready, todo, told, aliveTimers,
                 processes, chosen, heard, parsed>>
-----------------------------------------------------------------------------
\* The parser alone, on a list that is written down.
Written(token) ==
  LET digits(n) == IF n < 10 THEN <<Digits[n + 1]>> ELSE <<Digits[n \div 10 + 1], Digits[(n % 10) + 1]>>
  IN  CASE token.type = "EMPTY" -> <<>>
        [] token.type = "NUMERIC" -> digits(token.numeric)
        [] token.type = "STRING" -> <<"\"">> \o token.string \o <<"\"">>
        [] token.type = "RANGE" -> <<"(">> \o digits(token.item[1][1]) \o <<"-">> \o digits(token.item[1][2]) \o <<")">>

Parse(list) ==
  /\ stage = "start" /\ parsed.list = <<>>
  /\ LET text == FlattenSeq([i \in DOMAIN list |-> (IF i = 1 THEN <<>> ELSE <<",">>) \o Written(list[i])])
     IN  parsed' = [list |-> list, tokens |-> extrsp_parse(text)]
  /\ UNCHANGED <<stage, options, machinepl, vendorpl, interpreter_ready, todo, told, aliveTimers,
                 processes, operators, chosen, heard, names>>
-----------------------------------------------------------------------------
StartupInit ==
  /\ stage = "start" /\ options = [wait |-> -1]
  /\ machinepl = [times |-> 0] /\ vendorpl = [times |-> 0]
  /\ interpreter_ready = FALSE
  /\ todo = <<>> /\ told = <<>> /\ aliveTimers = 0 /\ processes = 1
  /\ operators = <<>> /\ chosen = [text |-> <<>>, mode |-> 0] /\ heard = 0 /\ names = <<>>
  /\ parsed = [list |-> <<>>, tokens |-> <<>>]

StartupNext ==
  \/ \E o \in Options, hw \in Hardware : main(o, hw)
  \/ firstcmd_atcb \/ gsmd_test_atcb \/ Ready
  \/ \E text \in CpiTexts : cpi_detect_cb(text)
  \/ \E text \in CpmbTexts : cpmb_detect_cb(text)
  \/ \E list \in Lists : Parse(list)
  \/ \E numeric \in Operators, name \in OpNames : gsmd_opname_add(numeric, name)
-----------------------------------------------------------------------------
(***************************************************************************)
(* Properties.                                                             *)
(***************************************************************************)
\* Whenever the queue is empty the modem has had every setting as often as it was
\* ready, each after the reset of its round (gsmd.c:168-229).
SettingsEachRound ==
  stage = "loop" /\ todo = <<>> =>
    \A setting \in Range(Generic \o Vendor) :
      /\ Len(SelectSeq(told, LAMBDA command : command = setting)) = heard
      /\ \A i \in DOMAIN told : told[i] = setting => \E j \in 1 .. i : told[j] = "ATZ"

\* A list is read as it was written, but for a number at its end; a range has one
\* item (ext_response.c:66-175).
ParsedAsWritten ==
  LET list == parsed.list
  IN  list # <<>> => parsed.tokens = IF Last(list).type \in {"STRING", "RANGE"} THEN list ELSE Front(list)
=============================================================================
