-------------------------------- MODULE Dm2 --------------------------------
(***************************************************************************)
(* The test sequencer of DM2 (gta02-dm2/src/dm2.c): suites of tests, the   *)
(* Pass and Fail buttons that record a verdict and go on to the next test, *)
(* the log file, the log server, and the tests as far as they touch the    *)
(* sequencer's state.                                                      *)
(*                                                                         *)
(* The program is single-threaded and a test runs to its end inside the    *)
(* click, but the two GPS tests fork a watchdog: a copy of the program     *)
(* that sleeps, kills its parent and returns into the main loop, so that   *)
(* it is the user interface from then on, with its copy of the memory.     *)
(***************************************************************************)
EXTENDS Naturals, Sequences, FiniteSets

CONSTANTS
  Suites,     \* the tests' kinds, a sequence for every suite
  MaxClicks,  \* bound: clicks on tests and suites, besides Pass and Fail
  MaxEntries, \* bound: entries of the log file
  MaxProcs    \* bound: processes that are or have been

\* What a test does to the sequencer: nothing; it stores its log by the active
\* index; it makes the log ready and starts the server; it forks a watchdog
\* (gps in tests-gps.c, cn in tests-sn.c).
Kinds == {"plain", "indexed", "server", "gps", "cn"}

ASSUME Dm2Assumption ==
  /\ Suites \in Seq(Seq(Kinds) \ {<<>>}) /\ Suites # <<>>
  /\ MaxClicks \in Nat /\ MaxEntries \in Nat /\ MaxProcs \in Nat \ {0}

VARIABLES
  status,  \* of every process: not forked, in the main loop, in a GPS test,
           \* a sleeping watchdog, killed
  mem,     \* the memory of every process
  parent,  \* of every watchdog
  file,    \* Log_Path, the log of the results
  copied,  \* how many entries the copy has that the server hands out
  server,  \* does the server listen?
  clicks,  \* how often the operator has clicked on a test or chosen a suite
  failed   \* history: has reading from the GPS failed?

history == <<clicks, failed>>
vars    == <<status, mem, parent, file, copied, server, history>>

Pids  == 1 .. MaxProcs
Items == UNION {{<<s, t>> : t \in 1 .. Len(Suites[s])} : s \in 1 .. Len(Suites)}
None  == <<>>

Kind(i) == Suites[i[1]][i[2]]

\* active_suite, active_test (0 for -1), result and log of all tests; the test
\* that is running and the watchdog it has forked.
Memory == [suite : 1 .. Len(Suites), test : Nat, passed : SUBSET Items,
           log : [Items -> Items \cup {None}], running : Items \cup {None}, pid : Nat]

Entry == [item : Items, pass : BOOLEAN]
-----------------------------------------------------------------------------
\* tests[active_test].log = ...  The index is that of the test before unless
\* next_test has advanced it; at -1 the assignment goes outside the array.
Stored(m, i) == IF m.test = 0 THEN m ELSE [m EXCEPT !.log[<<m.suite, m.test>>] = i]

\* on_test_by_function sets active_test when the test is over.
set_active_test(m, i) == [m EXCEPT !.test = i[2], !.running = None]

\* do_gsm_log_on_test: the log is copied and a server forked; while one listens
\* a second one cannot bind and exits.
Copied_before(f) == Len(file)
Copied(f) == Len(f)

do_gsm_log_on_test(f) == copied' = Copied(f) /\ server' = TRUE

\* on_test_by_function: p has memory m and the log file is f when test i starts.
Run(p, m, i, f) ==
  \/ /\ Kind(i) \in {"plain", "indexed"}
     /\ \E stores \in IF Kind(i) = "indexed" THEN BOOLEAN ELSE {FALSE} :
          mem' = [mem EXCEPT ![p] = set_active_test(IF stores THEN Stored(m, i) ELSE m, i)]
     /\ UNCHANGED <<status, parent, copied, server>>
  \/ /\ Kind(i) = "server"
     /\ do_gsm_log_on_test(f)
     /\ mem' = [mem EXCEPT ![p] = set_active_test(m, i)]
     /\ UNCHANGED <<status, parent>>
  \/ /\ Kind(i) \in {"gps", "cn"}
     /\ \E c \in Pids :
          /\ status[c] = "none" /\ \A d \in 1 .. c - 1 : status[d] # "none"
          /\ status' = [status EXCEPT ![p] = "busy", ![c] = "watch"]
          /\ mem' = [mem EXCEPT ![p] = [m EXCEPT !.running = i, !.pid = c],
                                ![c] = [m EXCEPT !.running = i, !.pid = 0]]
          /\ parent' = [parent EXCEPT ![c] = p]
     /\ UNCHANGED <<copied, server>>
-----------------------------------------------------------------------------
(***************************************************************************)
(* The operator.                                                           *)
(***************************************************************************)
\* on_popup_select
on_popup_select_kept(m, s) == [m EXCEPT !.suite = s]
on_popup_select(m, s) ==
  IF s = m.suite THEN m ELSE [m EXCEPT !.suite = s, !.test = 0]

\* on_pass and on_fail: the result of the active test.
Judged_once(m, pass) ==
  IF pass THEN [m EXCEPT !.passed = @ \cup {<<m.suite, m.test>>}] ELSE m
Judged(m, pass) ==
  LET i == <<m.suite, m.test>>
  IN  [m EXCEPT !.passed = IF pass THEN @ \cup {i} ELSE @ \ {i}]

Advanced_not(m) == m
Advanced(m) == [m EXCEPT !.test = @ + 1]

\* Pass or Fail: the result of the active test is recorded and saved, and
\* next_test clicks the next test of the suite, selects the next suite, or
\* after the last one makes the log ready.
Press(p, pass) ==
  /\ status[p] = "idle"
  /\ UNCHANGED history
  /\ LET old    == mem[p]
         active == old.test # 0
         m      == IF active THEN Judged(old, pass) ELSE old
         f      == IF active
                     THEN Append(file, [item |-> <<m.suite, m.test>>, pass |-> pass])
                     ELSE file
     IN  /\ Len(f) <= MaxEntries
         /\ file' = f
         /\ \/ /\ m.test < Len(Suites[m.suite])
               /\ Run(p, Advanced(m), <<m.suite, m.test + 1>>, f)
            \/ /\ m.test >= Len(Suites[m.suite]) /\ m.suite < Len(Suites)
               /\ mem' = [mem EXCEPT ![p] = on_popup_select(m, m.suite + 1)]
               /\ UNCHANGED <<status, parent, copied, server>>
            \/ /\ m.test >= Len(Suites[m.suite]) /\ m.suite = Len(Suites)
               /\ do_gsm_log_on_test(f)
               /\ mem' = [mem EXCEPT ![p] = m]
               /\ UNCHANGED <<status, parent>>

\* A test's own button.
Click(p, i) ==
  /\ status[p] = "idle" /\ mem[p].suite = i[1]
  /\ Run(p, mem[p], i, file)
  /\ clicks < MaxClicks /\ clicks' = clicks + 1
  /\ UNCHANGED <<file, failed>>

\* The popup with the suites.
Choose(p, s) ==
  /\ status[p] = "idle"
  /\ mem' = [mem EXCEPT ![p] = on_popup_select(@, s)]
  /\ clicks < MaxClicks /\ clicks' = clicks + 1
  /\ UNCHANGED <<status, parent, file, copied, server, failed>>
-----------------------------------------------------------------------------
(***************************************************************************)
(* The GPS tests.                                                          *)
(***************************************************************************)
Killed_not(st, c) == st
Killed(st, c) == [st EXCEPT ![c] = "dead"]

\* The GPS has a fix: the log is the test's own, and the watchdog is killed.
Fix(p) ==
  /\ status[p] = "busy"
  /\ LET m == mem[p]
         i == m.running
     IN  /\ mem' = [mem EXCEPT ![p] = set_active_test([m EXCEPT !.log[i] = i], i)]
         /\ status' = [Killed(status, m.pid) EXCEPT ![p] = "idle"]
  /\ UNCHANGED <<parent, file, copied, server, history>>

\* do_gps_test gives up when it cannot read, and leaves its watchdog alone.
ReadError(p) ==
  /\ status[p] = "busy" /\ Kind(mem[p].running) = "gps"
  /\ LET i == mem[p].running
     IN  mem' = [mem EXCEPT ![p] = set_active_test(Stored(@, i), i)]
  /\ status' = [status EXCEPT ![p] = "idle"]
  /\ failed' = TRUE
  /\ UNCHANGED <<parent, file, copied, server, clicks>>

\* The watchdog that was forked first awakes.  Its copy of the variable fixed
\* is 0.  It kills its parent, if that still exists, and goes on as the user
\* interface.
Then_exits == "dead"
Then == "idle"

Timeout(c) ==
  /\ status[c] = "watch" /\ \A d \in 1 .. c - 1 : status[d] # "watch"
  /\ status' = [status EXCEPT ![parent[c]] = "dead", ![c] = Then]
  /\ mem' = [mem EXCEPT ![c] = set_active_test(@, @.running)]
  /\ UNCHANGED <<parent, file, copied, server, history>>
-----------------------------------------------------------------------------
\* main and setup_popup: the first suite is selected.
Init ==
  /\ status = [p \in Pids |-> IF p = 1 THEN "idle" ELSE "none"]
  /\ mem = [p \in Pids |-> [suite |-> 1, test |-> 0, passed |-> {},
                            log |-> [i \in Items |-> None], running |-> None, pid |-> 0]]
  /\ parent = [p \in Pids |-> p]
  /\ file = <<>> /\ copied = 0 /\ server = FALSE
  /\ clicks = 0 /\ failed = FALSE

Next ==
  \E p \in Pids :
    \/ \E pass \in BOOLEAN : Press(p, pass)
    \/ \E i \in Items : Click(p, i)
    \/ \E s \in 1 .. Len(Suites) : Choose(p, s)
    \/ Fix(p) \/ ReadError(p) \/ Timeout(p)

\* sleep returns; nothing is assumed of the operator and of the GPS.
Spec == Init /\ [][Next]_vars /\ \A p \in Pids : WF_vars(Timeout(p))
-----------------------------------------------------------------------------
(***************************************************************************)
(* Properties.                                                             *)
(***************************************************************************)
\* The test after i; the last one stays.
Successor(i) ==
  IF i[2] < Len(Suites[i[1]]) THEN <<i[1], i[2] + 1>>
  ELSE IF i[1] < Len(Suites) THEN <<i[1] + 1, 1>> ELSE i

\* An operator who only presses Pass and Fail gets every test of every suite
\* saved once, in order, while no watchdog is left behind ("Press `Pass' to Test!!", dm2.c:42).
InSequence ==
  clicks = 0 /\ ~ failed => \A k \in 1 .. Len(file) :
    file[k].item = IF k = 1 THEN <<1, 1>> ELSE Successor(file[k - 1].item)

\* The log kept for a test, which save_item_result writes under its name
\* (dm2.c:189-196), comes from that test, for an operator who only presses Pass
\* and Fail: a click on another test runs it before it becomes the active one.
LogFromTest ==
  clicks = 0 => \A p \in Pids : \A i \in Items : mem[p].log[i] \in {None, i}

\* There is one user interface, and the results in its memory are the last ones
\* saved, also after a watchdog has taken over (tests-gps.c:106-120), until one is
\* left behind by a read error.
MemoryMatchesLog ==
  LET interfaces == {p \in Pids : status[p] \in {"idle", "busy"}}
  IN  ~ failed =>
        /\ Cardinality(interfaces) = 1
        /\ \A p \in interfaces :
             mem[p].passed = {i \in Items : \E k \in 1 .. Len(file) :
                                /\ file[k] = [item |-> i, pass |-> TRUE]
                                /\ \A l \in k + 1 .. Len(file) : file[l].item # i}

\* When the last test of all has been saved, the server hands out the whole log,
\* however often it was saved and served before (dm2.c:217).
ReportServed ==
  file # <<>> /\ Successor(file[Len(file)].item) = file[Len(file)].item =>
    server /\ copied = Len(file)

\* A GPS test does not block the user interface for ever.
InterfaceReturns ==
  (\E p \in Pids : status[p] = "busy") ~> (\E p \in Pids : status[p] = "idle")
=============================================================================
