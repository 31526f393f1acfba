----------------------------- MODULE Dm2Station -----------------------------
(***************************************************************************)
(* The operator in front of DM2: what he touches goes through the toolkit  *)
(* to the callbacks of gta02-dm2/src/dm2.c, and the tests of tests-*.c     *)
(* run as programs of steps, in the program itself and in the children it  *)
(* forks, on the mixer, the files under /tmp and the screen they share;    *)
(* the log server of dm2_Network.c is one of these children.               *)
(*                                                                         *)
(* A step is quick (well within a second), long, or a countdown.  Samples  *)
(* of the touch screen wait until somebody reads them, and a countdown     *)
(* reads and drops them (oltk_msleep).                                     *)
(***************************************************************************)
EXTENDS Oltk, Dm2Tests

CONSTANTS
  Boards,     \* choices of suites, each a sequence of sequences of tests
  Layout,     \* where the buttons are
  Touchable,  \* the points the operator touches
  MaxTouches, \* bound: samples of the touch screen
  MaxRuns,    \* bound: tests started
  MaxProcs,   \* bound: processes
  MaxRequests \* bound: requests to the log server

ASSUME StationAssumption ==
  /\ Touchable \subseteq Points /\ MaxTouches \in Nat /\ MaxRuns \in Nat
  /\ MaxProcs \in Nat \ {0} /\ MaxRequests \in Nat
  /\ Layout \in [view : Rects, pass : Rects, quit : Rects, fail : Rects, popup : Rects,
                  dialog : Rects, test : Seq(Rects), item : Seq(Rects)]
  /\ \A b \in Boards :
       /\ b \in Seq(Seq(DOMAIN TestFunctions)) /\ Len(b) \in 1 .. Len(Layout.item)
       /\ \A s \in DOMAIN b : Len(b[s]) <= Len(Layout.test)

VARIABLES
  board,   \* suites
  ui,      \* struct oltk with the frame buffer
  at,      \* where the program is: "loop", "popup", "run", "exited"
  fed,     \* the button whose callback runs in oltk_feed
  suite, test, \* active_suite, active_test (0 for -1)
  procs,   \* the processes, the program first
  last,    \* pid_last_child
  btpower, \* did_bt_power of the program
  mixer,   \* the path of the audio mixer
  files,   \* the files under /tmp
  log,     \* how many results Log_Path holds
  copy,    \* tmp/log: -1 if there is none, else how many of them it holds
  samples, \* what the touch screen holds
  down,    \* does the operator's finger touch it?
  touches, runs, requests, \* history: how many
  pressed, \* history: the last press that was handled
  clicked, \* history: the last click, with its press and its release
  blocked, \* history: has a test slept without reading samples?
  verdict, \* history: the last PASS: its run, the runs the file was from
  late,    \* history: a WiFi run went without stopping its script
  drawn,   \* history: has a child drawn on the view?
  replies  \* history: what the server has answered

history == <<touches, runs, requests, pressed, clicked, blocked, verdict, late, drawn, replies>>
control == <<board, at, fed, suite, test>>
machine == <<procs, last, btpower, mixer, files, log, copy>>
finger  == <<samples, down>>
vars    == <<ui, control, machine, finger, history>>

Pids == 1 .. MaxProcs
Gone == [prog |-> <<>>, run |-> 0, what |-> "none", fd |-> 0, len |-> 0, data |-> 0, torn |-> FALSE]
NoFile == [inode |-> 0, wins |-> {}]
-----------------------------------------------------------------------------
(***************************************************************************)
(* The buttons, in the order main, setup_check and setup_popup add them.   *)
(***************************************************************************)
View == 1   Pass == 2   Quit == 3   Fail == 4
FirstOf(s)  == Iterates([i \in DOMAIN board |-> [n \in Nat |-> n + Len(board[i])]], 4)[s - 1]
TestsOf(s)  == FirstOf(s) + 1 .. FirstOf(s) + Len(board[s])
Popup  == FirstOf(Len(board) + 1) + 1
Dialog == Popup + 1
Items  == Dialog + 1 .. Dialog + Len(board)

setup_check(u) ==
  LET named == oltk_button_add(oltk_button_add(oltk_button_add(u,
                 Layout.pass, "Pass", "pass"), Layout.quit, "N.A", "none"),
                 Layout.fail, "Fail", "fail")
  IN  ShowAll(named, {Pass, Quit, Fail}, TRUE)

\* Buttons with a name.
Faces == DOMAIN TestFunctions \cup {"Pass", "N.A", "Fail", "none"}
Callbacks == {"pass", "fail", "none", "test", "popup", "popdown"}
Named == [rect : Rects, show : BOOLEAN, sensitive : BOOLEAN, face : Faces, active : BOOLEAN,
          cb : Callbacks, update : BOOLEAN]
AddSuites(u, suites) ==
  LET added == [s \in DOMAIN suites |-> [bs \in Seq(Named) |->
                 bs \o [t \in DOMAIN suites[s] |-> NewButton(Layout.test[t], suites[s][t], "test")]]]
  IN  [u EXCEPT !.button = Iterates(added, @)[Len(suites)]]

setup_popup(u, suites) ==
  LET all == oltk_popup_add(AddSuites(u, suites), Layout.popup, Layout.dialog,
                            [s \in DOMAIN suites |-> Layout.item[s]])
      first == {4 + t : t \in DOMAIN suites[1]}
      button == Len(all.button) - Len(suites) - 1
  IN  ShowAll(oltk_view_set_text(oltk_button_set_name(all, button, 1), View, "desc"), first, TRUE)

\* oltk_popup_set_selected names the button and calls on_popup_select.
Selected(u, s) ==
  LET named == oltk_button_set_name(u, Popup, s)
  IN  IF s = suite THEN named
      ELSE ShowAll(ShowAll(oltk_view_set_text(named, View, "desc"), TestsOf(suite), FALSE),
                   TestsOf(s), TRUE)
-----------------------------------------------------------------------------
(***************************************************************************)
(* The operator and the main loop.                                         *)
(***************************************************************************)
\* A finger goes down, or up, perhaps elsewhere.  While the program listens, a
\* millisecond apart, it has handled the sample before; while a test runs there
\* is time for it in its long steps.
Touch(p) ==
  /\ touches < MaxTouches
  /\ \/ at \in {"loop", "popup"} /\ samples = <<>>
     \/ at = "run" /\ procs[1].prog # <<>> /\ Head(procs[1].prog).op \in LongSteps \cup {"waitchild"}
  /\ samples' = Append(samples, [p |-> p, down |-> ~ down, when |-> at, seen |-> ui.screen[p][1]])
  /\ down' = ~ down /\ touches' = touches + 1
  /\ UNCHANGED <<ui, control, machine, runs, requests, pressed, clicked, blocked, verdict,
                 late, drawn, replies>>

\* What the operator did last, for the properties.
Note(s, b) ==
  /\ pressed' = IF s.down THEN [sample |-> s, button |-> b] ELSE pressed
  /\ clicked' = IF Clicks(ui, b, s.down)
                 THEN [button |-> b, press |-> pressed, release |-> s, blocked |-> blocked]
                 ELSE clicked

Redrawn(u) == ui' = oltk_redraw(u) /\ UNCHANGED drawn

\* A function of a test begins, and on_test_by_function redraws before.
Begin(t) ==
  /\ runs < MaxRuns /\ runs' = runs + 1
  /\ at' = "run"
  /\ procs' = [procs EXCEPT ![1].prog = TestFunctions[t], ![1].run = runs + 1]
on_test_by_function(u, t) == Begin(t) /\ Redrawn(u)

\* next_test, clicked with button b: the result is saved.
next_test(u, b) ==
  LET saved == IF test # 0 THEN log + 1 ELSE log
  IN  /\ log' = saved
      /\ \/ /\ test < Len(board[suite])
            /\ test' = test + 1
            /\ on_test_by_function(u, board[suite][test + 1])
            /\ UNCHANGED suite
         \/ /\ test = Len(board[suite]) /\ suite < Len(board)
            /\ Redrawn(Depressed(Selected(u, suite + 1), b))
            /\ suite' = suite + 1 /\ test' = 0
            /\ UNCHANGED <<at, runs, procs>>
         \/ /\ test = Len(board[suite]) /\ suite = Len(board)
            /\ Begin("log") /\ ui' = u
            /\ UNCHANGED <<suite, test, drawn>>

\* oltk_listen, oltk_feed and, without a test to run, oltk_redraw.
Feed ==
  /\ at = "loop" /\ samples # <<>>
  /\ LET s == Head(samples)
         b == Handler(ui, s.p)
         u == Fed(ui, b, s.down)
         cb == ui.button[b].cb
     IN  /\ samples' = Tail(samples) /\ fed' = b
         /\ Note(s, b)
         /\ \/ /\ ~ Clicks(ui, b, s.down)
               /\ Redrawn(Depressed(u, b))
               /\ UNCHANGED <<at, suite, test, procs, log, runs>>
            \/ /\ Clicks(ui, b, s.down) /\ cb \in {"pass", "fail"}
               /\ next_test(u, b)
            \/ /\ Clicks(ui, b, s.down) /\ cb = "test"
               /\ on_test_by_function(u, ui.button[b].face)
               /\ UNCHANGED <<suite, test, log>>
            \/ /\ Clicks(ui, b, s.down) /\ cb = "popup"
               /\ at' = "popup"
               /\ Redrawn(ShowAll(u, {Dialog} \cup Items, TRUE))
               /\ UNCHANGED <<suite, test, procs, log, runs>>
            \/ /\ Clicks(ui, b, s.down) /\ cb = "none"
               /\ Redrawn(Depressed(u, b))
               /\ UNCHANGED <<at, suite, test, procs, log, runs>>
  /\ UNCHANGED <<board, last, btpower, mixer, files, copy, down, touches, requests, blocked,
                 verdict, late, replies>>

\* The loop of on_popup, and what follows it when an item was clicked.
Choose ==
  /\ at = "popup" /\ samples # <<>>
  /\ LET s == Head(samples)
         b == ItemAt(ui, Items, s.p)
         u == FedItems(ui, Items, s.p, s.down)
         chosen == b - Dialog
     IN  /\ samples' = Tail(samples)
         /\ Note(s, b)
         /\ \/ /\ ~ Clicks(ui, b, s.down)
               /\ Redrawn(u)
               /\ UNCHANGED <<at, suite, test>>
            \/ /\ Clicks(ui, b, s.down)
               /\ at' = "loop"
               /\ Redrawn(Depressed(Selected(ShowAll(u, {Dialog} \cup Items, FALSE), chosen), fed))
               /\ suite' = chosen
               /\ test' = IF chosen = suite THEN test ELSE 0
  /\ UNCHANGED <<board, fed, machine, down, touches, runs, requests, blocked, verdict, late,
                 replies>>

\* A signal: sig calls oltk_abort, and the loops end once the test is over.
\* main then kills every process of its name.
Signal ==
  /\ ~ ui.abort /\ ui' = [ui EXCEPT !.abort = TRUE]
  /\ UNCHANGED <<control, machine, finger, history>>

Exit ==
  /\ at \in {"loop", "popup"} /\ ui.abort
  /\ at' = "exited"
  /\ procs' = [c \in Pids |-> IF procs[c].what = "script" THEN procs[c] ELSE Gone]
  /\ UNCHANGED <<ui, board, fed, suite, test, last, btpower, mixer, files, log, copy, finger, history>>

\* The function of the test has returned: on_test_by_function makes it the
\* active one, and the loop redraws.
Return ==
  /\ at = "run" /\ procs[1].prog = <<>>
  /\ at' = "loop"
  /\ test' = IF ui.button[fed].cb = "test" THEN fed - FirstOf(suite) ELSE test
  /\ Redrawn(Depressed(ui, fed))
  /\ UNCHANGED <<board, fed, suite, machine, finger, touches, runs, requests, pressed, clicked,
                 blocked, verdict, late, replies>>
-----------------------------------------------------------------------------
(***************************************************************************)
(* Steps of the processes.                                                 *)
(***************************************************************************)
Step(i)  == Head(procs[i].prog)
Does(i, op) == procs[i].prog # <<>> /\ Step(i).op = op
Then(i)  == LET rest == [procs[i] EXCEPT !.prog = Tail(@)]
            IN  [procs EXCEPT ![i] = IF i # 1 /\ rest.prog = <<>> THEN Gone ELSE rest]
Stops(i) == [procs EXCEPT ![i] = IF i = 1 THEN [@ EXCEPT !.prog = <<>>] ELSE Gone]

\* Whatever is quick is done within a countdown.
Quick == {c \in Pids \ {1} : procs[c].prog # <<>> /\ Step(c).op \notin LongSteps}
Settled_all == \A c \in Pids \ {1} : procs[c] = Gone
Settled == Quick = {}

\* A text on the view: the program's own, or what a child draws over it.
Shows(i, text) ==
  IF i = 1 THEN Redrawn(oltk_view_set_text(ui, View, text))
  ELSE /\ ui' = [ui EXCEPT !.screen = Paint(@, PointsOf(Layout.view), <<View, text>>)]
       /\ drawn' = TRUE

\* do_fork: the child runs func and exits; if there can be none the program exits.
\* The script of the WiFi test is started by a shell and is nobody's child.
Fork(i) ==
  /\ Does(i, "fork") \/ Does(i, "spawn")
  /\ \/ \E c \in Pids :
          /\ procs[c] = Gone /\ \A d \in 2 .. c - 1 : procs[d] # Gone
          /\ c # 1
          /\ procs' = [Then(i) EXCEPT ![c] =
               [Gone EXCEPT !.prog = Child(Step(i).arg, btpower), !.run = procs[i].run,
                            !.what = IF Step(i).op = "spawn" THEN "script" ELSE Step(i).arg]]
          /\ last' = IF Step(i).op = "fork" THEN c ELSE last
          /\ UNCHANGED at
     \/ /\ Does(i, "fork") /\ at' = "exited"
        /\ procs' = [procs EXCEPT ![1] = [@ EXCEPT !.prog = <<>>]]
        /\ UNCHANGED last
  /\ UNCHANGED <<ui, board, fed, suite, test, btpower, mixer, files, log, copy, finger, history>>

\* audio_path; the mixer is one for all processes.
Path(i) ==
  /\ Does(i, "path")
  /\ mixer' = Step(i).arg /\ procs' = Then(i)
  /\ UNCHANGED <<ui, control, last, btpower, files, log, copy, finger, history>>

\* countdown, countdown_statusfile (with its end at the child's): the samples
\* that came are gone.
Drained_kept(q) == q
Drained(q) == <<>>
Countdown(i) ==
  /\ Does(i, "wait") \/ Does(i, "waitchild")
  /\ (i = 1 => (Settled \/ (Does(i, "waitchild") /\ procs[last] = Gone)))
  /\ samples' = Drained(samples) /\ procs' = Then(i)
  /\ UNCHANGED <<ui, control, last, btpower, mixer, files, log, copy, down, history>>

\* In a child a countdown takes the samples the program should get.
Steals(i) ==
  /\ i # 1 /\ Does(i, "wait") /\ samples # <<>>
  /\ samples' = Drained(samples)
  /\ UNCHANGED <<ui, control, machine, down, history>>

\* A command that takes its time, or sleep: samples wait.
Block(i) ==
  /\ \/ /\ Does(i, "block") \/ Does(i, "try")
        /\ procs' = Then(i)
     \/ /\ Does(i, "try")
        /\ procs' = Stops(i)
  /\ blocked' = (blocked \/ i = 1)
  /\ UNCHANGED <<ui, control, last, btpower, mixer, files, log, copy, finger, touches, runs,
                 requests, pressed, clicked, verdict, late, drawn, replies>>

Text(i) ==
  /\ Does(i, "text") /\ procs' = Then(i)
  /\ Shows(i, Step(i).arg)
  /\ UNCHANGED <<control, last, btpower, mixer, files, log, copy, finger, touches, runs,
                 requests, pressed, clicked, blocked, verdict, late, replies>>

\* set_data: the device may be missing; some tests give up then.
Set(i) ==
  /\ Does(i, "set") \/ Does(i, "must")
  /\ \/ /\ Shows(i, "ON")
        /\ procs' = Then(i)
     \/ /\ Shows(i, "Fail")
        /\ procs' = IF Does(i, "must") THEN Stops(i) ELSE Then(i)
  /\ UNCHANGED <<control, last, btpower, mixer, files, log, copy, finger, touches, runs,
                 requests, pressed, clicked, blocked, verdict, late, replies>>

\* key_press gets an event of the key.
Key(i) ==
  /\ Does(i, "key") /\ procs' = Then(i)
  /\ UNCHANGED <<ui, control, last, btpower, mixer, files, log, copy, finger, history>>

\* did_bt_power = 1, in the memory of the process that runs do_bt_on_test.
Power(i) ==
  /\ Does(i, "power") /\ procs' = Then(i)
  /\ btpower' = (btpower \/ i = 1)
  /\ UNCHANGED <<ui, control, last, mixer, files, log, copy, finger, history>>

\* A file is unlinked; created or truncated by the shell's >; filled through
\* the descriptor that > gave; appended to by name.  A file keeps the runs that
\* have written their success to it.
File(i) ==
  /\ procs[i].prog # <<>>
  /\ LET f == Step(i).arg IN
       \/ /\ Does(i, "unlink")
          /\ files' = [files EXCEPT ![f] = NoFile] /\ procs' = Then(i)
       \/ /\ Does(i, "open")
          /\ LET n == IF files[f] = NoFile THEN 1 + runs ELSE files[f].inode
             IN  /\ files' = [files EXCEPT ![f] = [inode |-> n, wins |-> {}]]
                 /\ procs' = [Then(i) EXCEPT ![i].fd = n]
       \/ /\ Does(i, "fill")
          /\ \E won \in BOOLEAN :
               files' = IF won /\ files[f].inode = procs[i].fd
                         THEN [files EXCEPT ![f].wins = @ \cup {procs[i].run}] ELSE files
          /\ procs' = Then(i)
       \/ /\ Does(i, "append")
          /\ \E won \in BOOLEAN : files' = [files EXCEPT ![f] =
               [inode |-> IF @ = NoFile THEN 1 + runs ELSE @.inode,
                wins |-> IF won THEN @.wins \cup {procs[i].run} ELSE @.wins]]
          /\ procs' = Then(i)
       \/ /\ Does(i, "make")
          /\ \/ files' = [files EXCEPT ![f].inode = 1 + runs]
             \/ UNCHANGED files
          /\ procs' = Then(i)
  /\ UNCHANGED <<ui, control, last, btpower, mixer, log, copy, finger, history>>

\* access(file): without it the test says Fail and returns.
Need(i) ==
  /\ Does(i, "need")
  /\ LET there == files[Step(i).arg] # NoFile
     IN  /\ procs' = IF there THEN Then(i) ELSE Stops(i)
         /\ IF there THEN UNCHANGED <<ui, drawn>> ELSE Shows(i, "Fail")
         /\ late' = (late \/ (~ there /\ Step(i).arg = "wifi_log"))
  /\ UNCHANGED <<control, last, btpower, mixer, files, log, copy, finger, touches, runs,
                 requests, pressed, clicked, blocked, verdict, replies>>

\* killall.
Slain_none(what) == {}
Slain(what) == {c \in Pids : procs[c].what = what}
Kill(i) ==
  /\ Does(i, "kill")
  /\ procs' = [c \in Pids |-> IF c \in Slain(Step(i).arg) /\ c # i THEN Gone ELSE Then(i)[c]]
  /\ UNCHANGED <<ui, control, last, btpower, mixer, files, log, copy, finger, history>>

\* The test reads the file and looks for its word.
Judge(i) ==
  /\ Does(i, "judge")
  /\ LET wins == files[Step(i).arg].wins
     IN  /\ Shows(i, IF wins # {} THEN "PASS" ELSE "FAIL")
         /\ verdict' = IF i = 1 /\ wins # {} THEN [run |-> procs[i].run, from |-> wins] ELSE verdict
  /\ procs' = Then(i)
  /\ UNCHANGED <<control, last, btpower, mixer, files, log, copy, finger, touches, runs,
                 requests, pressed, clicked, blocked, late, replies>>
-----------------------------------------------------------------------------
(***************************************************************************)
(* The log and its server.                                                 *)
(***************************************************************************)
\* cp /tmp/log tmp/: the copy is empty before it is whole.
Copy(i) ==
  /\ Does(i, "truncate") \/ Does(i, "copy")
  /\ copy' = IF Does(i, "copy") THEN log ELSE 0
  /\ procs' = [c \in Pids |-> [Then(i)[c] EXCEPT !.torn = @ \/ Then(i)[c].what = "request"]]
  /\ UNCHANGED <<ui, control, last, btpower, mixer, files, log, finger, history>>

\* Start_Server: the address can be bound once; without it the process aborts.
Bind(i) ==
  /\ Does(i, "bind")
  /\ procs' = IF \E c \in Pids : c # i /\ Does(c, "accept") THEN Stops(i) ELSE Then(i)
  /\ UNCHANGED <<ui, control, last, btpower, mixer, files, log, copy, finger, history>>

\* accept, excute_request: a child for every request.
excute_request(i) ==
  /\ Does(i, "accept") /\ requests < MaxRequests
  /\ \E c \in Pids :
       /\ c \notin {1, last} /\ procs[c] = Gone
       /\ \A d \in 2 .. c - 1 : procs[d] # Gone \/ d = last
       /\ procs' = [procs EXCEPT ![c] = [Gone EXCEPT !.prog = GiveResponse, !.what = "request",
                                             !.torn = Does(1, "copy")]]
  /\ requests' = requests + 1
  /\ UNCHANGED <<ui, control, last, btpower, mixer, files, log, copy, finger, touches, runs,
                 pressed, clicked, blocked, verdict, late, drawn, replies>>

\* GiveResponse for the log: stat; the length by lseek; the content into a
\* buffer of that length that was cleared; both are sent.
Read_short(n) == Least(Most(n - 1, 0), copy)
Read(n) == Least(n, copy)
Respond(i) ==
  /\ \/ /\ Does(i, "stat")
        /\ procs' = IF copy = -1 THEN Stops(i) ELSE Then(i)
        /\ replies' = IF copy = -1 THEN replies \cup {[len |-> -1, data |-> -1, torn |-> procs[i].torn]}
                      ELSE replies
     \/ /\ Does(i, "lseek")
        /\ procs' = [Then(i) EXCEPT ![i].len = copy]
        /\ UNCHANGED replies
     \/ /\ Does(i, "read")
        /\ procs' = [Then(i) EXCEPT ![i].data = Read(procs[i].len)]
        /\ UNCHANGED replies
     \/ /\ Does(i, "send")
        /\ replies' = replies \cup {[len |-> procs[i].len, data |-> procs[i].data, torn |-> procs[i].torn]}
        /\ procs' = Then(i)
  /\ UNCHANGED <<ui, control, last, btpower, mixer, files, log, copy, finger, touches, runs,
                 requests, pressed, clicked, blocked, verdict, late, drawn>>
-----------------------------------------------------------------------------
Init ==
  /\ board \in Boards
  /\ ui = oltk_redraw(setup_popup(setup_check(oltk_view_add(oltk_new, Layout.view)), board))
  /\ at = "loop" /\ fed = 0 /\ suite = 1 /\ test = 0
  /\ procs = [c \in Pids |-> Gone] /\ last = 1 /\ btpower = FALSE
  /\ mixer = "speaker" /\ files = [f \in Files |-> NoFile] /\ log = 0 /\ copy = -1
  /\ samples = <<>> /\ down = FALSE
  /\ touches = 0 /\ runs = 0 /\ requests = 0
  /\ pressed = [sample |-> <<>>, button |-> 0]
  /\ clicked = [button |-> 0] /\ blocked = FALSE
  /\ verdict = [run |-> 0, from |-> {0}] /\ late = FALSE /\ drawn = FALSE /\ replies = {}

\* A step of process i that ends by itself.
Works(i) ==
  \/ Fork(i) \/ Path(i) \/ Countdown(i) \/ Block(i) \/ Text(i) \/ Set(i) \/ Power(i)
  \/ File(i) \/ Need(i) \/ Kill(i) \/ Judge(i) \/ Copy(i) \/ Bind(i) \/ Respond(i)

Next ==
  \/ \E p \in Touchable : Touch(p)
  \/ Feed \/ Choose \/ Signal \/ Exit \/ Return
  \/ \E i \in Pids : Works(i) \/ Key(i) \/ Steals(i) \/ excute_request(i)

\* The program and its children run; commands end.
Spec ==
  /\ Init /\ [][Next]_vars
  /\ WF_vars(Return)
  /\ \A i \in Pids : WF_vars(Works(i))
-----------------------------------------------------------------------------
(***************************************************************************)
(* Properties.                                                             *)
(***************************************************************************)
\* While the program listens the screen shows what it should, the topmost
\* button everywhere (oltk.c:861-900), unless a child has drawn over the view.
PaintedRight == at \in {"loop", "popup"} /\ ~ drawn => ui.screen = Picture(ui)

\* A button is clicked only if the operator pressed on it and released it there,
\* seeing it or what a child had drawn on the view, and no later press was
\* elsewhere; and not by what he touched during a countdown (oltk.c:774), as long
\* as no test has slept.
AsPressed ==
  clicked.button # 0 =>
    /\ clicked.press.button = clicked.button
    /\ ~ clicked.blocked =>
         /\ \/ clicked.press.sample.seen = clicked.button
            \/ drawn /\ clicked.press.sample.seen = View
         /\ clicked.press.sample.when # "run" /\ clicked.release.when # "run"

\* A test that passes on what a file says passes on output of this run, although
\* children and scripts of earlier runs may live (tests-bluetooth.c:103,
\* tests-gsm.c:17, tests-wifi.c:11), unless one left the WiFi script running; and
\* no test leaves the mixer in a loopback or on the modem.
OwnOutcome ==
  /\ ~ late => verdict.run \in verdict.from
  /\ at = "loop" => mixer \in {"speaker", "receiver"}

\* An answer of the log server carries as much as it announces, and is there
\* once the server answers at all, unless the log was copied in between.
WholeReport ==
  \A r \in replies : ~ r.torn => r.len # -1 /\ r.data = r.len

\* Every test comes back to the operator, whatever its children do.
TestEnds == at = "run" ~> at # "run"
=============================================================================
